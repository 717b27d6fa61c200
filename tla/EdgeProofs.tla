----------------------------- MODULE EdgeProofs -----------------------------
(***************************************************************************)
(* The parts at the edge of the process, for any number of connections,    *)
(* polls, updates, rows, chats, keys and calls: the connection of a        *)
(* WhatsApp account, the pollers of Telegram and iMessage, the stream of   *)
(* Signal, the requests of webchat, and the metered proxy.  They share     *)
(* nothing, so each part is proved by itself.  Of WhatsApp, Telegram and   *)
(* Signal the last theorem is what their liveness rests on: somebody is    *)
(* always left who goes on.                                                *)
(***************************************************************************)
EXTENDS WhatsAppConnection, TelegramPoller, IMessagePoller, SignalStream, WebChat,
        LlmProxy, FiniteSetTheorems, TLAPS

-----------------------------------------------------------------------------
(* WhatsApp: one connection at a time, and what sendText may rely on.  The *)
(* backoff delay plays no part in either.                                  *)

\* Nothing is under way before the start, a socket that may open or is open
\* is the one sendText uses, and `connected' needs an open one.
ConnInv ==
  /\ stage \in [Conns -> Live \cup {"free", "ended"}]
  /\ sock \in Conns \cup {none}
  /\ connected \in BOOLEAN
  /\ process = "starting" => \A c \in Conns : stage[c] = "free"
  /\ \A c \in Conns : stage[c] \in {"opening", "open"} => sock = c
  /\ connected => sock \in Conns /\ stage[sock] = "open"
  /\ \A c \in Conns : stage[c] = "open" => connected

IInv == ConnInv /\ OneConnection

\* A connection that is under way goes on by itself: the others are as free
\* as they were, and if it was not open nothing is.
LEMMA MovesOn ==
  ASSUME IInv, NEW c \in Conns, stage[c] \in Live
  PROVE  /\ \A d \in Conns : d # c => stage[d] \in {"free", "ended"}
         /\ stage[c] # "open" => ~connected
<1>1. \A d \in Conns : d # c => stage[d] \notin Live
  BY DEF IInv, OneConnection
<1>2. \A d \in Conns : stage[d] \in Live \cup {"free", "ended"}
  BY DEF IInv, ConnInv
<1>3. stage[c] # "open" => ~connected
  BY <1>1 DEF IInv, ConnInv, Live, Sockets
<1> QED
  BY <1>1, <1>2, <1>3

LEMMA InvNext == IInv /\ [WhatsAppNext]_whatsappVars => IInv'
<1> SUFFICES ASSUME IInv, [WhatsAppNext]_whatsappVars
             PROVE  IInv'
  OBVIOUS
<1>0. /\ stage \in [Conns -> Live \cup {"free", "ended"}] /\ sock \in Conns \cup {none}
      /\ connected \in BOOLEAN /\ none \notin Conns
  BY ConnectionAssumption DEF IInv, ConnInv
<1>1. CASE Start
  <2>1. PICK c \in Conns : stage' = [stage EXCEPT ![c] = "starting"]
    BY <1>1 DEF Start
  <2>2. /\ \A d \in Conns : stage[d] = "free"
        /\ ~connected /\ process' = "up" /\ sock' = sock /\ connected' = connected
    BY <1>0, <1>1 DEF IInv, ConnInv, Start, adapterVars
  <2>3. /\ stage'[c] = "starting" /\ stage' \in [Conns -> Live \cup {"free", "ended"}]
        /\ \A d \in Conns : d # c => stage'[d] = "free"
    BY <1>0, <2>1, <2>2 DEF Live
  <2> QED
    BY <1>0, <2>2, <2>3 DEF IInv, ConnInv, OneConnection, Live, Sockets, Retrying
<1>2. ASSUME NEW c \in Conns, Alive, stage[c] \in Live, process' # "starting",
             NEW s \in (Live \ {"opening", "open"}) \cup {"free", "ended"},
             stage' = [stage EXCEPT ![c] = s], sock' = sock,
             connected' = FALSE
      PROVE  IInv'
  <2>1. \A d \in Conns : d # c => stage'[d] \in {"free", "ended"}
    BY <1>0, <1>2, MovesOn
  <2>2. stage'[c] = s /\ stage' \in [Conns -> Live \cup {"free", "ended"}]
    BY <1>0, <1>2 DEF Live, Sockets, Retrying
  <2> QED
    BY <1>0, <1>2, <2>1, <2>2 DEF IInv, ConnInv, OneConnection, Live, Sockets, Retrying
<1>3. ASSUME NEW c \in Conns, SocketMade(c)
      PROVE  IInv'
  <2>1. /\ stage[c] \in Live /\ stage[c] # "open" /\ process' # "starting"
        /\ stage' = [stage EXCEPT ![c] = "opening"] /\ sock' = c /\ connected' = connected
    BY <1>3 DEF SocketMade, Live, adapterVars, Alive
  <2>2. ~connected /\ \A d \in Conns : d # c => stage'[d] \in {"free", "ended"}
    BY <1>0, <2>1, MovesOn
  <2> QED
    BY <1>0, <2>1, <2>2 DEF IInv, ConnInv, OneConnection, Live, Sockets, Retrying
<1>4. ASSUME NEW c \in Conns, Opened(c)
      PROVE  IInv'
  <2>1. /\ stage[c] \in Live /\ sock = c /\ process' # "starting"
        /\ stage' = [stage EXCEPT ![c] = "open"] /\ sock' = sock /\ connected' = TRUE
    BY <1>4 DEF Opened, Live, Sockets, Alive, IInv, ConnInv
  <2>2. \A d \in Conns : d # c => stage'[d] \in {"free", "ended"}
    BY <1>0, <2>1, MovesOn
  <2> QED
    BY <1>0, <2>1, <2>2 DEF IInv, ConnInv, OneConnection, Live, Sockets, Retrying
<1>5. ASSUME NEW c \in Conns, Closed(c) \/ LoggedOut(c)
      PROVE  IInv'
  BY <1>2, <1>5 DEF Closed, LoggedOut, Live, Sockets, Retrying, Alive
<1>6. ASSUME NEW c \in Conns, StartFails(c) \/ ProxyUp(c) \/ ProxyDown(c) \/ Reprobe(c) \/ StillDown(c)
      PROVE  IInv'
  <2>1. stage[c] \in Live /\ stage[c] # "open" /\ Alive /\ process' # "starting"
        /\ sock' = sock /\ connected' = connected
    BY <1>6 DEF StartFails, ProxyUp, ProxyDown, Reprobe, StillDown, Live, Sockets, Retrying,
       adapterVars, Alive
  <2>2. connected' = FALSE
    BY <1>0, <2>1, MovesOn
  <2> QED
    BY <1>2, <1>6, <2>1, <2>2 DEF StartFails, ProxyUp, ProxyDown, Reprobe, StillDown, Live,
       Sockets, Retrying
<1>7. ASSUME NEW c \in Conns, Recovered(c) \/ BackoffOver(c)
      PROVE  IInv'
  <2>1. stage[c] \in Live /\ stage[c] # "open" /\ process' # "starting"
        /\ sock' = sock /\ connected' = connected /\ connectAfter(c)
    BY <1>7 DEF Recovered, BackoffOver, Live, Sockets, Retrying, Alive
  <2>2. ~connected /\ \A d \in Conns : d # c => stage[d] \in {"free", "ended"}
    BY <2>1, MovesOn
  <2>3. PICK d \in Conns : stage' = [stage EXCEPT ![c] = "free", ![d] = "connecting"]
    BY <2>1 DEF connectAfter
  <2>4. stage'[d] = "connecting" /\ \A e \in Conns : e # d => stage'[e] \in {"free", "ended"}
    BY <1>0, <2>2, <2>3
  <2> QED
    BY <1>0, <2>1, <2>2, <2>3, <2>4 DEF IInv, ConnInv, OneConnection, Live, Sockets, Retrying
<1>8. ASSUME (\E c \in Conns : ReconnectFails(c)) \/ Exit \/ UNCHANGED whatsappVars
      PROVE  IInv'
  BY <1>8 DEF ReconnectFails, Exit, whatsappVars, adapterVars, IInv, ConnInv, OneConnection
<1>9. CASE disconnect
  <2>1. /\ process' # "starting" /\ sock' = none /\ connected' = FALSE
        /\ stage' = [c \in Conns |->
                       IF c = sock /\ stage[c] \in Sockets THEN "closing" ELSE stage[c]]
    BY <1>9 DEF disconnect
  <2>2. \A c \in Conns : /\ stage'[c] \in Live => stage[c] \in Live
                         /\ stage'[c] \notin {"opening", "open"}
                         /\ stage'[c] \in Live \cup {"free", "ended"}
    BY <1>0, <2>1 DEF IInv, ConnInv, Live, Sockets
  <2> QED
    BY <1>0, <2>1, <2>2 DEF IInv, ConnInv, OneConnection
<1>10. CASE Restart
  BY <1>0, <1>10 DEF Restart, IInv, ConnInv, OneConnection, Live, Sockets, Retrying
<1> QED
  BY <1>1, <1>3, <1>4, <1>5, <1>6, <1>7, <1>8, <1>9, <1>10 DEF WhatsAppNext, Served, Event

LEMMA InvAlways == WhatsAppSpec => []IInv
<1>1. WhatsAppInit => IInv
  BY ConnectionAssumption DEF WhatsAppInit, IInv, ConnInv, OneConnection, Live, Sockets, Retrying
<1> QED
  BY <1>1, InvNext, PTL DEF WhatsAppSpec

\* An account has one connection, or one attempt to connect, at a time, over
\* closed sockets, both kinds of timers, proxy outages, stops and restarts.
THEOREM OneConnectionHolds == WhatsAppSpec => []OneConnection
<1>1. IInv => OneConnection
  BY DEF IInv
<1> QED
  BY <1>1, InvAlways, PTL

\* When `connected' is set, `sock' is an open socket, and no other one is open.
THEOREM SendsFindOpenSocket == WhatsAppSpec => []SendsUseOpenSocket
<1>1. IInv => SendsUseOpenSocket
  BY DEF IInv, ConnInv, SendsUseOpenSocket
<1> QED
  BY <1>1, InvAlways, PTL

(* While the process runs, exactly one connection of the account is open,  *)
(* under way, or waiting for its timer, unless the phone unlinked it or    *)
(* its first attempt failed: whatever the paths of close events, probes,   *)
(* intervals and disconnect() through reconnectWithProxyCheck, none drops  *)
(* the account, and none waits longer than MAX_RECONNECT_DELAY_MS          *)
(* (whatsapp.ts:285-372).                                                  *)
NeverAbandoned ==
  /\ Alive => \E c \in Conns : stage[c] # "free" /\ \A d \in Conns \ {c} : stage[d] = "free"
  /\ \A c \in Conns : delay[c] <= MAX_RECONNECT_DELAY_MS

\* Before the start nothing is under way, and each connection has its timer.
AbandonInv ==
  /\ NeverAbandoned
  /\ process = "starting" => \A c \in Conns : stage[c] = "free"
  /\ stage = [c \in Conns |-> stage[c]] /\ delay = [c \in Conns |-> delay[c]]

LEMMA BackoffBounded == \A n : Backoff(n) <= MAX_RECONNECT_DELAY_MS
BY ConnectionAssumption DEF Backoff

LEMMA AbandonNext == AbandonInv /\ [WhatsAppNext]_whatsappVars => AbandonInv'
<1> SUFFICES ASSUME AbandonInv, [WhatsAppNext]_whatsappVars PROVE AbandonInv'
  OBVIOUS
<1>1. CASE Start
  BY <1>1 DEF Start, AbandonInv, NeverAbandoned, Alive, adapterVars
<1>2. CASE Restart
  BY <1>2, ConnectionAssumption DEF Restart, AbandonInv, NeverAbandoned, Alive
<1>3. CASE (\E c \in Conns : ReconnectFails(c)) \/ Exit \/ UNCHANGED whatsappVars
  BY <1>3 DEF ReconnectFails, Exit, whatsappVars, adapterVars, AbandonInv, NeverAbandoned, Alive
<1>4. CASE disconnect
  BY <1>4 DEF disconnect, AbandonInv, NeverAbandoned, Alive, Sockets
<1>5. ASSUME NEW c \in Conns, Served(c) \/ Event(c), ~ReconnectFails(c) PROVE AbandonInv'
  <2>1. Alive /\ stage[c] # "free" /\ process' = process
    BY <1>5 DEF Served, Event, SocketMade, ProxyUp, ProxyDown, Reprobe, StillDown, Recovered,
       BackoffOver, StartFails, Opened, Closed, LoggedOut, Sockets
  <2>2. \A d \in Conns \ {c} : stage[d] = "free"
    BY <2>1 DEF AbandonInv, NeverAbandoned
  <2>3. \/ delay' = delay
        \/ delay' = [delay EXCEPT ![c] = 0]
        \/ \E n : delay' = [delay EXCEPT ![c] = Backoff(n)]
    BY <1>5 DEF Served, Event, SocketMade, ProxyUp, ProxyDown, Reprobe, StillDown, Recovered,
       BackoffOver, StartFails, Opened, Closed, LoggedOut, adapterVars
  <2>4. (\A d \in Conns : delay'[d] <= MAX_RECONNECT_DELAY_MS) /\ delay' = [d \in Conns |-> delay'[d]]
    <3> HIDE DEF Backoff
    <3> QED BY <2>3, BackoffBounded, ConnectionAssumption DEF AbandonInv, NeverAbandoned
  <2>5. CASE \E w \in Live \cup {"ended"} : stage' = [stage EXCEPT ![c] = w]
    BY <2>1, <2>2, <2>4, <2>5 DEF AbandonInv, NeverAbandoned, Alive, Live, Sockets, Retrying
  <2>6. CASE connectAfter(c)
    <3>1. PICK d \in Conns : stage' = [stage EXCEPT ![c] = "free", ![d] = "connecting"]
      BY <2>6 DEF connectAfter
    <3>2. stage' = [e \in Conns |-> stage'[e]]
      BY <3>1 DEF AbandonInv
    <3>3. stage'[d] = "connecting"
      BY <3>1 DEF AbandonInv
    <3>4. \A e \in Conns \ {d} : stage'[e] = "free"
      BY <2>2, <3>1 DEF AbandonInv
    <3> QED BY <2>1, <2>4, <3>2, <3>3, <3>4 DEF AbandonInv, NeverAbandoned, Alive
  <2>7. (\E w \in Live \cup {"ended"} : stage' = [stage EXCEPT ![c] = w]) \/ connectAfter(c)
    BY <1>5 DEF Served, Event, SocketMade, ProxyUp, ProxyDown, Reprobe, StillDown, Recovered,
       BackoffOver, StartFails, Opened, Closed, LoggedOut, Live, Sockets, Retrying
  <2> QED BY <2>5, <2>6, <2>7
<1> QED BY <1>1, <1>2, <1>3, <1>4, <1>5 DEF WhatsAppNext, Event

\* For any connections, timers and delays, a running process keeps exactly one
\* connection, attempt or retry of the account, due within the longest backoff.
THEOREM AccountNeverAbandoned == WhatsAppSpec => []NeverAbandoned
<1>1. WhatsAppInit => AbandonInv
  BY ConnectionAssumption DEF WhatsAppInit, AbandonInv, NeverAbandoned, Alive
<1>2. AbandonInv => NeverAbandoned
  BY DEF AbandonInv
<1> QED BY <1>1, <1>2, AbandonNext, PTL DEF WhatsAppSpec

-----------------------------------------------------------------------------
(* Telegram: the poller never confirms an update that no handler dealt     *)
(* with.  The argument: whatever an offset passes is handled.  This holds  *)
(* of the adapter's offset, of the offset that each running loop asked     *)
(* with and of the place where it is in its batch, and of what Telegram    *)
(* was told.  An offset that goes back, as a restart or an older loop sets *)
(* it, passes less.                                                        *)

\* A loop that hands updates over is inside the batch it was given.
InBatch == \A l \in Loops : At(l, "handle") => loop[l].next \in 1..loop[l].last

TypeInv == TelegramTypeOK /\ InBatch

\* Everything before u is handled.
HandledBefore(u) == \A v \in 1..Updates : v < u => v \in handled

PassedIsHandled ==
  /\ HandledBefore(confirmed + 1)
  /\ HandledBefore(pollOffset)
  /\ \A l \in Loops : At(l, "fetch") \/ At(l, "handle") => HandledBefore(loop[l].next)

-----------------------------------------------------------------------------
LEMMA TelegramConstants ==
  Updates \in Nat /\ BatchLimit \in Nat /\ MaxFaults \in Nat /\ Idle \in LoopStates
  BY TelegramAssumption DEF Idle, LoopStates

LEMMA InitTypes == TelegramInit => TypeInv
<1> SUFFICES ASSUME TelegramInit PROVE TypeInv
  OBVIOUS
<1>1. loop \in [Loops -> LoopStates] /\ InBatch
  BY TelegramConstants DEF TelegramInit, InBatch, At, Idle
<1>2. polling \in BOOLEAN
  BY DEF TelegramInit
<1> QED BY <1>1, <1>2, TelegramConstants DEF TelegramInit, TypeInv, TelegramTypeOK

LEMMA CaughtTypes ==
  ASSUME TypeInv, NEW l \in Loops, Caught(l)
  PROVE  /\ loop' \in [Loops -> LoopStates]
         /\ \A k \in Loops : loop'[k].pc \notin {"sleep", "idle"} => loop'[k] = loop[k]
<1>1. loop \in [Loops -> LoopStates] /\ loop[l] \in LoopStates
  BY DEF TypeInv, TelegramTypeOK
<1>2. CASE polling
  <2>1. [loop[l] EXCEPT !.pc = "sleep"] \in LoopStates
    BY <1>1 DEF LoopStates
  <2>2. loop' = [loop EXCEPT ![l] = [loop[l] EXCEPT !.pc = "sleep"]]
    BY <1>2 DEF Caught
  <2>3. loop'[l].pc = "sleep"
    BY <1>1, <2>2 DEF LoopStates
  <2> QED BY <1>1, <2>1, <2>2, <2>3
<1>3. CASE ~polling
  <2>1. loop' = [loop EXCEPT ![l] = Idle]
    BY <1>3 DEF Caught
  <2>2. loop'[l].pc = "idle"
    BY <1>1, <2>1 DEF Idle
  <2> QED BY <1>1, <2>1, <2>2, TelegramConstants
<1> QED BY <1>2, <1>3

LEMMA GotTypes ==
  ASSUME TypeInv, NEW l \in Loops, GotUpdates(l)
  PROVE  TypeInv'
<1> DEFINE first == Larger(loop[l].next, confirmed + 1)
           end == Smaller(arrived, first + BatchLimit - 1)
           new == [pc |-> IF first <= end THEN "handle" ELSE "top",
                   next |-> Smaller(first, Updates + 1), last |-> Larger(end, 0)]
<1>1. /\ loop[l] \in LoopStates /\ {arrived, confirmed} \subseteq 0..Updates
      /\ Updates \in Nat /\ BatchLimit \in Nat
  BY TelegramAssumption DEF TypeInv, TelegramTypeOK
<1>2. first \in 1..Updates + 1 /\ end \in 0..Updates
  BY <1>1 DEF Larger, Smaller, LoopStates
<1>3. new \in LoopStates /\ (new.pc = "handle" => new.next \in 1..new.last)
  <2> HIDE DEF first, end
  <2> QED BY <1>1, <1>2 DEF Larger, Smaller, LoopStates
<1>4. loop' = [loop EXCEPT ![l] = new] /\ UNCHANGED <<arrived, confirmed, handled, bot, polling, pollOffset, faults>>
  BY DEF GotUpdates, telegramKept
<1> HIDE DEF new
<1> QED BY <1>3, <1>4 DEF TypeInv, TelegramTypeOK, InBatch, At

LEMMA HandledTypes ==
  ASSUME TypeInv, NEW l \in Loops, UpdateHandled(l)
  PROVE  TypeInv'
<1>1. loop[l] \in LoopStates /\ loop[l].next \in 1..loop[l].last /\ Updates \in Nat
  BY TelegramAssumption DEF TypeInv, TelegramTypeOK, InBatch, UpdateHandled
<1>2. loop[l].next \in 1..Updates /\ loop[l].next + 1 \in 0..Updates + 1
  BY <1>1 DEF LoopStates
<1> DEFINE new == [pc |-> IF loop[l].next < loop[l].last THEN "handle" ELSE "top",
                   next |-> loop[l].next + 1, last |-> loop[l].last]
<1>3. new \in LoopStates /\ (new.pc = "handle" => new.next \in 1..new.last)
  BY <1>1, <1>2 DEF LoopStates
<1>4. loop' = [loop EXCEPT ![l] = new]
  BY DEF UpdateHandled
<1> HIDE DEF new
<1> QED BY <1>2, <1>3, <1>4 DEF UpdateHandled, TypeInv, TelegramTypeOK, InBatch, At

LEMMA StepTypes ==
  ASSUME TypeInv, [TelegramNext]_telegramVars
  PROVE  TypeInv'
<1>1. CASE UpdateArrives
  BY <1>1, TelegramAssumption DEF UpdateArrives, TypeInv, TelegramTypeOK, InBatch, At
<1>2. CASE Connect \/ ConnectFails \/ Disconnect
  <2>1. bot' \in {"none", "connecting", "ready"} /\ faults' \in 0..MaxFaults
    BY <1>2, TelegramConstants
    DEF Connect, ConnectFails, Disconnect, MayFail, TypeInv, TelegramTypeOK
  <2>2. polling' \in BOOLEAN
    BY <1>2, Zenon DEF Connect, ConnectFails, Disconnect, TypeInv, TelegramTypeOK
  <2> QED BY <1>2, <2>1, <2>2 DEF Connect, ConnectFails, Disconnect, telegramKept, TypeInv,
                            TelegramTypeOK, InBatch, At
<1>3. CASE TelegramRestart
  <2>1. loop' \in [Loops -> LoopStates] /\ InBatch'
    BY <1>3, TelegramConstants DEF TelegramRestart, InBatch, At, Idle
  <2>2. faults' \in 0..MaxFaults
    BY <1>3, TelegramConstants DEF TelegramRestart, MayFail, TypeInv, TelegramTypeOK
  <2>3. polling' \in BOOLEAN
    BY <1>3, Zenon DEF TelegramRestart
  <2> QED BY <1>3, <2>1, <2>2, <2>3, TelegramConstants DEF TelegramRestart, telegramKept, TypeInv, TelegramTypeOK
<1>4. ASSUME NEW l \in Loops, Connected(l) \/ LoopEnds(l) \/ Awake(l)
      PROVE  TypeInv'
  <2>1. loop \in [Loops -> LoopStates] /\ [loop[l] EXCEPT !.pc = "top"] \in LoopStates
    BY DEF TypeInv, TelegramTypeOK, LoopStates
  <2>2. \/ loop' = [loop EXCEPT ![l] = Idle]
        \/ loop' = [loop EXCEPT ![l] = [loop[l] EXCEPT !.pc = "top"]]
    BY <1>4 DEF Connected, LoopEnds, Awake, Goto
  <2>3. loop'[l].pc # "handle" /\ \A k \in Loops \ {l} : loop'[k] = loop[k]
    BY <2>1, <2>2 DEF Idle, LoopStates
  <2>4. loop' \in [Loops -> LoopStates] /\ InBatch'
    BY <2>1, <2>2, <2>3, TelegramConstants DEF InBatch, At, TypeInv
  <2> QED BY <1>4, <2>4 DEF Connected, LoopEnds, Awake, telegramKept, TypeInv, TelegramTypeOK
<1>5. ASSUME NEW l \in Loops, GetUpdates(l)
      PROVE  TypeInv'
  BY <1>5, TelegramAssumption
  DEF GetUpdates, At, Larger, TypeInv, TelegramTypeOK, InBatch, LoopStates
<1>6. ASSUME NEW l \in Loops, GetUpdatesFails(l) \/ HandlerFails(l)
      PROVE  TypeInv'
  <2>1. loop' \in [Loops -> LoopStates] /\ InBatch'
    BY <1>6, CaughtTypes DEF GetUpdatesFails, HandlerFails, TypeInv, InBatch, At
  <2>2. faults' \in 0..MaxFaults
    BY <1>6, TelegramConstants DEF GetUpdatesFails, HandlerFails, MayFail, TypeInv, TelegramTypeOK
  <2> QED BY <1>6, <2>1, <2>2
          DEF GetUpdatesFails, HandlerFails, telegramKept, TypeInv, TelegramTypeOK
<1>7. CASE UNCHANGED telegramVars
  BY <1>7 DEF telegramVars, TypeInv, TelegramTypeOK, InBatch, At
<1> QED BY <1>1, <1>2, <1>3, <1>4, <1>5, <1>6, <1>7, GotTypes, HandledTypes
        DEF TelegramNext, LoopStep

(* The state of the adapter and of Telegram's queue keeps its type.        *)
THEOREM TelegramTypeCorrect == TelegramSpec => []TelegramTypeOK
<1>1. TypeInv => TelegramTypeOK  BY DEF TypeInv
<1> QED BY <1>1, InitTypes, StepTypes, PTL DEF TelegramSpec

-----------------------------------------------------------------------------
LEMMA StepPasses ==
  ASSUME TypeInv, PassedIsHandled, [TelegramNext]_telegramVars
  PROVE  PassedIsHandled'
<1>1. CASE UpdateArrives \/ Connect \/ ConnectFails \/ Disconnect
  BY <1>1 DEF UpdateArrives, Connect, ConnectFails, Disconnect, telegramKept,
              PassedIsHandled, HandledBefore, At
<1>2. CASE TelegramRestart
  BY <1>2, TelegramAssumption DEF TelegramRestart, telegramKept, PassedIsHandled, HandledBefore, At, Idle
<1>3. ASSUME NEW l \in Loops, Connected(l) \/ LoopEnds(l) \/ Awake(l)
      PROVE  PassedIsHandled'
  BY <1>3 DEF Connected, LoopEnds, Awake, Goto, At, telegramKept, PassedIsHandled,
              HandledBefore, Idle, TypeInv, TelegramTypeOK, LoopStates
<1>4. ASSUME NEW l \in Loops, GetUpdates(l)
      PROVE  PassedIsHandled'
  <2>1. confirmed \in Nat /\ pollOffset \in Nat /\ Updates \in Nat
    BY TelegramAssumption DEF TypeInv, TelegramTypeOK
  <2>2. HandledBefore(confirmed + 1)'
    BY <1>4, <2>1 DEF GetUpdates, Larger, PassedIsHandled, HandledBefore
  <2> QED BY <1>4, <2>2 DEF GetUpdates, PassedIsHandled, HandledBefore, At, TypeInv, TelegramTypeOK
<1>5. ASSUME NEW l \in Loops, GotUpdates(l)
      PROVE  PassedIsHandled'
  <2>1. /\ confirmed \in Nat /\ loop[l].next \in Nat /\ Updates \in Nat
    BY TelegramAssumption DEF TypeInv, TelegramTypeOK, LoopStates
  <2>2. HandledBefore(Smaller(Larger(loop[l].next, confirmed + 1), Updates + 1))
    BY <1>5, <2>1 DEF GotUpdates, At, PassedIsHandled, HandledBefore, Larger, Smaller
  <2> QED BY <1>5, <2>2 DEF GotUpdates, telegramKept, PassedIsHandled, HandledBefore, At,
                            TypeInv, TelegramTypeOK
<1>6. ASSUME NEW l \in Loops, UpdateHandled(l)
      PROVE  PassedIsHandled'
  <2>1. loop[l].next \in Nat /\ Updates \in Nat
    BY TelegramAssumption DEF TypeInv, TelegramTypeOK, LoopStates
  <2>2. \A v \in 1..Updates : v < loop[l].next + 1 => v \in handled'
    BY <1>6, <2>1 DEF UpdateHandled, At, PassedIsHandled, HandledBefore
  <2>3. /\ confirmed' = confirmed /\ handled \subseteq handled'
        /\ pollOffset' = loop[l].next + 1 /\ loop'[l].next = loop[l].next + 1
        /\ \A k \in Loops \ {l} : loop'[k] = loop[k]
    BY <1>6 DEF UpdateHandled, TypeInv, TelegramTypeOK, LoopStates
  <2> QED BY <2>2, <2>3 DEF PassedIsHandled, HandledBefore, At
<1>7. ASSUME NEW l \in Loops, GetUpdatesFails(l) \/ HandlerFails(l)
      PROVE  PassedIsHandled'
  <2>1. \A k \in Loops : loop'[k].pc \notin {"sleep", "idle"} => loop'[k] = loop[k]
    BY <1>7, CaughtTypes DEF GetUpdatesFails, HandlerFails
  <2> QED BY <1>7, <2>1 DEF GetUpdatesFails, HandlerFails, telegramKept, PassedIsHandled,
                            HandledBefore, At
<1>8. CASE UNCHANGED telegramVars
  BY <1>8 DEF telegramVars, PassedIsHandled, HandledBefore, At
<1> QED BY <1>1, <1>2, <1>3, <1>4, <1>5, <1>6, <1>7, <1>8 DEF TelegramNext, LoopStep

(* At least once: what Telegram was told to forget has been handled.       *)
THEOREM AcknowledgedIsHandled == TelegramSpec => []AckAfterHandled
<1>1. TelegramInit => PassedIsHandled
  BY TelegramAssumption DEF TelegramInit, PassedIsHandled, HandledBefore, At, Idle
<1>2. TypeInv /\ PassedIsHandled => AckAfterHandled
  BY TelegramAssumption DEF TypeInv, TelegramTypeOK, PassedIsHandled, HandledBefore, AckAfterHandled
<1> QED BY <1>1, <1>2, InitTypes, StepTypes, StepPasses, PTL DEF TelegramSpec

(* While the adapter is connected a loop polls: neither an update that     *)
(* cannot be handled, nor a failing network, nor the loop of an earlier    *)
(* connection that ends late leaves it without one (pollLoop).             *)
SomebodyPolls ==
  /\ polling <=> bot = "ready"
  /\ polling => \E l \in Loops : ~At(l, "idle")

LEMMA PollsNext ==
  ASSUME TypeInv, SomebodyPolls, [TelegramNext]_telegramVars
  PROVE  SomebodyPolls'
<1>0. loop \in [Loops -> LoopStates]
  BY DEF TypeInv, TelegramTypeOK
<1>1. CASE UpdateArrives \/ UNCHANGED telegramVars
  BY <1>1 DEF UpdateArrives, telegramVars, SomebodyPolls, At
<1>2. CASE Connect \/ ConnectFails \/ Disconnect \/ TelegramRestart
  BY <1>2 DEF Connect, ConnectFails, Disconnect, TelegramRestart, SomebodyPolls, At
<1>3. ASSUME NEW l \in Loops, Connected(l) PROVE SomebodyPolls'
  BY <1>0, <1>3 DEF Connected, Goto, SomebodyPolls, At, LoopStates
<1>4. ASSUME NEW l \in Loops, LoopStep(l) PROVE SomebodyPolls'
  <2>1. polling' = polling /\ bot' = bot
    BY <1>4 DEF LoopStep, LoopEnds, GetUpdates, GotUpdates, GetUpdatesFails, UpdateHandled,
       HandlerFails, Awake
  <2>2. \A k \in Loops \ {l} : loop'[k] = loop[k]
    BY <1>0, <1>4 DEF LoopStep, LoopEnds, GetUpdates, GotUpdates, GetUpdatesFails, UpdateHandled,
       HandlerFails, Awake, Caught, Goto
  <2>3. ~At(l, "idle")
    BY <1>4 DEF LoopStep, LoopEnds, GetUpdates, GotUpdates, GetUpdatesFails, UpdateHandled,
       HandlerFails, Awake, At
  <2>4. polling => loop'[l].pc # "idle"
    <3> SUFFICES ASSUME polling PROVE loop'[l].pc # "idle"
      OBVIOUS
    <3>1. CASE GetUpdates(l) \/ GotUpdates(l) \/ UpdateHandled(l)
      <4>1. \E w \in {"fetch", "handle", "top"} : \E n, m :
              loop' = [loop EXCEPT ![l] = [pc |-> w, next |-> n, last |-> m]]
        BY Zenon, <3>1 DEF GetUpdates, GotUpdates, UpdateHandled
      <4> QED BY <1>0, <4>1
    <3>2. CASE GetUpdatesFails(l) \/ HandlerFails(l) \/ Awake(l)
      <4>1. \/ loop' = [loop EXCEPT ![l] = [loop[l] EXCEPT !.pc = "sleep"]]
            \/ loop' = [loop EXCEPT ![l] = [loop[l] EXCEPT !.pc = "top"]]
        BY <3>2 DEF GetUpdatesFails, HandlerFails, Awake, Caught, Goto
      <4> QED BY <1>0, <4>1 DEF LoopStates
    <3> QED BY <1>4, <3>1, <3>2 DEF LoopStep, LoopEnds
  <2> QED BY <2>1, <2>2, <2>3, <2>4 DEF SomebodyPolls, At
<1> QED BY <1>1, <1>2, <1>3, <1>4 DEF TelegramNext

\* For any loops, updates and faults, a connected adapter has a loop that polls.
THEOREM ConnectedPolls == TelegramSpec => []SomebodyPolls
<1>1. TelegramInit => TypeInv /\ SomebodyPolls
  BY InitTypes DEF TelegramInit, SomebodyPolls
<1>2. TypeInv /\ SomebodyPolls /\ [TelegramNext]_telegramVars => (TypeInv /\ SomebodyPolls)'
  BY StepTypes, PollsNext
<1> QED BY <1>1, <1>2, PTL DEF TelegramSpec

-----------------------------------------------------------------------------
(* iMessage: no row is passed over.  A poll has the rows from its place    *)
(* back to the start of the connection handed over, since that start only  *)
(* moves forward (Behind).  As long as nothing overlapped, a poll is alone *)
(* and ahead of lastMessageRowId, and connect reads the last row while     *)
(* none runs (Alone), so that every row is taken for the first time.       *)

PollStates ==
  [pc : {"idle", "opening", "querying", "handling"}, next : 0..(Rows + 1), last : 0..Rows]

RowTypes ==
  /\ top \in 0..Rows
  /\ link \in {"down", "testing", "reading", "up"}
  /\ maxId \in 0..Rows
  /\ lastMessageRowId \in 0..top
  /\ poll \in [Polls -> PollStates]
  /\ base \in 0..lastMessageRowId
  /\ link = "reading" => maxId \in base..top
  /\ handed \in [1..Rows -> Nat]
  /\ overlapped \in BOOLEAN

HandedTo(h, from, r) == \A q \in from + 1..r : h[q] > 0

Behind ==
  /\ HandedTo(handed, base, lastMessageRowId)
  /\ \A p \in Polls :
       /\ poll[p].pc = "querying" => poll[p].next > 0 /\ HandedTo(handed, base, poll[p].next - 1)
       /\ poll[p].pc = "handling" =>
            /\ poll[p].next \in 1..poll[p].last /\ poll[p].last <= top
            /\ HandedTo(handed, base, poll[p].next)

Alone ==
  ~overlapped =>
    /\ \A p, q \in Running : p = q
    /\ link = "reading" => Running = {} /\ maxId >= lastMessageRowId
    /\ \A p \in Polls : poll[p].pc = "querying" => poll[p].next > lastMessageRowId
    /\ \A p \in Polls : poll[p].pc = "handling" => poll[p].next >= lastMessageRowId
    /\ \A r \in 1..Rows : handed[r] <= 1 /\ (handed[r] = 1 => r <= lastMessageRowId)

RowInv == RowTypes /\ Behind /\ Alone

-----------------------------------------------------------------------------
LEMMA IMessageConstants ==
  Rows \in Nat /\ Rows > 0 /\ RowLimit \in Nat /\ NoPoll \in PollStates
  BY IMessageAssumption DEF NoPoll, PollStates

LEMMA RowInit == IMessageInit => RowInv
<1> SUFFICES ASSUME IMessageInit PROVE RowInv
  OBVIOUS
<1>1. poll = [p \in Polls |-> NoPoll] /\ Running = {}
  BY DEF IMessageInit, Running, NoPoll
<1>2. RowTypes
  <2>1. top \in 0..Rows /\ maxId = 0 /\ lastMessageRowId = 0 /\ base = 0 /\ link = "down"
    BY IMessageConstants DEF IMessageInit
  <2>2. handed \in [1..Rows -> Nat] /\ poll \in [Polls -> PollStates]
    BY <1>1, IMessageConstants DEF IMessageInit
  <2>3. overlapped \in BOOLEAN
    BY DEF IMessageInit
  <2> QED BY <2>1, <2>2, <2>3, IMessageConstants DEF RowTypes
<1>3. Behind
  BY <1>1 DEF IMessageInit, Behind, HandedTo, NoPoll
<1>4. Alone
  BY <1>1 DEF IMessageInit, Alone, NoPoll
<1> QED BY <1>2, <1>3, <1>4 DEF RowInv

\* The steps that hand no row over: the polls keep their rows or end.
LEMMA ConnectSteps ==
  ASSUME RowInv,
         MessageArrives \/ ConnectIMessage \/ AccessRefused \/ MaxRead \/ ConnectedIMessage
           \/ ConnectedUnread \/ DisconnectIMessage
  PROVE  RowInv'
<1> USE IMessageConstants
<1>1. CASE MessageArrives
  <2>1. /\ top \in 0..Rows /\ top' = top + 1 /\ top < Rows
        /\ UNCHANGED <<link, maxId, lastMessageRowId, poll, base, handed, overlapped>>
    BY <1>1 DEF MessageArrives, imessageHistory, RowInv, RowTypes
  <2>2. RowTypes'
    BY <2>1 DEF RowInv, RowTypes
  <2>3. Behind'
    <3>1. \A p \in Polls : poll[p].last \in 0..Rows
      BY DEF RowInv, RowTypes, PollStates
    <3> QED BY <2>1, <3>1 DEF RowInv, Behind, HandedTo
  <2>4. Alone'
    BY <2>1 DEF RowInv, Alone, Running
  <2> QED BY <2>2, <2>3, <2>4 DEF RowInv
<1>2. CASE ConnectIMessage \/ AccessRefused \/ ConnectedUnread \/ DisconnectIMessage
  BY <1>2 DEF ConnectIMessage, AccessRefused, ConnectedUnread, DisconnectIMessage,
              imessageHistory, RowInv, RowTypes, Behind, Alone, HandedTo, Running
<1>3. CASE MaxRead
  <2>1. RowTypes'
    <3>1. overlapped' \in BOOLEAN
      BY <1>3, Zenon DEF MaxRead, RowInv, RowTypes
    <3> QED BY <1>3, <3>1 DEF MaxRead, RowInv, RowTypes
  <2>2. Behind'
    BY <1>3 DEF MaxRead, RowInv, Behind, HandedTo
  <2>3. Alone'
    <3>1. SUFFICES ASSUME ~overlapped' PROVE Alone'
      BY DEF Alone
    <3>2. ~overlapped /\ Running = {} /\ maxId' = top /\ Running' = Running
      BY <1>3, <3>1 DEF MaxRead, Running
    <3> QED BY <1>3, <3>2 DEF MaxRead, RowInv, RowTypes, Alone
  <2> QED BY <2>1, <2>2, <2>3 DEF RowInv
<1>4. CASE ConnectedIMessage
  <2>1. RowTypes' /\ Behind'
    BY <1>4 DEF ConnectedIMessage, RowInv, RowTypes, Behind, HandedTo
  <2>2. Alone'
    BY <1>4 DEF ConnectedIMessage, RowInv, RowTypes, Alone, Running, PollStates
  <2> QED BY <2>1, <2>2 DEF RowInv
<1> QED BY <1>1, <1>2, <1>3, <1>4

LEMMA FiresStep ==
  ASSUME RowInv, NEW p \in Polls, IntervalFires(p)
  PROVE  RowInv'
<1>1. /\ poll[p] \in PollStates /\ [poll[p] EXCEPT !.pc = "opening"] \in PollStates
      /\ poll' = [poll EXCEPT ![p] = [poll[p] EXCEPT !.pc = "opening"]]
  BY DEF RowInv, RowTypes, IntervalFires, PollStates
<1>2. poll'[p].pc = "opening" /\ \A q \in Polls : q # p => poll'[q] = poll[q]
  BY <1>1 DEF RowInv, RowTypes, PollStates
<1>3. UNCHANGED <<top, link, maxId, lastMessageRowId, base, handed>> /\ link = "up"
      /\ overlapped' = (overlapped \/ Running # {})
  BY DEF IntervalFires
<1>4. RowTypes'
  BY <1>1, <1>3 DEF RowInv, RowTypes
<1>5. Behind'
  BY <1>2, <1>3 DEF RowInv, Behind, HandedTo
<1>6. Alone'
  <2>1. SUFFICES ASSUME ~overlapped' PROVE Alone'
    BY DEF Alone
  <2>2. ~overlapped /\ Running = {} /\ Running' = {p}
    BY <2>1, <1>2, <1>3 DEF Running
  <2> QED BY <2>2, <1>2, <1>3 DEF RowInv, Alone
<1> QED BY <1>4, <1>5, <1>6 DEF RowInv

LEMMA ExecuteStep ==
  ASSUME RowInv, NEW p \in Polls, Execute(p)
  PROVE  RowInv'
<1> DEFINE new == [pc |-> "querying", next |-> lastMessageRowId + 1, last |-> 0]
<1>1. new \in PollStates /\ new.pc = "querying" /\ new.next = lastMessageRowId + 1
  BY IMessageConstants DEF RowInv, RowTypes, PollStates
<1>2. poll' = [poll EXCEPT ![p] = new] /\ poll[p].pc = "opening"
      /\ UNCHANGED <<top, link, maxId, lastMessageRowId, base, handed, overlapped>>
  BY DEF Execute, imessageHistory
<1> HIDE DEF new
<1>3. poll'[p] = new /\ (\A q \in Polls : q # p => poll'[q] = poll[q]) /\ Running' = Running
  BY <1>1, <1>2 DEF RowInv, RowTypes, Running
<1>4. RowTypes'
  BY <1>1, <1>2 DEF RowInv, RowTypes
<1>5. Behind'
  BY <1>1, <1>2, <1>3 DEF RowInv, RowTypes, Behind, HandedTo
<1>6. Alone'
  BY <1>1, <1>2, <1>3 DEF RowInv, RowTypes, Alone
<1> QED BY <1>4, <1>5, <1>6 DEF RowInv

LEMMA EndStep ==
  ASSUME RowInv, NEW p \in Polls, poll' = [poll EXCEPT ![p] = NoPoll],
         UNCHANGED <<top, link, maxId, lastMessageRowId, base, handed, overlapped>>
  PROVE  RowInv'
<1>1. poll'[p].pc = "idle" /\ (\A q \in Polls : q # p => poll'[q] = poll[q]) /\ Running' \subseteq Running
  BY DEF RowInv, RowTypes, Running, NoPoll
<1>2. RowTypes'
  BY IMessageConstants DEF RowInv, RowTypes
<1>3. Behind'
  BY <1>1 DEF RowInv, Behind, HandedTo
<1>4. Alone'
  BY <1>1 DEF RowInv, Alone
<1> QED BY <1>2, <1>3, <1>4 DEF RowInv

\* Row r is handed over by a poll that has all rows before r behind it.
LEMMA TakeStep ==
  ASSUME RowInv, NEW p \in Polls, NEW r \in 1..(Rows + 1), NEW last \in Int, last <= top,
         HandedTo(handed, base, r - 1), p \in Running,
         ~overlapped => r > lastMessageRowId,
         TakeRow(p, r, last),
         UNCHANGED <<top, link, maxId, base, overlapped>>
  PROVE  RowInv'
<1>1. CASE r > last
  BY <1>1, EndStep DEF TakeRow
<1>2. CASE r <= last
  <2> DEFINE new == [pc |-> "handling", next |-> r, last |-> last]
  <2>1. /\ poll' = [poll EXCEPT ![p] = new]
        /\ lastMessageRowId' = IF r > lastMessageRowId THEN r ELSE lastMessageRowId
        /\ handed' = [handed EXCEPT ![r] = @ + 1]
    BY <1>2 DEF TakeRow, RowInv, RowTypes
  <2>2. /\ top \in 0..Rows /\ r \in 1..top /\ r \in 1..Rows /\ last \in 1..Rows
        /\ lastMessageRowId \in 0..top /\ base \in 0..lastMessageRowId
    BY <1>2, IMessageConstants DEF RowInv, RowTypes
  <2>3. new \in PollStates /\ new.pc = "handling" /\ new.next = r /\ new.last = last
    BY <2>2 DEF PollStates
  <2> HIDE DEF new
  <2>4. poll'[p] = new /\ (\A q \in Polls : q # p => poll'[q] = poll[q]) /\ Running' = Running
    BY <2>1, <2>3 DEF RowInv, RowTypes, Running
  <2>5. /\ lastMessageRowId' \in 0..top /\ lastMessageRowId' >= lastMessageRowId
        /\ lastMessageRowId' >= r
    BY <2>1, <2>2
  <2>6. /\ handed' \in [1..Rows -> Nat] /\ handed'[r] = handed[r] + 1
        /\ \A q \in 1..Rows : q # r => handed'[q] = handed[q]
    BY <2>1, <2>2 DEF RowInv, RowTypes
  <2>7. RowTypes'
    BY <2>1, <2>2, <2>3, <2>5, <2>6 DEF RowInv, RowTypes
  <2>8. HandedTo(handed', base, r) /\ \A n \in 0..Rows : HandedTo(handed, base, n) => HandedTo(handed', base, n)
    <3>1. \A q \in 1..Rows : handed[q] \in Nat /\ handed'[q] \in Nat /\ handed'[q] >= handed[q]
      BY <2>6 DEF RowInv, RowTypes
    <3>2. handed'[r] > 0
      BY <2>2, <2>6, <3>1
    <3>3. ASSUME NEW n \in 0..Rows, HandedTo(handed, base, n) PROVE HandedTo(handed', base, n)
      <4> SUFFICES ASSUME NEW q \in base + 1..n PROVE handed'[q] > 0
        BY DEF HandedTo
      <4>1. q \in 1..Rows /\ handed[q] > 0
        BY <3>3, <2>2, IMessageConstants DEF HandedTo
      <4> QED BY <4>1, <3>1
    <3>4. HandedTo(handed', base, r)
      <4>1. HandedTo(handed', base, r - 1)
        BY <3>3, <2>2, IMessageConstants
      <4> QED BY <4>1, <3>2, <2>2 DEF HandedTo
    <3> QED BY <3>3, <3>4
  <2>9. HandedTo(handed', base, lastMessageRowId')
    BY <2>1, <2>2, <2>8 DEF RowInv, Behind, HandedTo
  <2>10. \A q \in Polls : poll'[q].pc = "querying" =>
           poll'[q].next > 0 /\ HandedTo(handed', base, poll'[q].next - 1)
    <3> SUFFICES ASSUME NEW q \in Polls, poll'[q].pc = "querying"
                 PROVE  poll'[q].next > 0 /\ HandedTo(handed', base, poll'[q].next - 1)
      OBVIOUS
    <3>1. q # p /\ poll'[q] = poll[q] /\ poll[q] \in PollStates
      BY <2>3, <2>4 DEF RowInv, RowTypes
    <3>2. poll[q].next > 0 /\ HandedTo(handed, base, poll[q].next - 1) /\ poll[q].next - 1 \in 0..Rows
      BY <3>1, IMessageConstants DEF RowInv, Behind, PollStates
    <3> QED BY <3>1, <3>2, <2>8
  <2>11. \A q \in Polls : poll'[q].pc = "handling" =>
           /\ poll'[q].next \in 1..poll'[q].last /\ poll'[q].last <= top
           /\ HandedTo(handed', base, poll'[q].next)
    <3> SUFFICES ASSUME NEW q \in Polls, poll'[q].pc = "handling"
                 PROVE  /\ poll'[q].next \in 1..poll'[q].last /\ poll'[q].last <= top
                        /\ HandedTo(handed', base, poll'[q].next)
      OBVIOUS
    <3>1. CASE q = p
      BY <3>1, <1>2, <2>2, <2>3, <2>4, <2>8
    <3>2. CASE q # p
      <4>1. poll'[q] = poll[q] /\ poll[q] \in PollStates
        BY <3>2, <2>4 DEF RowInv, RowTypes
      <4>2. poll[q].next \in 1..poll[q].last /\ poll[q].last <= top /\ HandedTo(handed, base, poll[q].next)
        BY <4>1 DEF RowInv, Behind
      <4>3. poll[q].next \in 0..Rows
        BY <4>1, <4>2, <2>2, IMessageConstants DEF PollStates
      <4> QED BY <4>1, <4>2, <4>3, <2>8
    <3> QED BY <3>1, <3>2
  <2>12. Behind'
    BY <2>9, <2>10, <2>11 DEF Behind
  <2>13. Alone'
    <3> SUFFICES ASSUME ~overlapped PROVE Alone'
      BY DEF Alone
    <3>1. r > lastMessageRowId /\ lastMessageRowId' = r /\ link # "reading"
      BY <2>1, <2>2 DEF RowInv, Alone
    <3>2. \A q \in Polls : q # p => poll'[q].pc = "idle"
      BY <2>4 DEF RowInv, Alone, Running
    <3>3. \A q \in 1..Rows : handed[q] <= 1 /\ (handed[q] = 1 => q <= lastMessageRowId)
      BY DEF RowInv, Alone
    <3>4. handed[r] = 0
      BY <3>1, <3>3, <2>2 DEF RowInv, RowTypes
    <3>5. \A q \in 1..Rows : handed'[q] <= 1 /\ (handed'[q] = 1 => q <= r)
      BY <3>1, <3>3, <3>4, <2>2, <2>6
    <3> QED BY <3>1, <3>2, <3>5, <2>3, <2>4 DEF RowInv, Alone, Running
  <2> QED BY <2>7, <2>12, <2>13 DEF RowInv
<1> QED BY <1>1, <1>2, IMessageConstants DEF RowInv, RowTypes

LEMMA RowsReadStep ==
  ASSUME RowInv, NEW p \in Polls, RowsRead(p)
  PROVE  RowInv'
<1> DEFINE first == poll[p].next
           end == first + RowLimit - 1
           last == IF end < top THEN end ELSE top
<1>1. poll[p].pc = "querying" /\ poll[p] \in PollStates /\ top \in 0..Rows /\ p \in Running
  BY DEF RowsRead, RowInv, RowTypes, Running
<1>2. first \in 1..(Rows + 1) /\ HandedTo(handed, base, first - 1) /\ (~overlapped => first > lastMessageRowId)
  BY <1>1, IMessageConstants DEF RowInv, Behind, Alone, PollStates
<1>3. last \in Int /\ last <= top
  <2> HIDE DEF first
  <2> QED BY <1>1, <1>2, IMessageConstants
<1>4. TakeRow(p, first, last) /\ UNCHANGED <<top, link, maxId, base, overlapped>>
  BY DEF RowsRead
<1> HIDE DEF first, last
<1> QED BY <1>1, <1>2, <1>3, <1>4, TakeStep

LEMMA SettlesStep ==
  ASSUME RowInv, NEW p \in Polls, HandlerSettles(p)
  PROVE  RowInv'
<1>1. poll[p].pc = "handling" /\ poll[p] \in PollStates /\ top \in 0..Rows /\ p \in Running
  BY DEF HandlerSettles, RowInv, RowTypes, Running
<1> DEFINE r == poll[p].next + 1
           last == poll[p].last
<1>2. /\ poll[p].next \in 1..last /\ last <= top /\ last \in Int /\ HandedTo(handed, base, poll[p].next)
      /\ ~overlapped => poll[p].next >= lastMessageRowId
  BY <1>1 DEF RowInv, Behind, Alone, PollStates
<1>3. r \in 1..(Rows + 1) /\ r - 1 = poll[p].next /\ (~overlapped => r > lastMessageRowId)
  BY <1>1, <1>2, IMessageConstants DEF RowInv, RowTypes
<1>4. TakeRow(p, r, last) /\ UNCHANGED <<top, link, maxId, base, overlapped>>
  BY DEF HandlerSettles
<1>5. HandedTo(handed, base, r - 1)
  BY <1>2, <1>3
<1> HIDE DEF r, last
<1> QED BY <1>1, <1>2, <1>3, <1>4, <1>5, TakeStep

LEMMA RowStep == RowInv /\ [IMessageNext]_imessageVars => RowInv'
<1> SUFFICES ASSUME RowInv, [IMessageNext]_imessageVars PROVE RowInv'
  OBVIOUS
<1>1. CASE UNCHANGED imessageVars
  BY <1>1 DEF imessageVars, RowInv, RowTypes, Behind, Alone, HandedTo, Running
<1>2. ASSUME NEW p \in Polls, PollFails(p) PROVE RowInv'
  BY <1>2, EndStep DEF PollFails, imessageHistory
<1> QED BY <1>1, <1>2, ConnectSteps, FiresStep, ExecuteStep, RowsReadStep, SettlesStep
        DEF IMessageNext

\* No row between the start of the connection and lastMessageRowId is passed
\* over, and none reaches the handler twice unless polls, or a poll and a
\* connect, ran at the same time: for any database, batches and polls.
THEOREM NoRowPassedOver == IMessageSpec => []RowsHanded
<1>1. RowInv => RowsHanded
  BY DEF RowInv, RowTypes, Behind, Alone, HandedTo, RowsHanded
<1> QED BY <1>1, RowInit, RowStep, PTL DEF IMessageSpec

-----------------------------------------------------------------------------
(* The proxy: a revoked key works no longer than a cache entry lives after *)
(* the last lookup that could see it active.  The argument follows the row *)
(* that validateApiKey read.  While it is on its way the key may be        *)
(* revoked, but it was read before that (Carried); so the entry made from  *)
(* it ends a bounded time after the revocation (Cached), and whoever is    *)
(* let through by an entry or by the row was so before that end (Passed).  *)

Revocations == [pc : {"new", "update", "clear", "true", "false", "thrown"},
                key : Keys \cup {NoKey}]

KeyTypes ==
  /\ now \in Nat
  /\ DOMAIN revokedAt \subseteq Keys
  /\ \A k \in DOMAIN revokedAt : revokedAt[k] = Never \/ revokedAt[k] \in 0..now
  /\ cache \in [Keys -> Nat]
  /\ revoker \in [Revokers -> Revocations]
  /\ pc \in [Requests -> Pcs]
  /\ key \in [Requests -> Keys \cup {NoKey}]
  /\ readAt \in [Requests -> Nat]
  /\ validAt \in [Requests -> Int]

\* A key that is to be revoked has a row.
Revoking == \A v \in Revokers : revoker[v].pc = "update" => revoker[v].key \in DOMAIN revokedAt

\* The time t of something known of key k lies less than d after now and, when
\* k is revoked, less than d after the revocation.
Within(k, t, d) ==
  /\ k \in DOMAIN revokedAt
  /\ t < now + d
  /\ revokedAt[k] # Never => t < revokedAt[k] + d

\* The row of a validation that goes on was read before the key was revoked,
\* and not long ago.
Carried ==
  \A r \in Requests :
    /\ pc[r] = "lookup" => key[r] \in Keys
    /\ pc[r] = "found" => /\ Within(key[r], readAt[r], 1)
                          /\ now <= readAt[r] + MaxLookup

Cached ==
  \A k \in Keys : cache[k] > 0 => Within(k, cache[k], MaxLookup + CACHE_TTL_MS + 1)

Passed ==
  \A r \in Requests :
    /\ pc[r] = "new" => validAt[r] = Never
    /\ validAt[r] # Never => Within(key[r], validAt[r], MaxLookup + CACHE_TTL_MS)

KeyInv == KeyTypes /\ Revoking /\ Carried /\ Cached /\ Passed

-----------------------------------------------------------------------------
LEMMA Constants ==
  MaxLookup \in Nat /\ MaxTime \in Nat /\ CACHE_TTL_MS \in Nat /\ CACHE_TTL_MS > 0
  /\ NoKey \notin Keys
  BY LlmProxyAssumption DEF LlmProxyAssumption

LEMMA InitKeys == Init => KeyInv
<1> SUFFICES ASSUME Init PROVE KeyInv
  OBVIOUS
<1>1. \A k : k \notin DOMAIN revokedAt
  BY DEF Init
<1>2. revoker \in [Revokers -> Revocations] /\ \A v \in Revokers : revoker[v].pc = "new"
  BY DEF Init, Revocations
<1>3. KeyTypes
  BY <1>1, <1>2 DEF Init, KeyTypes, Pcs, Never
<1> QED BY <1>1, <1>2, <1>3 DEF Init, KeyInv, Revoking, Carried, Cached, Passed

\* What the steps leave alone that touch no key and that only move a call on.
LEMMA OnlyMoves ==
  ASSUME KeyInv, NEW r \in Requests, NEW where \in Pcs \ {"new", "lookup", "found"},
         goesOn(r, where), UNCHANGED <<now, revokedAt, cache, revoker, key, readAt, validAt>>
  PROVE  KeyInv'
<1>1. pc' \in [Requests -> Pcs] /\ pc'[r] = where /\ \A q \in Requests \ {r} : pc'[q] = pc[q]
  BY DEF goesOn, KeyInv, KeyTypes
<1>2. KeyTypes'
  BY <1>1 DEF KeyInv, KeyTypes
<1>3. Carried'
  BY <1>1 DEF KeyInv, Carried, Within
<1>4. Passed'
  BY <1>1 DEF KeyInv, Passed, Within
<1> QED BY <1>2, <1>3, <1>4 DEF KeyInv, Revoking, Cached, Within

LEMMA Refused ==
  ASSUME KeyInv, NEW r \in Requests, refuses(r), UNCHANGED <<now, revokedAt, cache, revoker>>
  PROVE  KeyInv'
<1>1. /\ pc' \in [Requests -> Pcs] /\ key' \in [Requests -> Keys \cup {NoKey}]
      /\ readAt' \in [Requests -> Nat] /\ validAt' \in [Requests -> Int]
      /\ pc'[r] = "refused" /\ validAt'[r] = Never
      /\ \A q \in Requests \ {r} : /\ pc'[q] = pc[q] /\ key'[q] = key[q]
                                   /\ readAt'[q] = readAt[q] /\ validAt'[q] = validAt[q]
  BY DEF refuses, goesOn, KeyInv, KeyTypes, Pcs, Never
<1>2. KeyTypes'
  BY <1>1 DEF KeyInv, KeyTypes
<1>3. Carried'
  BY <1>1 DEF KeyInv, Carried, Within
<1>4. Passed'
  BY <1>1 DEF KeyInv, Passed, Within
<1> QED BY <1>2, <1>3, <1>4 DEF KeyInv, Revoking, Cached, Within

\* Time that passes, keys that appear and revocations keep what is within.
LEMMA WithinKept ==
  ASSUME KeyTypes, now' \in Nat, now' >= now, DOMAIN revokedAt \subseteq DOMAIN revokedAt',
         \A k \in DOMAIN revokedAt : revokedAt'[k] \in {revokedAt[k], now},
         NEW k, NEW t \in Int, NEW d \in Nat, Within(k, t, d)
  PROVE  Within(k, t, d)'
<1>1. k \in DOMAIN revokedAt /\ t < now + d /\ now \in Nat
  BY DEF KeyTypes, Within
<1>2. revokedAt[k] = Never \/ revokedAt[k] \in 0..now
  BY <1>1 DEF KeyTypes
<1>3. k \in DOMAIN revokedAt' /\ t < now' + d
  <2>1. k \in DOMAIN revokedAt'
    BY <1>1
  <2>2. ASSUME NEW x \in Nat, NEW y \in Nat, y >= x, t < x + d PROVE t < y + d
    BY <2>2
  <2> QED BY <1>1, <2>1, <2>2
<1>4. ASSUME revokedAt'[k] # Never PROVE t < revokedAt'[k] + d
  <2>1. CASE revokedAt'[k] = now
    BY <1>1, <2>1
  <2>2. CASE revokedAt'[k] = revokedAt[k]
    BY <1>4, <2>2 DEF Within
  <2> QED BY <1>1, <2>1, <2>2
<1> QED BY <1>3, <1>4 DEF Within

\* A step that changes the keys' rows or the time, and no call and no entry
\* unless it empties the cache.
LEMMA KeysChange ==
  ASSUME KeyInv, UNCHANGED <<pc, key, readAt, validAt>>,
         cache' = cache \/ cache' = [k \in Keys |-> 0],
         now' \in Nat, now' >= now, DOMAIN revokedAt \subseteq DOMAIN revokedAt',
         \A k \in DOMAIN revokedAt : revokedAt'[k] \in {revokedAt[k], now},
         \A r \in Requests : pc[r] = "found" => now' <= readAt[r] + MaxLookup
  PROVE  Carried' /\ Cached' /\ Passed'
<1>1. MaxLookup + CACHE_TTL_MS + 1 \in Nat /\ MaxLookup + CACHE_TTL_MS \in Nat /\ 1 \in Nat
  BY Constants
<1>2. KeyTypes
  BY DEF KeyInv
<1>3. Carried'
  <2> SUFFICES ASSUME NEW r \in Requests
               PROVE  /\ pc[r] = "lookup" => key[r] \in Keys
                      /\ pc[r] = "found" => /\ Within(key[r], readAt[r], 1)'
                                            /\ now' <= readAt[r] + MaxLookup
    BY DEF Carried
  <2>1. readAt[r] \in Int
    BY <1>2 DEF KeyTypes
  <2>2. ASSUME pc[r] = "found" PROVE Within(key[r], readAt[r], 1)'
    <3>1. Within(key[r], readAt[r], 1)
      BY <2>2 DEF KeyInv, Carried
    <3> QED BY <1>1, <1>2, <2>1, <3>1 DEF Within, KeyTypes, Never
  <2> QED BY <2>2 DEF KeyInv, Carried
<1>4. Cached'
  <2> SUFFICES ASSUME NEW k \in Keys, cache'[k] > 0
               PROVE  Within(k, cache[k], MaxLookup + CACHE_TTL_MS + 1)' /\ cache'[k] = cache[k]
    BY DEF Cached, Within
  <2>1. cache' = cache
    OBVIOUS
  <2>2. Within(k, cache[k], MaxLookup + CACHE_TTL_MS + 1) /\ cache[k] \in Int
    BY <2>1, <1>2 DEF KeyInv, Cached, KeyTypes
  <2> QED BY <1>1, <1>2, <2>1, <2>2, WithinKept DEF Within, KeyTypes, Never
<1>5. Passed'
  <2> SUFFICES ASSUME NEW r \in Requests, validAt[r] # Never
               PROVE  Within(key[r], validAt[r], MaxLookup + CACHE_TTL_MS)'
    BY DEF KeyInv, Passed
  <2>1. Within(key[r], validAt[r], MaxLookup + CACHE_TTL_MS) /\ validAt[r] \in Int
    BY <1>2 DEF KeyInv, Passed, KeyTypes
  <2> QED BY <1>1, <1>2, <2>1 DEF Within, KeyTypes, Never
<1> QED BY <1>3, <1>4, <1>5

LEMMA CreateKeeps == ASSUME KeyInv, NEW k \in Keys, CreateApiKey(k) PROVE KeyInv'
<1>1. /\ UNCHANGED <<now, cache, revoker, pc, key, readAt, validAt>>
      /\ DOMAIN revokedAt \subseteq DOMAIN revokedAt' /\ DOMAIN revokedAt' \subseteq Keys
      /\ \A j \in DOMAIN revokedAt : revokedAt'[j] = revokedAt[j]
      /\ \A j \in DOMAIN revokedAt' \ DOMAIN revokedAt : revokedAt'[j] = Never
  BY DEF CreateApiKey, callVars, validation, KeyInv, KeyTypes
<1>2. KeyTypes'
  BY <1>1 DEF KeyInv, KeyTypes
<1>3. Carried' /\ Cached' /\ Passed'
  <2>1. \A r \in Requests : pc[r] = "found" => now' <= readAt[r] + MaxLookup
    BY <1>1 DEF KeyInv, Carried
  <2>2. now' \in Nat /\ now' >= now
    BY <1>1 DEF KeyInv, KeyTypes
  <2> QED BY <1>1, <2>1, <2>2, KeysChange
<1> QED BY <1>1, <1>2, <1>3 DEF KeyInv, Revoking

LEMMA RevokeKeeps ==
  ASSUME KeyInv, NEW v \in Revokers,
         \/ \E k \in Keys : FindRevoked(v, k) \/ FindNone(v, k)
         \/ UpdateRevoked(v)
         \/ ClearCache(v)
  PROVE  KeyInv'
<1>1. /\ UNCHANGED <<now, pc, key, readAt, validAt>> /\ DOMAIN revokedAt' = DOMAIN revokedAt
      /\ cache' = cache \/ cache' = [k \in Keys |-> 0]
  BY DEF FindRevoked, FindNone, UpdateRevoked, ClearCache, callVars, validation
<1>2. \A k \in DOMAIN revokedAt : revokedAt'[k] \in {revokedAt[k], now}
  BY DEF FindRevoked, FindNone, UpdateRevoked, ClearCache
<1>3. /\ revoker' \in [Revokers -> Revocations]
      /\ \A w \in Revokers : revoker'[w].pc = "update" => revoker'[w].key \in DOMAIN revokedAt
  <2>1. revoker \in [Revokers -> Revocations]
    BY DEF KeyInv, KeyTypes
  <2>2. PICK new \in Revocations : /\ revoker' = [revoker EXCEPT ![v] = new]
                                   /\ new.pc = "update" => new.key \in DOMAIN revokedAt
    <3>1. ASSUME NEW k \in Keys, FindRevoked(v, k)
          PROVE  \E new \in Revocations : /\ revoker' = [revoker EXCEPT ![v] = new]
                                          /\ new.pc = "update" => new.key \in DOMAIN revokedAt
      <4>1. [pc |-> "update", key |-> k] \in Revocations
        BY DEF Revocations
      <4> QED BY <3>1, <4>1 DEF FindRevoked, Active
    <3>2. ASSUME NEW end \in {"clear", "true", "false", "thrown"},
                 revoker' = [revoker EXCEPT ![v].pc = end]
          PROVE  \E new \in Revocations : /\ revoker' = [revoker EXCEPT ![v] = new]
                                          /\ new.pc = "update" => new.key \in DOMAIN revokedAt
      <4>1. [revoker[v] EXCEPT !.pc = end] \in Revocations /\ [revoker[v] EXCEPT !.pc = end].pc = end
        BY <2>1 DEF Revocations
      <4>2. revoker' = [revoker EXCEPT ![v] = [revoker[v] EXCEPT !.pc = end]]
        BY <3>2
      <4> QED BY <4>1, <4>2
    <3> QED BY <3>1, <3>2 DEF FindNone, UpdateRevoked, ClearCache
  <2> QED BY <2>1, <2>2 DEF KeyInv, Revoking
<1>4. KeyTypes'
  BY <1>1, <1>2, <1>3 DEF KeyInv, KeyTypes
<1>5. Carried' /\ Cached' /\ Passed'
  <2>1. \A r \in Requests : pc[r] = "found" => now' <= readAt[r] + MaxLookup
    BY <1>1 DEF KeyInv, Carried
  <2>2. now' \in Nat /\ now' >= now
    BY <1>1 DEF KeyInv, KeyTypes
  <2> QED BY <1>1, <1>2, <2>1, <2>2, KeysChange
<1> QED BY <1>1, <1>3, <1>4, <1>5 DEF KeyInv, Revoking

LEMMA TickKeeps == ASSUME KeyInv, Tick PROVE KeyInv'
<1>1. /\ UNCHANGED <<revokedAt, cache, revoker, pc, key, readAt, validAt>>
      /\ now \in Nat /\ now' = now + 1
  BY DEF Tick, keyVars, callVars, validation, KeyInv, KeyTypes
<1>2. KeyTypes'
  BY <1>1 DEF KeyInv, KeyTypes
<1>3. \A r \in Requests : pc[r] = "found" => now' <= readAt[r] + MaxLookup
  BY <1>1, Constants DEF Tick, KeyInv, KeyTypes
<1>4. Carried' /\ Cached' /\ Passed'
  BY <1>1, <1>3, KeysChange
<1> QED BY <1>1, <1>2, <1>4 DEF KeyInv, Revoking

-----------------------------------------------------------------------------
LEMMA ReceiveKeeps == ASSUME KeyInv, NEW r \in Requests, NEW k \in Keys, Receive(r, k) PROVE KeyInv'
<1>1. /\ UNCHANGED <<now, revokedAt, cache, revoker, readAt>>
      /\ pc[r] = "new"
      /\ key' \in [Requests -> Keys \cup {NoKey}] /\ key'[r] = k
      /\ \A q \in Requests \ {r} : key'[q] = key[q]
  BY DEF Receive, others, keyVars, KeyInv, KeyTypes
<1>2. CASE cache[k] > now
  <2>1. /\ pc' \in [Requests -> Pcs] /\ pc'[r] = "body"
        /\ validAt' \in [Requests -> Int] /\ validAt'[r] = now
        /\ \A q \in Requests \ {r} : pc'[q] = pc[q] /\ validAt'[q] = validAt[q]
    BY <1>2 DEF Receive, passes, goesOn, KeyInv, KeyTypes, Pcs
  <2>2. Within(k, now, MaxLookup + CACHE_TTL_MS)
    <3>1. Within(k, cache[k], MaxLookup + CACHE_TTL_MS + 1)
      BY <1>2 DEF KeyInv, KeyTypes, Cached
    <3> QED BY <1>2, <3>1, Constants DEF Within, KeyInv, KeyTypes, Never
  <2>3. KeyTypes'
    BY <1>1, <2>1 DEF KeyInv, KeyTypes
  <2>4. Carried'
    BY <1>1, <2>1 DEF KeyInv, Carried, Within
  <2>5. Passed'
    BY <1>1, <2>1, <2>2 DEF KeyInv, Passed, Within
  <2> QED BY <1>1, <2>3, <2>4, <2>5 DEF KeyInv, Revoking, Cached, Within
<1>3. CASE ~(cache[k] > now)
  <2>1. /\ pc' \in [Requests -> Pcs] /\ pc'[r] = "lookup" /\ validAt' = validAt
        /\ \A q \in Requests \ {r} : pc'[q] = pc[q]
    BY <1>3 DEF Receive, goesOn, KeyInv, KeyTypes, Pcs
  <2>2. validAt[r] = Never
    BY <1>1 DEF KeyInv, Passed
  <2>3. KeyTypes'
    BY <1>1, <2>1 DEF KeyInv, KeyTypes
  <2>4. Carried'
    BY <1>1, <2>1 DEF KeyInv, Carried, Within
  <2>5. Passed'
    BY <1>1, <2>1, <2>2 DEF KeyInv, Passed, Within
  <2> QED BY <1>1, <2>3, <2>4, <2>5 DEF KeyInv, Revoking, Cached, Within
<1> QED BY <1>2, <1>3

LEMMA LookUpKeeps == ASSUME KeyInv, NEW r \in Requests, LookUp(r) PROVE KeyInv'
<1>1. UNCHANGED <<now, revokedAt, cache, revoker>> /\ pc[r] = "lookup"
  BY DEF LookUp, others, keyVars
<1>2. CASE refuses(r)
  BY <1>1, <1>2, Refused
<1>3. CASE Active(key[r]) /\ goesOn(r, "found") /\ readAt' = [readAt EXCEPT ![r] = now]
           /\ UNCHANGED <<key, validAt, tokens>>
  <2>1. /\ pc' \in [Requests -> Pcs] /\ pc'[r] = "found"
        /\ readAt' \in [Requests -> Nat] /\ readAt'[r] = now
        /\ \A q \in Requests \ {r} : pc'[q] = pc[q] /\ readAt'[q] = readAt[q]
    BY <1>3 DEF goesOn, KeyInv, KeyTypes, Pcs
  <2>2. Within(key[r], now, 1) /\ now <= now + MaxLookup
    BY <1>3, Constants DEF Active, Within, KeyInv, KeyTypes
  <2>3. KeyTypes'
    BY <1>1, <1>3, <2>1 DEF KeyInv, KeyTypes
  <2>4. Carried'
    BY <1>1, <1>3, <2>1, <2>2 DEF KeyInv, Carried, Within
  <2>5. Passed'
    BY <1>1, <1>3, <2>1 DEF KeyInv, Passed, Within
  <2> QED BY <1>1, <1>3, <2>3, <2>4, <2>5 DEF KeyInv, Revoking, Cached, Within
<1> QED BY <1>2, <1>3 DEF LookUp

LEMMA CacheKeeps == ASSUME KeyInv, NEW r \in Requests, CacheCustomer(r) PROVE KeyInv'
<1> DEFINE k == key[r]
<1>1. UNCHANGED <<now, revokedAt, revoker, key>> /\ pc[r] = "found" /\ now \in Nat
  BY DEF CacheCustomer, others, keyVars, KeyInv, KeyTypes
<1>2. Within(k, readAt[r], 1) /\ now <= readAt[r] + MaxLookup /\ k \in Keys
  BY <1>1 DEF KeyInv, Carried, Within, KeyTypes
<1>3. /\ pc' \in [Requests -> Pcs] /\ pc'[r] = "body"
      /\ validAt' \in [Requests -> Int] /\ validAt'[r] = now
      /\ readAt' \in [Requests -> Nat]
      /\ \A q \in Requests \ {r} : pc'[q] = pc[q] /\ validAt'[q] = validAt[q] /\ readAt'[q] = readAt[q]
  BY DEF CacheCustomer, passes, goesOn, KeyInv, KeyTypes, Pcs
<1>4. /\ cache' \in [Keys -> Nat] /\ cache'[k] = now + CACHE_TTL_MS
      /\ \A j \in Keys \ {k} : cache'[j] = cache[j]
  BY <1>1, <1>2, Constants DEF CacheCustomer, KeyInv, KeyTypes
<1>5. /\ Within(k, now + CACHE_TTL_MS, MaxLookup + CACHE_TTL_MS + 1)
      /\ Within(k, now, MaxLookup + CACHE_TTL_MS)
  BY <1>1, <1>2, Constants DEF Within, KeyInv, KeyTypes, Never
<1>6. KeyTypes'
  BY <1>1, <1>3, <1>4 DEF KeyInv, KeyTypes
<1>7. Carried'
  BY <1>1, <1>3 DEF KeyInv, Carried, Within
<1>8. Cached'
  BY <1>1, <1>4, <1>5 DEF KeyInv, Cached, Within
<1>9. Passed'
  BY <1>1, <1>3, <1>5 DEF KeyInv, Passed, Within
<1> QED BY <1>1, <1>6, <1>7, <1>8, <1>9 DEF KeyInv, Revoking

\* The steps after the validation touch neither keys nor cache.
LEMMA HandlingKeeps ==
  ASSUME KeyInv, NEW r \in Requests, NEW whole \in BOOLEAN,
         \/ Admit(r) \/ OverLimit(r) \/ BadBody(r) \/ UpstreamFails(r) \/ UpstreamAnswers(r)
         \/ StartEvent(r, whole) \/ DeltaEvent(r, whole)
         \/ StreamEnds(r) \/ TextAnswered(r) \/ TextWithoutUsage(r) \/ LogUsage(r)
         \/ ClientLeaves(r)
  PROVE  KeyInv'
<1>1. CASE OverLimit(r) \/ BadBody(r) \/ UpstreamFails(r)
  <2>1. refuses(r) /\ UNCHANGED <<now, revokedAt, cache, revoker>>
    BY <1>1 DEF OverLimit, BadBody, UpstreamFails, others, keyVars
  <2> QED BY <2>1, Refused
<1>2. CASE \/ Admit(r) \/ UpstreamAnswers(r) \/ StreamEnds(r) \/ TextAnswered(r)
           \/ TextWithoutUsage(r) \/ LogUsage(r)
  <2>1. UNCHANGED <<now, revokedAt, cache, revoker, key, readAt, validAt>>
    BY <1>2 DEF Admit, UpstreamAnswers, StreamEnds, TextAnswered, TextWithoutUsage, LogUsage,
                counts, others, keyVars, validation
  <2>2. \E where \in {"fetch", "stream", "text", "log", "end"} : goesOn(r, where)
    BY <1>2 DEF Admit, UpstreamAnswers, StreamEnds, TextAnswered, TextWithoutUsage, LogUsage
  <2> QED BY <2>1, <2>2, OnlyMoves DEF Pcs
<1>3. CASE StartEvent(r, whole) \/ DeltaEvent(r, whole) \/ ClientLeaves(r)
  <2>1. UNCHANGED <<now, revokedAt, cache, revoker, pc, key, readAt, validAt>>
    BY <1>3 DEF StartEvent, DeltaEvent, ClientLeaves, counts, others, keyVars, validation
  <2> QED BY <2>1 DEF KeyInv, KeyTypes, Revoking, Carried, Cached, Passed, Within
<1> QED BY <1>1, <1>2, <1>3

LEMMA StepKeeps == ASSUME KeyInv, [Next]_vars PROVE KeyInv'
<1>1. ASSUME NEW r \in Requests, ReceiveWithoutKey(r) PROVE KeyInv'
  <2>1. refuses(r) /\ UNCHANGED <<now, revokedAt, cache, revoker>>
    BY <1>1 DEF ReceiveWithoutKey, others, keyVars
  <2> QED BY <2>1, Refused
<1>2. CASE UNCHANGED vars
  BY <1>2 DEF vars, KeyInv, KeyTypes, Revoking, Carried, Cached, Passed, Within
<1> QED BY <1>1, <1>2, CreateKeeps, RevokeKeeps, TickKeeps, ReceiveKeeps, LookUpKeeps,
           CacheKeeps, HandlingKeeps DEF Next

(* The time from which a revoked key lets nobody through (api-keys.ts:     *)
(* 41-76, 131-136): whatever validations are under way at the revocation   *)
(* and however many calls use the key, it is the longest life of an entry  *)
(* after the slowest answer of the database.                               *)
THEOREM RevocationTakesEffect == Spec => []RevocationLapses
<1>1. Init => KeyInv
  BY InitKeys
<1>2. KeyInv /\ [Next]_vars => KeyInv'
  BY StepKeeps
<1>3. KeyInv => RevocationLapses
  <2> SUFFICES ASSUME KeyInv, NEW r \in Requests, validAt[r] # Never, ~Active(key[r])
               PROVE  validAt[r] < revokedAt[key[r]] + MaxLookup + CACHE_TTL_MS
    BY DEF RevocationLapses
  <2>1. /\ key[r] \in DOMAIN revokedAt /\ revokedAt[key[r]] # Never
        /\ validAt[r] < revokedAt[key[r]] + (MaxLookup + CACHE_TTL_MS)
    BY DEF KeyInv, Passed, Within, Active
  <2>2. revokedAt[key[r]] \in Int
    BY <2>1 DEF KeyInv, KeyTypes
  <2> QED BY <2>1, <2>2, Constants
<1> QED BY <1>1, <1>2, <1>3, PTL DEF Spec

-----------------------------------------------------------------------------
(* Sums over finite sets.  MapThenSumSet chooses the elements one by one:  *)
(* the function it recurs on exists, is the only one, and counts.          *)

\* The element the fold chooses, and the function g it recurs on.
Pick(s) == CHOOSE x \in s : TRUE
Sums(g, f, S) ==
  g = [s \in SUBSET S |-> IF s = {} THEN 0 ELSE f[Pick(s)] + g[s \ {Pick(s)}]]

\* Induction over the subsets of S: of some, one has none that lacks one of
\* its elements.
LEMMA LeastSubset ==
  ASSUME NEW S, IsFiniteSet(S), NEW B \in SUBSET SUBSET S, B # {}
  PROVE  \E s \in B : \A x \in s : s \ {x} \notin B
<1>1. IsWellFoundedOn(StrictSubsetOrdering(S), SUBSET S)
  BY FS_StrictSubsetOrderingWellFounded, FS_FiniteSubsetsOfFinite
<1>2. PICK s \in B : \A t \in B : <<t, s>> \notin StrictSubsetOrdering(S)
  BY <1>1, WFMin, Zenon
<1>3. ASSUME NEW x \in s, s \ {x} \in B PROVE FALSE
  BY <1>2, <1>3 DEF StrictSubsetOrdering
<1> QED BY <1>3

\* All that the elements of s stand for.
Whole(A, s) == UNION {A[x] : x \in s}

\* f counts what each element of S stands for, and no two stand for the same.
Counts(A, f, S) ==
  /\ IsFiniteSet(S)
  /\ \A x \in S : IsFiniteSet(A[x]) /\ f[x] = Cardinality(A[x])
  /\ \A x, y \in S : x # y => A[x] \cap A[y] = {}

LEMMA PickIn == ASSUME NEW s, s # {} PROVE Pick(s) \in s
BY DEF Pick

LEMMA WholeAdds ==
  ASSUME NEW S, NEW A, NEW f, Counts(A, f, S), NEW s \in SUBSET S, NEW p \in s,
         IsFiniteSet(Whole(A, s \ {p}))
  PROVE  /\ IsFiniteSet(Whole(A, s))
         /\ Cardinality(Whole(A, s)) = f[p] + Cardinality(Whole(A, s \ {p}))
<1> DEFINE W == Whole(A, s \ {p})
<1>1. Whole(A, s) = A[p] \cup W
  BY DEF Whole
<1>2. A[p] \cap W = {}
  BY DEF Whole, Counts
<1>3. IsFiniteSet(A[p]) /\ f[p] = Cardinality(A[p])
  BY DEF Counts
<1>4. Cardinality(A[p]) \in Nat /\ Cardinality(W) \in Nat
  BY <1>3, FS_CardinalityType
<1>5. Cardinality(A[p] \cap W) = 0
  BY <1>2, FS_EmptySet
<1> HIDE DEF W
<1>6. /\ IsFiniteSet(A[p] \cup W)
      /\ Cardinality(A[p] \cup W) = Cardinality(A[p]) + Cardinality(W) - Cardinality(A[p] \cap W)
  BY <1>3, FS_Union DEF W
<1> QED BY <1>1, <1>3, <1>4, <1>5, <1>6 DEF W

LEMMA WholeFinite ==
  ASSUME NEW S, NEW A, NEW f, Counts(A, f, S), NEW s \in SUBSET S
  PROVE  IsFiniteSet(Whole(A, s))
<1> DEFINE B == {t \in SUBSET S : ~ IsFiniteSet(Whole(A, t))}
<1> SUFFICES ASSUME B # {} PROVE FALSE
  OBVIOUS
<1>1. PICK t \in B : \A x \in t : t \ {x} \notin B
  BY LeastSubset, IsFiniteSet(S) DEF Counts
<1>2. CASE t = {}
  <2>1. Whole(A, t) = {}
    BY <1>2 DEF Whole
  <2> QED BY <2>1, FS_EmptySet
<1>3. CASE t # {}
  <2>1. PICK p \in t : TRUE
    BY <1>3
  <2>2. IsFiniteSet(Whole(A, t \ {p}))
    BY <1>1
  <2> QED BY <2>2, WholeAdds
<1> QED BY <1>2, <1>3

LEMMA SumExists ==
  ASSUME NEW S, NEW A, NEW f, Counts(A, f, S)
  PROVE  Sums([s \in SUBSET S |-> Cardinality(Whole(A, s))], f, S)
<1> DEFINE h == [s \in SUBSET S |-> Cardinality(Whole(A, s))]
<1>1. ASSUME NEW s \in SUBSET S
      PROVE  h[s] = IF s = {} THEN 0 ELSE f[Pick(s)] + h[s \ {Pick(s)}]
  <2>1. CASE s = {}
    <3>1. Whole(A, s) = {}
      BY <2>1 DEF Whole
    <3> QED BY <2>1, <3>1, FS_EmptySet
  <2>2. CASE s # {}
    <3>1. Pick(s) \in s
      BY <2>2, PickIn
    <3>2. IsFiniteSet(Whole(A, s \ {Pick(s)}))
      BY WholeFinite
    <3> QED BY <2>2, <3>1, <3>2, WholeAdds
  <2> QED BY <2>1, <2>2
<1>2. h = [s \in SUBSET S |-> IF s = {} THEN 0 ELSE f[Pick(s)] + h[s \ {Pick(s)}]]
  <2> HIDE DEF h
  <2>1. h = [s \in SUBSET S |-> h[s]]
    BY DEF h
  <2> QED BY <1>1, <2>1
<1> QED BY <1>2 DEF Sums

LEMMA SumUnique ==
  ASSUME NEW S, IsFiniteSet(S), NEW f, NEW g, NEW h, Sums(g, f, S), Sums(h, f, S)
  PROVE  g[S] = h[S]
<1> DEFINE B == {t \in SUBSET S : g[t] # h[t]}
<1> SUFFICES ASSUME B # {} PROVE FALSE
  OBVIOUS
<1>1. PICK t \in B : \A x \in t : t \ {x} \notin B
  BY LeastSubset
<1>2. /\ g[t] = IF t = {} THEN 0 ELSE f[Pick(t)] + g[t \ {Pick(t)}]
      /\ h[t] = IF t = {} THEN 0 ELSE f[Pick(t)] + h[t \ {Pick(t)}]
  BY DEF Sums
<1>3. t # {}
  BY <1>2
<1>4. g[t \ {Pick(t)}] = h[t \ {Pick(t)}]
  BY <1>1, <1>3, PickIn
<1> QED BY <1>2, <1>4

LEMMA SumIsCount ==
  ASSUME NEW S, NEW A, NEW f, Counts(A, f, S), NEW g, Sums(g, f, S)
  PROVE  g[S] = Cardinality(Whole(A, S))
<1> DEFINE h == [s \in SUBSET S |-> Cardinality(Whole(A, s))]
<1>1. Sums(h, f, S)
  BY SumExists
<1>2. h[S] = Cardinality(Whole(A, S))
  OBVIOUS
<1> HIDE DEF h
<1> QED BY <1>1, <1>2, SumUnique DEF Counts

\* One token for each that x counts, and all that the elements of S count for.
Units(x, n) == {x} \X (1..n)
UnitsOf(n, S) == [x \in S |-> Units(x, n[x])]
Tally(n, S) == Whole(UnitsOf(n, S), S)

LEMMA UnitsCount ==
  ASSUME NEW x, NEW n \in Nat
  PROVE  IsFiniteSet(Units(x, n)) /\ Cardinality(Units(x, n)) = n
<1>1. IsFiniteSet({x}) /\ Cardinality({x}) = 1
  BY FS_Singleton
<1>2. IsFiniteSet(1..n) /\ Cardinality(1..n) = n
  BY FS_Interval
<1>3. /\ IsFiniteSet({x} \X (1..n))
      /\ Cardinality({x} \X (1..n)) = Cardinality({x}) * Cardinality(1..n)
  BY <1>1, <1>2, FS_Product, Zenon
<1> QED BY <1>1, <1>2, <1>3 DEF Units

LEMMA TallyCounts ==
  ASSUME NEW S, IsFiniteSet(S), NEW n \in [S -> Nat]
  PROVE  Counts(UnitsOf(n, S), n, S) /\ IsFiniteSet(Tally(n, S))
<1>1. ASSUME NEW x \in S
      PROVE  IsFiniteSet(Units(x, n[x])) /\ Cardinality(Units(x, n[x])) = n[x]
  BY UnitsCount
<1>2. ASSUME NEW x \in S, NEW y \in S, x # y PROVE Units(x, n[x]) \cap Units(y, n[y]) = {}
  BY <1>2 DEF Units
<1>3. Counts(UnitsOf(n, S), n, S)
  BY <1>1, <1>2 DEF Counts, UnitsOf
<1> QED BY <1>3, WholeFinite DEF Tally

\* When each element of S is an element of T of its own that counts as much,
\* S counts for no more than T.
LEMMA TallyInjects ==
  ASSUME NEW S, NEW T, IsFiniteSet(T), NEW n \in [S -> Nat], NEW m \in [T -> Nat],
         NEW e \in [S -> T], \A x, y \in S : e[x] = e[y] => x = y,
         \A x \in S : n[x] <= m[e[x]]
  PROVE  /\ IsFiniteSet(S) /\ Cardinality(S) <= Cardinality(T)
         /\ Cardinality(Tally(n, S)) <= Cardinality(Tally(m, T))
<1>1. e \in Injection(S, T)
  BY DEF Injection, IsInjective
<1>2. IsFiniteSet(S) /\ Cardinality(S) <= Cardinality(T)
  BY <1>1, FS_Injection
<1> DEFINE X == Tally(n, S)
           Y == Tally(m, T)
           h == [p \in X |-> <<e[p[1]], p[2]>>]
<1>3. \A p \in X : p[1] \in S /\ p[2] \in 1..n[p[1]] /\ p = <<p[1], p[2]>>
  BY DEF Tally, Whole, UnitsOf, Units
<1>4. \A y \in T : \A i \in 1..m[y] : <<y, i>> \in Y
  BY DEF Tally, Whole, UnitsOf, Units
<1> HIDE DEF X, Y
<1>5. h \in [X -> Y]
  <2>1. ASSUME NEW p \in X PROVE <<e[p[1]], p[2]>> \in Y
    BY <1>3, <1>4
  <2> QED BY <2>1
<1>6. ASSUME NEW p \in X, NEW q \in X, h[p] = h[q] PROVE p = q
  <2>1. e[p[1]] = e[q[1]] /\ p[2] = q[2]
    BY <1>6
  <2> QED BY <1>3, <2>1
<1>7. h \in Injection(X, Y)
  BY <1>5, <1>6 DEF Injection, IsInjective
<1>8. IsFiniteSet(Y)
  BY TallyCounts DEF Y
<1>9. Cardinality(X) <= Cardinality(Y)
  BY <1>7, <1>8, FS_Injection
<1> QED BY <1>2, <1>9 DEF X, Y

-----------------------------------------------------------------------------
(* Metering: a request has at most one row of usage, and the row is of     *)
(* what the upstream sent for it; a client that stayed got all of that.    *)

TokenCounts == [inputTokens : Nat, outputTokens : Nat, sentIn : Nat, sentOut : Nat,
                split : BOOLEAN, lost : BOOLEAN]

MeterTypes ==
  /\ pc \in [Requests -> Pcs]
  /\ key \in [Requests -> Keys \cup {NoKey}]
  /\ tokens \in [Requests -> TokenCounts]

\* t counts no more than was sent, and no less when no event was split.
CountsRight(t) ==
  /\ t.inputTokens <= t.sentIn /\ t.outputTokens <= t.sentOut /\ ~t.lost
  /\ ~t.split => t.inputTokens = t.sentIn /\ t.outputTokens = t.sentOut

\* The input is sent before any output.
SentInOrder(t) == t.sentIn = 0 => t.sentOut = 0

\* Nothing is counted before the answer, what is counted until the row is
\* written is right, and who is answered has a key.
Counted(r) ==
  /\ pc[r] \notin {"stream", "log", "end"} => tokens[r] = NoTokens
  /\ pc[r] \in {"stream", "log"} => CountsRight(tokens[r])
  /\ pc[r] = "stream" => SentInOrder(tokens[r])
  /\ pc[r] \notin {"new", "refused"} => key[r] \in Keys

RowOf(r, u) ==
  /\ u.customer = ownerOf[key[r]]
  /\ u.inputTokens = tokens[r].sentIn
  /\ u.outputTokens = tokens[r].sentOut

HasRow(r) ==
  pc[r] = "end" /\ ~tokens[r].split /\ ~tokens[r].lost /\ tokens[r].sentIn > 0 =>
    \E u \in usageLogs : u.request = r /\ RowOf(r, u)

\* A row is of a request that was answered and of its customer, and counts no
\* more than the upstream sent, and no less when no event was split.
RowServed(u) ==
  /\ u.request \in Requests /\ pc[u.request] = "end" /\ key[u.request] \in Keys
  /\ u.customer = ownerOf[key[u.request]]
  /\ u.inputTokens \in Nat /\ u.inputTokens <= tokens[u.request].sentIn
  /\ u.outputTokens \in Nat /\ u.outputTokens <= tokens[u.request].sentOut
  /\ ~tokens[u.request].split =>
       u.inputTokens = tokens[u.request].sentIn /\ u.outputTokens = tokens[u.request].sentOut

OneRow == \A u, v \in usageLogs : u.request = v.request => u = v

MeterInv ==
  /\ MeterTypes /\ OneRow
  /\ \A r \in Requests : Counted(r) /\ HasRow(r)
  /\ \A u \in usageLogs : RowServed(u)

LEMMA MeterInit == Init => MeterInv
<1> SUFFICES ASSUME Init PROVE MeterInv
  OBVIOUS
<1>1. MeterTypes
  BY DEF Init, MeterTypes, TokenCounts, NoTokens, Pcs
<1>2. \A r \in Requests : Counted(r) /\ HasRow(r)
  BY DEF Init, Counted, HasRow
<1> QED BY <1>1, <1>2 DEF Init, MeterInv, OneRow

\* A step of request r that writes no row.
LEMMA MeterMoves ==
  ASSUME MeterInv, NEW r \in Requests, pc[r] # "end", MeterTypes', usageLogs' = usageLogs,
         \A q \in Requests \ {r} : pc'[q] = pc[q] /\ key'[q] = key[q] /\ tokens'[q] = tokens[q],
         Counted(r)', HasRow(r)'
  PROVE  MeterInv'
<1>1. ASSUME NEW q \in Requests \ {r} PROVE Counted(q)' /\ HasRow(q)'
  BY DEF MeterInv, Counted, HasRow, RowOf
<1>2. ASSUME NEW u \in usageLogs PROVE RowServed(u)'
  <2>1. RowServed(u) /\ u.request # r
    BY DEF MeterInv, RowServed
  <2> QED BY <2>1 DEF RowServed
<1> QED BY <1>1, <1>2 DEF MeterInv, OneRow

\* Nothing of a request and no row changes.
LEMMA MeterRests ==
  ASSUME MeterInv, UNCHANGED <<pc, key, tokens, usageLogs>>
  PROVE  MeterInv'
BY DEF MeterInv, MeterTypes, OneRow, Counted, HasRow, RowOf, RowServed

LEMMA MeterRefuses ==
  ASSUME MeterInv, NEW r \in Requests, pc[r] # "end", refuses(r), usageLogs' = usageLogs
  PROVE  MeterInv'
<1>1. NoTokens \in TokenCounts
  BY DEF NoTokens, TokenCounts
<1>2. /\ MeterTypes' /\ pc'[r] = "refused" /\ tokens'[r] = NoTokens
      /\ \A q \in Requests \ {r} : pc'[q] = pc[q] /\ key'[q] = key[q] /\ tokens'[q] = tokens[q]
  BY <1>1 DEF refuses, goesOn, MeterInv, MeterTypes, Pcs
<1>3. Counted(r)' /\ HasRow(r)'
  BY <1>2 DEF Counted, HasRow
<1> QED BY <1>2, <1>3, MeterMoves

\* The request goes on before anything is counted.
LEMMA MeterGoesOn ==
  ASSUME MeterInv, NEW r \in Requests, pc[r] \notin {"stream", "log", "end", "refused"},
         NEW where \in Pcs \ {"new", "log", "refused"}, goesOn(r, where),
         UNCHANGED <<tokens, usageLogs>>,
         \/ key' = key /\ pc[r] # "new"
         \/ \E k \in Keys : key' = [key EXCEPT ![r] = k]
  PROVE  MeterInv'
<1>1. tokens[r] = NoTokens /\ MeterTypes /\ (pc[r] # "new" => key[r] \in Keys)
  BY DEF MeterInv, Counted
<1>2. /\ MeterTypes' /\ pc'[r] = where /\ key'[r] \in Keys /\ tokens'[r] = NoTokens
      /\ \A q \in Requests \ {r} : pc'[q] = pc[q] /\ key'[q] = key[q] /\ tokens'[q] = tokens[q]
  BY <1>1 DEF goesOn, MeterTypes
<1>3. CountsRight(NoTokens) /\ SentInOrder(NoTokens) /\ ~(NoTokens.sentIn > 0)
  BY DEF CountsRight, SentInOrder, NoTokens
<1>4. Counted(r)' /\ HasRow(r)'
  BY <1>2, <1>3 DEF Counted, HasRow
<1> QED BY <1>2, <1>4, MeterMoves

\* What is counted of a request changes to t.
LEMMA MeterCounts ==
  ASSUME MeterInv, NEW r \in Requests, pc[r] \in {"stream", "text"},
         NEW t \in TokenCounts, CountsRight(t), tokens' = [tokens EXCEPT ![r] = t],
         UNCHANGED <<key, usageLogs>>,
         \/ pc' = pc /\ pc[r] = "stream" /\ SentInOrder(t)
         \/ goesOn(r, "log")
  PROVE  MeterInv'
<1>1. MeterTypes /\ key[r] \in Keys
  BY DEF MeterInv, Counted
<1>2. /\ MeterTypes' /\ pc'[r] \in {"stream", "log"} /\ key'[r] \in Keys /\ tokens'[r] = t
      /\ pc'[r] = "stream" => SentInOrder(t)
      /\ \A q \in Requests \ {r} : pc'[q] = pc[q] /\ key'[q] = key[q] /\ tokens'[q] = tokens[q]
  BY <1>1 DEF goesOn, MeterTypes, Pcs
<1>3. Counted(r)' /\ HasRow(r)'
  BY <1>2 DEF Counted, HasRow
<1> QED BY <1>2, <1>3, MeterMoves

LEMMA UsageType ==
  ASSUME NEW r \in Requests
  PROVE  usageOf[r].input \in Nat /\ usageOf[r].output \in Nat
BY LlmProxyAssumption DEF LlmProxyAssumption

\* A client that stayed got what the upstream sent.
Client == [gone : BOOLEAN, gotIn : Nat, gotOut : Nat]

Got(g, t) == ~g.gone => g.gotIn = t.sentIn /\ g.gotOut = t.sentOut

ClientInv ==
  client \in [Requests -> Client] /\ \A r \in Requests : Got(client[r], tokens[r])

LEMMA ClientInit == Init => ClientInv
  BY DEF Init, ClientInv, Client, Got, NoTokens

\* Nothing is sent to a client, and nothing that was sent is forgotten.
LEMMA ClientRests ==
  ASSUME ClientInv, client' = client,
         \A r \in Requests :
           tokens'[r].sentIn = tokens[r].sentIn /\ tokens'[r].sentOut = tokens[r].sentOut
  PROVE  ClientInv'
  BY DEF ClientInv, Got

LEMMA ClientRefused ==
  ASSUME MeterInv, ClientInv, NEW r \in Requests, refuses(r), client' = client,
         pc[r] \notin {"stream", "log", "end"}
  PROVE  ClientInv'
<1>1. tokens[r] = NoTokens /\ tokens \in [Requests -> TokenCounts]
  BY DEF MeterInv, MeterTypes, Counted
<1>2. tokens' = [tokens EXCEPT ![r] = NoTokens]
  BY DEF refuses
<1>3. tokens' = tokens
  BY <1>1, <1>2
<1> QED BY <1>3, ClientRests

LEMMA ClientWritten ==
  ASSUME MeterInv, ClientInv, NEW r \in Requests, NEW t \in TokenCounts, counts(r, t),
         t.sentIn >= tokens[r].sentIn, t.sentOut >= tokens[r].sentOut
  PROVE  ClientInv'
<1> DEFINE got == [gone |-> FALSE, gotIn |-> t.sentIn, gotOut |-> t.sentOut]
<1>1. /\ tokens'[r] = t /\ \A q \in Requests \ {r} : tokens'[q] = tokens[q]
      /\ client' = IF client[r].gone THEN client ELSE [client EXCEPT ![r] = got]
  BY DEF counts, MeterInv, MeterTypes
<1>2. /\ t.sentIn \in Nat /\ t.sentOut \in Nat
      /\ tokens[r].sentIn \in Nat /\ tokens[r].sentOut \in Nat
      /\ client[r].gotIn \in Nat /\ client[r].gotOut \in Nat
  BY DEF TokenCounts, MeterInv, MeterTypes, ClientInv, Client
<1>3. got \in Client /\ Got(got, t)
  BY <1>2 DEF Client, Got
<1>4. client[r].gone => Got(client[r], t)
  BY <1>2 DEF ClientInv, Got
<1> HIDE DEF got
<1> QED BY <1>1, <1>3, <1>4 DEF ClientInv

LEMMA ClientLeft ==
  ASSUME ClientInv, NEW r \in Requests, ClientLeaves(r)
  PROVE  ClientInv'
<1> DEFINE left == [gone |-> TRUE, gotIn |-> 0, gotOut |-> 0]
<1>1. client' = [client EXCEPT ![r] = left] /\ tokens' = tokens
  BY DEF ClientLeaves
<1>2. left \in Client /\ Got(left, tokens[r])
  BY DEF Client, Got
<1> HIDE DEF left
<1> QED BY <1>1, <1>2 DEF ClientInv

LEMMA MeterEvents ==
  ASSUME MeterInv, NEW r \in Requests, NEW whole \in BOOLEAN,
         StartEvent(r, whole) \/ DeltaEvent(r, whole) \/ TextAnswered(r)
  PROVE  MeterInv' /\ (ClientInv => ClientInv')
<1> DEFINE t == tokens[r]
           usage == usageOf[r]
<1>1. /\ t \in TokenCounts /\ (pc[r] = "stream" => CountsRight(t) /\ SentInOrder(t)) /\ (pc[r] = "text" => t = NoTokens)
  BY DEF MeterInv, MeterTypes, Counted
<1>2. usage.input \in Nat /\ usage.output \in Nat
  BY UsageType
<1>3. CASE StartEvent(r, whole)
  <2> DEFINE u == [t EXCEPT !.sentIn = usage.input, !.split = ~whole,
                            !.inputTokens = IF whole THEN usage.input ELSE 0]
  <2>1. pc[r] = "stream" /\ pc' = pc /\ t.sentIn = 0 /\ counts(r, u)
    BY <1>3 DEF StartEvent
  <2>2. /\ u \in TokenCounts /\ u.sentIn = usage.input
        /\ whole => u.inputTokens = usage.input
        /\ ~whole => u.split /\ u.inputTokens = 0
        /\ u.outputTokens = t.outputTokens /\ u.sentOut = t.sentOut /\ u.lost = t.lost
    BY <1>1, <1>2 DEF TokenCounts
  <2>3. t.sentOut = 0 /\ t.outputTokens = 0 /\ ~t.lost
    BY <1>1, <2>1 DEF CountsRight, SentInOrder, TokenCounts
  <2> HIDE DEF u
  <2>4. CountsRight(u) /\ SentInOrder(u)
    BY <1>2, <2>2, <2>3 DEF CountsRight, SentInOrder
  <2>5. MeterInv'
    BY <2>1, <2>2, <2>4, MeterCounts DEF counts, validation
  <2>6. ASSUME ClientInv PROVE ClientInv'
    <3>1. u.sentIn >= t.sentIn /\ u.sentOut >= t.sentOut
      BY <1>1, <1>2, <2>1, <2>2, <2>3
    <3> QED BY <2>1, <2>2, <2>6, <3>1, ClientWritten
  <2> QED BY <2>5, <2>6
<1>4. CASE DeltaEvent(r, whole)
  <2> DEFINE n == t.sentOut + 1
             u == [t EXCEPT !.sentOut = n, !.split = @ \/ ~whole,
                            !.outputTokens = IF whole THEN n ELSE @]
  <2>1. pc[r] = "stream" /\ pc' = pc /\ t.sentIn > 0 /\ counts(r, u)
    BY <1>4 DEF DeltaEvent
  <2>0. t.split \in BOOLEAN /\ n \in Nat
    BY <1>1 DEF TokenCounts
  <2>2. /\ u \in TokenCounts /\ u.sentOut = n
        /\ ~u.split => ~t.split /\ whole
        /\ u.outputTokens = IF whole THEN n ELSE t.outputTokens
        /\ u.inputTokens = t.inputTokens /\ u.sentIn = t.sentIn /\ u.lost = t.lost
    <3>1. CASE whole
      BY <1>1, <2>0, <3>1 DEF TokenCounts
    <3>2. CASE ~whole
      BY <1>1, <2>0, <3>2 DEF TokenCounts
    <3> QED BY <3>1, <3>2
  <2> HIDE DEF u
  <2>3. t.sentOut \in Nat /\ t.outputTokens \in Nat /\ t.inputTokens \in Nat /\ t.sentIn \in Nat
    BY <1>1 DEF TokenCounts
  <2>4. CountsRight(u) /\ SentInOrder(u)
    BY <1>1, <2>1, <2>2, <2>3 DEF CountsRight, SentInOrder
  <2>5. MeterInv'
    BY <2>1, <2>2, <2>4, MeterCounts DEF counts, validation
  <2>6. ASSUME ClientInv PROVE ClientInv'
    <3>1. u.sentIn >= t.sentIn /\ u.sentOut >= t.sentOut
      BY <2>2, <2>3
    <3> QED BY <2>1, <2>2, <2>6, <3>1, ClientWritten
  <2> QED BY <2>5, <2>6
<1>5. CASE TextAnswered(r)
  <2> DEFINE u == [t EXCEPT !.sentIn = usage.input, !.sentOut = usage.output,
                            !.inputTokens = usage.input, !.outputTokens = usage.output]
  <2>1. pc[r] = "text" /\ goesOn(r, "log") /\ counts(r, u)
    BY <1>5 DEF TextAnswered
  <2>2. /\ u \in TokenCounts /\ u.sentIn = usage.input /\ u.sentOut = usage.output
        /\ u.inputTokens = usage.input /\ u.outputTokens = usage.output
        /\ u.lost = t.lost
    BY <1>1, <1>2 DEF TokenCounts
  <2>3. ~t.lost
    BY <1>1, <2>1 DEF NoTokens
  <2> HIDE DEF u
  <2>4. CountsRight(u)
    BY <1>2, <2>2, <2>3 DEF CountsRight
  <2>5. MeterInv'
    BY <2>1, <2>2, <2>4, MeterCounts DEF counts, validation
  <2>6. ASSUME ClientInv PROVE ClientInv'
    <3>1. u.sentIn >= t.sentIn /\ u.sentOut >= t.sentOut
      BY <1>1, <1>2, <2>1, <2>2 DEF NoTokens
    <3> QED BY <2>1, <2>2, <2>6, <3>1, ClientWritten
  <2> QED BY <2>5, <2>6
<1> QED BY <1>3, <1>4, <1>5

LEMMA MeterStreamEnds ==
  ASSUME MeterInv, NEW r \in Requests, StreamEnds(r)
  PROVE  MeterInv'
<1> DEFINE t == tokens[r]
<1>1. /\ pc[r] = "stream" /\ UNCHANGED <<key, tokens, usageLogs>>
      /\ \/ goesOn(r, "log")
         \/ goesOn(r, "end") /\ ~(t.inputTokens > 0) /\ ~(t.outputTokens > 0)
  BY DEF StreamEnds, others, validation
<1>2. t \in TokenCounts /\ CountsRight(t) /\ key[r] \in Keys /\ MeterTypes
  BY <1>1 DEF MeterInv, MeterTypes, Counted
<1>3. /\ MeterTypes' /\ tokens'[r] = t /\ key'[r] \in Keys
      /\ \/ pc'[r] = "log"
         \/ pc'[r] = "end" /\ ~(t.inputTokens > 0) /\ ~(t.outputTokens > 0)
      /\ \A q \in Requests \ {r} : pc'[q] = pc[q] /\ key'[q] = key[q] /\ tokens'[q] = tokens[q]
  BY <1>1, <1>2 DEF goesOn, MeterTypes, Pcs
<1>4. Counted(r)' /\ HasRow(r)'
  <2>1. pc'[r] = "end" /\ ~t.split => ~(t.sentIn > 0)
    BY <1>2, <1>3 DEF CountsRight
  <2> QED BY <1>2, <1>3, <2>1 DEF Counted, HasRow
<1> QED BY <1>1, <1>3, <1>4, MeterMoves

\* The row of a request, or its loss.
LEMMA MeterLogs ==
  ASSUME MeterInv, NEW r \in Requests, LogUsage(r)
  PROVE  MeterInv'
<1> DEFINE t == tokens[r]
           c == ownerOf[key[r]]
           model == IF streams[r] THEN modelOf[r] ELSE resolved[r]
           cost == calculateCost(model, t.inputTokens, t.outputTokens)
           forgotten == [t EXCEPT !.inputTokens = 0, !.outputTokens = 0]
           row == [request |-> r, customer |-> c, model |-> model, at |-> now,
                   inputTokens |-> t.inputTokens, outputTokens |-> t.outputTokens,
                   cost |-> 100 * cost, margin |-> marginPercent * cost]
<1>0. PICK w : w = row
  OBVIOUS
<1>1. /\ pc[r] = "log" /\ goesOn(r, "end") /\ key' = key
      /\ \/ usageLogs' = usageLogs \cup {w} /\ tokens' = [tokens EXCEPT ![r] = forgotten]
         \/ /\ usageLogs' = usageLogs
            /\ tokens' = [tokens EXCEPT ![r] = [forgotten EXCEPT !.lost = TRUE]]
  BY <1>0 DEF LogUsage, validation
<1>2. t \in TokenCounts /\ CountsRight(t) /\ key[r] \in Keys /\ MeterTypes
  BY <1>1 DEF MeterInv, MeterTypes, Counted
<1>3. /\ forgotten \in TokenCounts /\ [forgotten EXCEPT !.lost = TRUE] \in TokenCounts
      /\ forgotten.sentIn = t.sentIn /\ forgotten.sentOut = t.sentOut
      /\ forgotten.split = t.split /\ [forgotten EXCEPT !.lost = TRUE].lost
  BY <1>2 DEF TokenCounts
<1>4. /\ w.request = r /\ w.customer = c
      /\ w.inputTokens = t.inputTokens /\ w.outputTokens = t.outputTokens
  BY <1>0
<1> HIDE DEF row, forgotten
<1>5. /\ MeterTypes' /\ pc'[r] = "end" /\ key'[r] = key[r]
      /\ \A q \in Requests \ {r} : pc'[q] = pc[q] /\ key'[q] = key[q] /\ tokens'[q] = tokens[q]
  BY <1>1, <1>2, <1>3 DEF goesOn, MeterTypes, Pcs
<1>6. CASE usageLogs' = usageLogs /\ tokens' = [tokens EXCEPT ![r] = [forgotten EXCEPT !.lost = TRUE]]
  <2>1. tokens'[r].lost
    BY <1>2, <1>3, <1>6 DEF MeterTypes
  <2>2. Counted(r)' /\ HasRow(r)'
    BY <1>2, <1>5, <2>1 DEF Counted, HasRow
  <2> QED BY <1>1, <1>5, <1>6, <2>2, MeterMoves
<1>7. CASE usageLogs' = usageLogs \cup {w} /\ tokens' = [tokens EXCEPT ![r] = forgotten]
  <2>1. tokens'[r] = forgotten
    BY <1>2, <1>7 DEF MeterTypes
  <2>2. \A u \in usageLogs : u.request # r /\ RowServed(u)
    BY <1>1 DEF MeterInv, RowServed
  <2>3. ASSUME NEW u \in usageLogs PROVE RowServed(u)'
    BY <1>5, <2>2 DEF RowServed
  <2>4. RowServed(w)'
    BY <1>2, <1>3, <1>4, <1>5, <2>1 DEF RowServed, CountsRight, TokenCounts
  <2>5. Counted(r)'
    BY <1>2, <1>5 DEF Counted
  <2>6. HasRow(r)'
    <3>1. ~t.split => t.inputTokens = t.sentIn /\ t.outputTokens = t.sentOut
      BY <1>2 DEF CountsRight
    <3>2. ~tokens'[r].split => w.request = r /\ RowOf(r, w)'
      BY <1>3, <1>4, <1>5, <2>1, <3>1 DEF RowOf
    <3>3. w \in usageLogs'
      BY <1>7
    <3> QED BY <3>2, <3>3 DEF HasRow
  <2>7. ASSUME NEW q \in Requests \ {r} PROVE Counted(q)' /\ HasRow(q)'
    <3>1. Counted(q) /\ HasRow(q) /\ usageLogs \subseteq usageLogs'
      BY <1>7 DEF MeterInv
    <3> QED BY <1>5, <3>1 DEF Counted, HasRow, RowOf
  <2>8. OneRow'
    BY <1>4, <1>7, <2>2 DEF MeterInv, OneRow
  <2> QED BY <1>5, <1>7, <2>3, <2>4, <2>5, <2>6, <2>7, <2>8 DEF MeterInv
<1> QED BY <1>1, <1>6, <1>7

LEMMA MeterNext == MeterInv /\ [Next]_vars => MeterInv'
<1> SUFFICES ASSUME MeterInv, [Next]_vars PROVE MeterInv'
  OBVIOUS
<1>1. CASE \/ \E k \in Keys : CreateApiKey(k)
           \/ \E v \in Revokers, k \in Keys : FindRevoked(v, k) \/ FindNone(v, k)
           \/ \E v \in Revokers : UpdateRevoked(v) \/ ClearCache(v)
           \/ (\E r \in Requests : ClientLeaves(r)) \/ Tick \/ UNCHANGED vars
  <2>1. UNCHANGED <<pc, key, tokens, usageLogs>>
    BY <1>1 DEF CreateApiKey, FindRevoked, FindNone, UpdateRevoked, ClearCache, ClientLeaves, Tick,
                vars, callVars, validation
  <2> QED BY <2>1, MeterRests
<1>2. ASSUME NEW r \in Requests,
             \/ ReceiveWithoutKey(r) \/ OverLimit(r) \/ BadBody(r) \/ UpstreamFails(r)
             \/ (pc[r] = "lookup" /\ refuses(r) /\ UNCHANGED others)
      PROVE  MeterInv'
  <2>1. pc[r] # "end" /\ refuses(r) /\ usageLogs' = usageLogs
    BY <1>2 DEF ReceiveWithoutKey, OverLimit, BadBody, UpstreamFails, others
  <2> QED BY <2>1, MeterRefuses
<1>3. ASSUME NEW r \in Requests, \E k \in Keys : Receive(r, k) PROVE MeterInv'
  <2>1. /\ pc[r] = "new" /\ UNCHANGED <<tokens, usageLogs>>
        /\ \E k \in Keys : key' = [key EXCEPT ![r] = k]
        /\ \E where \in {"body", "lookup"} : goesOn(r, where)
    BY <1>3 DEF Receive, passes, others
  <2> QED BY <2>1, MeterGoesOn DEF Pcs
<1>4. ASSUME NEW r \in Requests,
             \/ (LookUp(r) /\ ~refuses(r)) \/ CacheCustomer(r)
             \/ Admit(r) \/ UpstreamAnswers(r) \/ TextWithoutUsage(r)
      PROVE  MeterInv'
  <2>1. /\ pc[r] \in {"lookup", "found", "body", "fetch", "text"}
        /\ UNCHANGED <<key, tokens, usageLogs>>
        /\ \E where \in {"found", "body", "fetch", "stream", "text", "end"} : goesOn(r, where)
    BY <1>4 DEF LookUp, CacheCustomer, passes, Admit, UpstreamAnswers, TextWithoutUsage, others,
                validation
  <2> QED BY <2>1, MeterGoesOn DEF Pcs
<1>5. ASSUME NEW r \in Requests, LookUp(r) PROVE MeterInv'
  <2>1. CASE refuses(r)
    BY <1>2, <1>5, <2>1 DEF LookUp
  <2> QED BY <1>4, <1>5, <2>1
<1> QED BY <1>1, <1>2, <1>3, <1>4, <1>5, MeterEvents, MeterStreamEnds, MeterLogs DEF Next

LEMMA ClientNext == MeterInv /\ ClientInv /\ [Next]_vars => ClientInv'
<1> SUFFICES ASSUME MeterInv, ClientInv, [Next]_vars PROVE ClientInv'
  OBVIOUS
<1>1. CASE tokens' = tokens /\ client' = client
  BY <1>1, ClientRests
<1>2. CASE \/ \E k \in Keys : CreateApiKey(k)
           \/ \E v \in Revokers, k \in Keys : FindRevoked(v, k) \/ FindNone(v, k)
           \/ \E v \in Revokers : UpdateRevoked(v) \/ ClearCache(v)
           \/ Tick \/ UNCHANGED vars
  <2>1. tokens' = tokens /\ client' = client
    BY <1>2 DEF CreateApiKey, FindRevoked, FindNone, UpdateRevoked, ClearCache, Tick, vars, callVars
  <2> QED BY <1>1, <2>1
<1>3. ASSUME NEW r \in Requests,
             \/ ReceiveWithoutKey(r) \/ OverLimit(r) \/ BadBody(r) \/ UpstreamFails(r)
             \/ (LookUp(r) /\ refuses(r))
      PROVE  ClientInv'
  <2>1. pc[r] \notin {"stream", "log", "end"} /\ refuses(r) /\ client' = client
    BY <1>3 DEF ReceiveWithoutKey, OverLimit, BadBody, UpstreamFails, LookUp, others
  <2> QED BY <2>1, ClientRefused
<1>4. ASSUME NEW r \in Requests,
             \/ (LookUp(r) /\ ~refuses(r)) \/ CacheCustomer(r) \/ (\E k \in Keys : Receive(r, k))
             \/ Admit(r) \/ UpstreamAnswers(r) \/ StreamEnds(r) \/ TextWithoutUsage(r)
      PROVE  ClientInv'
  <2>1. tokens' = tokens /\ client' = client
    BY <1>4 DEF LookUp, CacheCustomer, Receive, Admit, UpstreamAnswers, StreamEnds,
                TextWithoutUsage, others
  <2> QED BY <1>1, <2>1
<1>5. ASSUME NEW r \in Requests, LogUsage(r) PROVE ClientInv'
  <2> DEFINE t == tokens[r]
             forgotten == [t EXCEPT !.inputTokens = 0, !.outputTokens = 0]
             lost == [forgotten EXCEPT !.lost = TRUE]
  <2>1. /\ client' = client
        /\ tokens' = [tokens EXCEPT ![r] = forgotten] \/ tokens' = [tokens EXCEPT ![r] = lost]
    BY <1>5 DEF LogUsage
  <2>2. /\ forgotten.sentIn = t.sentIn /\ forgotten.sentOut = t.sentOut
        /\ lost.sentIn = t.sentIn /\ lost.sentOut = t.sentOut
    OBVIOUS
  <2> HIDE DEF forgotten, lost
  <2>3. \A q \in Requests :
          tokens'[q].sentIn = tokens[q].sentIn /\ tokens'[q].sentOut = tokens[q].sentOut
    BY <2>1, <2>2 DEF MeterInv, MeterTypes
  <2> QED BY <2>1, <2>3, ClientRests
<1> QED BY <1>2, <1>3, <1>4, <1>5, MeterEvents, ClientLeft DEF Next

-----------------------------------------------------------------------------
(* The bill: the sums of the summary and of the calls, each as the count   *)
(* of a set.                                                               *)

LEMMA SumOfInput ==
  ASSUME NEW S, IsFiniteSet(S), \A u \in S : u.inputTokens \in Nat
  PROVE  MapThenSumSet(LAMBDA u : u.inputTokens, S)
           = Cardinality(Tally([u \in S |-> u.inputTokens], S))
<1> DEFINE f == [u \in S |-> u.inputTokens]
           Rec(g) == g = [s \in SUBSET S |-> IF s = {} THEN 0
                            ELSE Pick(s).inputTokens + g[s \ {Pick(s)}]]
<1>1. ASSUME NEW g PROVE Rec(g) <=> Sums(g, f, S)
  <2>1. [s \in SUBSET S |-> IF s = {} THEN 0 ELSE Pick(s).inputTokens + g[s \ {Pick(s)}]]
          = [s \in SUBSET S |-> IF s = {} THEN 0 ELSE f[Pick(s)] + g[s \ {Pick(s)}]]
    BY PickIn
  <2> QED BY <2>1 DEF Sums
<1>2. MapThenSumSet(LAMBDA u : u.inputTokens, S) = (CHOOSE g : Rec(g))[S]
  BY Zenon DEF MapThenSumSet, MapThenFoldSet, Pick
<1>3. f \in [S -> Nat]
  OBVIOUS
<1> HIDE DEF Rec, f
<1>4. Rec(CHOOSE g : Rec(g))
  BY <1>1, <1>3, TallyCounts, SumExists, Zenon
<1>5. (CHOOSE g : Rec(g))[S] = Cardinality(Tally(f, S))
  BY <1>1, <1>3, <1>4, TallyCounts, SumIsCount DEF Tally
<1> QED BY <1>2, <1>5, Zenon DEF f

LEMMA SumOfOutput ==
  ASSUME NEW S, IsFiniteSet(S), \A u \in S : u.outputTokens \in Nat
  PROVE  MapThenSumSet(LAMBDA u : u.outputTokens, S)
           = Cardinality(Tally([u \in S |-> u.outputTokens], S))
<1> DEFINE f == [u \in S |-> u.outputTokens]
           Rec(g) == g = [s \in SUBSET S |-> IF s = {} THEN 0
                            ELSE Pick(s).outputTokens + g[s \ {Pick(s)}]]
<1>1. ASSUME NEW g PROVE Rec(g) <=> Sums(g, f, S)
  <2>1. [s \in SUBSET S |-> IF s = {} THEN 0 ELSE Pick(s).outputTokens + g[s \ {Pick(s)}]]
          = [s \in SUBSET S |-> IF s = {} THEN 0 ELSE f[Pick(s)] + g[s \ {Pick(s)}]]
    BY PickIn
  <2> QED BY <2>1 DEF Sums
<1>2. MapThenSumSet(LAMBDA u : u.outputTokens, S) = (CHOOSE g : Rec(g))[S]
  BY Zenon DEF MapThenSumSet, MapThenFoldSet, Pick
<1>3. f \in [S -> Nat]
  OBVIOUS
<1> HIDE DEF Rec, f
<1>4. Rec(CHOOSE g : Rec(g))
  BY <1>1, <1>3, TallyCounts, SumExists, Zenon
<1>5. (CHOOSE g : Rec(g))[S] = Cardinality(Tally(f, S))
  BY <1>1, <1>3, <1>4, TallyCounts, SumIsCount DEF Tally
<1> QED BY <1>2, <1>5, Zenon DEF f

LEMMA SumOfSentIn ==
  ASSUME NEW S, IsFiniteSet(S), \A r \in S : tokens[r].sentIn \in Nat
  PROVE  MapThenSumSet(LAMBDA r : tokens[r].sentIn, S)
           = Cardinality(Tally([r \in S |-> tokens[r].sentIn], S))
<1> DEFINE f == [r \in S |-> tokens[r].sentIn]
           Rec(g) == g = [s \in SUBSET S |-> IF s = {} THEN 0
                            ELSE tokens[Pick(s)].sentIn + g[s \ {Pick(s)}]]
<1>1. ASSUME NEW g PROVE Rec(g) <=> Sums(g, f, S)
  <2>1. [s \in SUBSET S |-> IF s = {} THEN 0 ELSE tokens[Pick(s)].sentIn + g[s \ {Pick(s)}]]
          = [s \in SUBSET S |-> IF s = {} THEN 0 ELSE f[Pick(s)] + g[s \ {Pick(s)}]]
    BY PickIn
  <2> QED BY <2>1 DEF Sums
<1>2. MapThenSumSet(LAMBDA r : tokens[r].sentIn, S) = (CHOOSE g : Rec(g))[S]
  BY Zenon DEF MapThenSumSet, MapThenFoldSet, Pick
<1>3. f \in [S -> Nat]
  OBVIOUS
<1> HIDE DEF Rec, f
<1>4. Rec(CHOOSE g : Rec(g))
  BY <1>1, <1>3, TallyCounts, SumExists, Zenon
<1>5. (CHOOSE g : Rec(g))[S] = Cardinality(Tally(f, S))
  BY <1>1, <1>3, <1>4, TallyCounts, SumIsCount DEF Tally
<1> QED BY <1>2, <1>5, Zenon DEF f

LEMMA SumOfSentOut ==
  ASSUME NEW S, IsFiniteSet(S), \A r \in S : tokens[r].sentOut \in Nat
  PROVE  MapThenSumSet(LAMBDA r : tokens[r].sentOut, S)
           = Cardinality(Tally([r \in S |-> tokens[r].sentOut], S))
<1> DEFINE f == [r \in S |-> tokens[r].sentOut]
           Rec(g) == g = [s \in SUBSET S |-> IF s = {} THEN 0
                            ELSE tokens[Pick(s)].sentOut + g[s \ {Pick(s)}]]
<1>1. ASSUME NEW g PROVE Rec(g) <=> Sums(g, f, S)
  <2>1. [s \in SUBSET S |-> IF s = {} THEN 0 ELSE tokens[Pick(s)].sentOut + g[s \ {Pick(s)}]]
          = [s \in SUBSET S |-> IF s = {} THEN 0 ELSE f[Pick(s)] + g[s \ {Pick(s)}]]
    BY PickIn
  <2> QED BY <2>1 DEF Sums
<1>2. MapThenSumSet(LAMBDA r : tokens[r].sentOut, S) = (CHOOSE g : Rec(g))[S]
  BY Zenon DEF MapThenSumSet, MapThenFoldSet, Pick
<1>3. f \in [S -> Nat]
  OBVIOUS
<1> HIDE DEF Rec, f
<1>4. Rec(CHOOSE g : Rec(g))
  BY <1>1, <1>3, TallyCounts, SumExists, Zenon
<1>5. (CHOOSE g : Rec(g))[S] = Cardinality(Tally(f, S))
  BY <1>1, <1>3, <1>4, TallyCounts, SumIsCount DEF Tally
<1> QED BY <1>2, <1>5, Zenon DEF f

\* The rows of the summary, by model.
GroupOf(rows, m) == {u \in rows : u.model = m}
ModelsOf(rows) == {u.model : u \in rows}

LEMMA ModelsFinite ==
  ASSUME NEW rows, IsFiniteSet(rows)
  PROVE  /\ IsFiniteSet(ModelsOf(rows))
         /\ Whole([m \in ModelsOf(rows) |-> GroupOf(rows, m)], ModelsOf(rows)) = rows
<1>1. [u \in rows |-> u.model] \in Surjection(rows, ModelsOf(rows))
  BY DEF Surjection, ModelsOf
<1>2. IsFiniteSet(ModelsOf(rows))
  BY <1>1, FS_Surjection
<1>3. Whole([m \in ModelsOf(rows) |-> GroupOf(rows, m)], ModelsOf(rows)) = rows
  <2>1. ASSUME NEW u \in rows PROVE u.model \in ModelsOf(rows) /\ u \in GroupOf(rows, u.model)
    BY DEF ModelsOf, GroupOf
  <2>2. \A m : GroupOf(rows, m) \subseteq rows
    BY DEF GroupOf
  <2> QED BY <2>1, <2>2 DEF Whole
<1> QED BY <1>2, <1>3

\* What the rows count is the sum over the models of what their rows count.
LEMMA TalliesByModel ==
  ASSUME NEW rows, IsFiniteSet(rows), NEW n \in [rows -> Nat], NEW f,
         f = [m \in ModelsOf(rows) |-> Cardinality(Tally(n, GroupOf(rows, m)))]
  PROVE  LET A == [m \in ModelsOf(rows) |-> Tally(n, GroupOf(rows, m))]
         IN  Counts(A, f, ModelsOf(rows)) /\ Whole(A, ModelsOf(rows)) = Tally(n, rows)
<1> DEFINE S == ModelsOf(rows)
           A == [m \in S |-> Tally(n, GroupOf(rows, m))]
<1>1. ASSUME NEW m \in S, NEW p
      PROVE  p \in A[m] <=> \E u \in rows : u.model = m /\ p \in Units(u, n[u])
  BY DEF Tally, Whole, UnitsOf, GroupOf
<1>2. ASSUME NEW p
      PROVE  p \in Tally(n, rows) <=> \E u \in rows : p \in Units(u, n[u])
  BY DEF Tally, Whole, UnitsOf
<1>3. \A m \in S : A[m] \subseteq Tally(n, rows)
  BY <1>1, <1>2
<1>4. \A m \in S : IsFiniteSet(A[m])
  BY <1>3, TallyCounts, FS_Subset
<1>5. \A m, k \in S : m # k => A[m] \cap A[k] = {}
  BY <1>1 DEF Units
<1>6. \A m \in S : f[m] = Cardinality(A[m])
  OBVIOUS
<1> HIDE DEF A
<1>7. Counts(A, f, S)
  BY <1>4, <1>5, <1>6, ModelsFinite DEF Counts
<1>8. \A u \in rows : u.model \in S
  BY DEF ModelsOf
<1>9. Whole(A, S) = Tally(n, rows)
  <2>1. ASSUME NEW p PROVE p \in Whole(A, S) <=> p \in Tally(n, rows)
    BY <1>1, <1>2, <1>8 DEF Whole
  <2> QED BY <2>1
<1> QED BY <1>7, <1>9 DEF A

\* The tokens the summary bills are those of all its rows.
LEMMA InputByModel ==
  ASSUME NEW rows, IsFiniteSet(rows), \A u \in rows : u.inputTokens \in Nat
  PROVE  MapThenSumSet(LAMBDA m : MapThenSumSet(LAMBDA u : u.inputTokens, GroupOf(rows, m)),
                       ModelsOf(rows))
           = Cardinality(Tally([u \in rows |-> u.inputTokens], rows))
<1> DEFINE Inner(m) == MapThenSumSet(LAMBDA u : u.inputTokens, GroupOf(rows, m))
           S == ModelsOf(rows)
           n == [u \in rows |-> u.inputTokens]
           f == [m \in S |-> Inner(m)]
           A == [m \in S |-> Tally(n, GroupOf(rows, m))]
           Rec(g) == g = [s \in SUBSET S |-> IF s = {} THEN 0
                            ELSE Inner(Pick(s)) + g[s \ {Pick(s)}]]
<1>1. ASSUME NEW m \in S PROVE Inner(m) = Cardinality(Tally(n, GroupOf(rows, m)))
  <2>1. IsFiniteSet(GroupOf(rows, m)) /\ \A u \in GroupOf(rows, m) : u \in rows
    BY FS_Subset DEF GroupOf
  <2>2. Inner(m) = Cardinality(Tally([u \in GroupOf(rows, m) |-> u.inputTokens], GroupOf(rows, m)))
    BY <2>1, SumOfInput, Zenon
  <2>3. Tally([u \in GroupOf(rows, m) |-> u.inputTokens], GroupOf(rows, m))
          = Tally(n, GroupOf(rows, m))
    BY <2>1 DEF Tally, UnitsOf, Whole
  <2> QED BY <2>2, <2>3, Zenon
<1>2. MapThenSumSet(LAMBDA m : MapThenSumSet(LAMBDA u : u.inputTokens, GroupOf(rows, m)), S)
        = (CHOOSE g : Rec(g))[S]
  BY Zenon DEF MapThenSumSet, MapThenFoldSet, Pick
<1> HIDE DEF Inner
<1>3. n \in [rows -> Nat]
  OBVIOUS
<1> HIDE DEF n
<1>4. Counts(A, f, S) /\ Whole(A, S) = Tally(n, rows)
  BY <1>1, <1>3, TalliesByModel
<1>5. ASSUME NEW g PROVE Rec(g) <=> Sums(g, f, S)
  <2>1. [s \in SUBSET S |-> IF s = {} THEN 0 ELSE Inner(Pick(s)) + g[s \ {Pick(s)}]]
          = [s \in SUBSET S |-> IF s = {} THEN 0 ELSE f[Pick(s)] + g[s \ {Pick(s)}]]
    BY PickIn
  <2> QED BY <2>1 DEF Sums
<1> HIDE DEF Rec, f, A
<1>6. Rec(CHOOSE g : Rec(g))
  BY <1>4, <1>5, SumExists, Zenon
<1>7. (CHOOSE g : Rec(g))[S] = Cardinality(Tally(n, rows))
  BY <1>4, <1>5, <1>6, SumIsCount
<1> QED BY <1>2, <1>7, Zenon DEF n

LEMMA OutputByModel ==
  ASSUME NEW rows, IsFiniteSet(rows), \A u \in rows : u.outputTokens \in Nat
  PROVE  MapThenSumSet(LAMBDA m : MapThenSumSet(LAMBDA u : u.outputTokens, GroupOf(rows, m)),
                       ModelsOf(rows))
           = Cardinality(Tally([u \in rows |-> u.outputTokens], rows))
<1> DEFINE Inner(m) == MapThenSumSet(LAMBDA u : u.outputTokens, GroupOf(rows, m))
           S == ModelsOf(rows)
           n == [u \in rows |-> u.outputTokens]
           f == [m \in S |-> Inner(m)]
           A == [m \in S |-> Tally(n, GroupOf(rows, m))]
           Rec(g) == g = [s \in SUBSET S |-> IF s = {} THEN 0
                            ELSE Inner(Pick(s)) + g[s \ {Pick(s)}]]
<1>1. ASSUME NEW m \in S PROVE Inner(m) = Cardinality(Tally(n, GroupOf(rows, m)))
  <2>1. IsFiniteSet(GroupOf(rows, m)) /\ \A u \in GroupOf(rows, m) : u \in rows
    BY FS_Subset DEF GroupOf
  <2>2. Inner(m) = Cardinality(Tally([u \in GroupOf(rows, m) |-> u.outputTokens], GroupOf(rows, m)))
    BY <2>1, SumOfOutput, Zenon
  <2>3. Tally([u \in GroupOf(rows, m) |-> u.outputTokens], GroupOf(rows, m))
          = Tally(n, GroupOf(rows, m))
    BY <2>1 DEF Tally, UnitsOf, Whole
  <2> QED BY <2>2, <2>3, Zenon
<1>2. MapThenSumSet(LAMBDA m : MapThenSumSet(LAMBDA u : u.outputTokens, GroupOf(rows, m)), S)
        = (CHOOSE g : Rec(g))[S]
  BY Zenon DEF MapThenSumSet, MapThenFoldSet, Pick
<1> HIDE DEF Inner
<1>3. n \in [rows -> Nat]
  OBVIOUS
<1> HIDE DEF n
<1>4. Counts(A, f, S) /\ Whole(A, S) = Tally(n, rows)
  BY <1>1, <1>3, TalliesByModel
<1>5. ASSUME NEW g PROVE Rec(g) <=> Sums(g, f, S)
  <2>1. [s \in SUBSET S |-> IF s = {} THEN 0 ELSE Inner(Pick(s)) + g[s \ {Pick(s)}]]
          = [s \in SUBSET S |-> IF s = {} THEN 0 ELSE f[Pick(s)] + g[s \ {Pick(s)}]]
    BY PickIn
  <2> QED BY <2>1 DEF Sums
<1> HIDE DEF Rec, f, A
<1>6. Rec(CHOOSE g : Rec(g))
  BY <1>4, <1>5, SumExists, Zenon
<1>7. (CHOOSE g : Rec(g))[S] = Cardinality(Tally(n, rows))
  BY <1>4, <1>5, <1>6, SumIsCount
<1> QED BY <1>2, <1>7, Zenon DEF n

\* The number of rows is the sum over the models of how many rows they have.
LEMMA RequestsByModel ==
  ASSUME NEW rows, IsFiniteSet(rows)
  PROVE  MapThenSumSet(LAMBDA m : Cardinality(GroupOf(rows, m)), ModelsOf(rows)) = Cardinality(rows)
<1> DEFINE S == ModelsOf(rows)
           A == [m \in S |-> GroupOf(rows, m)]
           f == [m \in S |-> Cardinality(GroupOf(rows, m))]
           Rec(g) == g = [s \in SUBSET S |-> IF s = {} THEN 0
                            ELSE Cardinality(GroupOf(rows, Pick(s))) + g[s \ {Pick(s)}]]
<1>1. MapThenSumSet(LAMBDA m : Cardinality(GroupOf(rows, m)), S) = (CHOOSE g : Rec(g))[S]
  BY Zenon DEF MapThenSumSet, MapThenFoldSet, Pick
<1>2. Counts(A, f, S)
  <2>1. \A m \in S : IsFiniteSet(GroupOf(rows, m))
    BY FS_Subset DEF GroupOf
  <2> QED BY <2>1, ModelsFinite DEF Counts, GroupOf
<1>3. ASSUME NEW g PROVE Rec(g) <=> Sums(g, f, S)
  <2>1. [s \in SUBSET S |-> IF s = {} THEN 0 ELSE Cardinality(GroupOf(rows, Pick(s))) + g[s \ {Pick(s)}]]
          = [s \in SUBSET S |-> IF s = {} THEN 0 ELSE f[Pick(s)] + g[s \ {Pick(s)}]]
    BY PickIn
  <2> QED BY <2>1 DEF Sums
<1>4. Whole(A, S) = rows
  BY ModelsFinite
<1> HIDE DEF Rec, f, A
<1>5. Rec(CHOOSE g : Rec(g))
  BY <1>2, <1>3, SumExists, Zenon
<1>6. (CHOOSE g : Rec(g))[S] = Cardinality(rows)
  BY <1>2, <1>3, <1>4, <1>5, SumIsCount
<1> QED BY <1>1, <1>6, Zenon

\* The bill of a customer, with the sums spelled out.
RowsOf(c, since, until) == {u \in usageLogs : u.customer = c /\ since <= u.at /\ u.at <= until}

LEMMA SummaryIs ==
  ASSUME NEW c, NEW since, NEW until
  PROVE  LET bill == UsageSummary(c, since, until)
             rows == RowsOf(c, since, until)
         IN  /\ bill.requests =
                  MapThenSumSet(LAMBDA m : Cardinality(GroupOf(rows, m)), ModelsOf(rows))
             /\ bill.inputTokens =
                  MapThenSumSet(LAMBDA m : MapThenSumSet(LAMBDA u : u.inputTokens, GroupOf(rows, m)),
                                ModelsOf(rows))
             /\ bill.outputTokens =
                  MapThenSumSet(LAMBDA m : MapThenSumSet(LAMBDA u : u.outputTokens, GroupOf(rows, m)),
                                ModelsOf(rows))
<1> DEFINE rows == RowsOf(c, since, until)
           total(Value(_)) == MapThenSumSet(LAMBDA m : MapThenSumSet(Value, GroupOf(rows, m)),
                                            ModelsOf(rows))
           requests == MapThenSumSet(LAMBDA m : Cardinality(GroupOf(rows, m)), ModelsOf(rows))
           inputTokens == total(LAMBDA u : u.inputTokens)
           outputTokens == total(LAMBDA u : u.outputTokens)
           charge == total(LAMBDA u : u.cost + u.margin)
<1>1. UsageSummary(c, since, until)
        = [requests |-> requests, inputTokens |-> inputTokens,
           outputTokens |-> outputTokens, charge |-> charge]
  BY Zenon DEF UsageSummary, RowsOf, GroupOf, ModelsOf
<1> HIDE DEF requests, inputTokens, outputTokens, charge
<1>2. /\ UsageSummary(c, since, until).requests = requests
      /\ UsageSummary(c, since, until).inputTokens = inputTokens
      /\ UsageSummary(c, since, until).outputTokens = outputTokens
  BY <1>1
<1> QED BY <1>2, Zenon DEF requests, inputTokens, outputTokens

\* However many calls there may be, only finitely many have begun.
Begun == {r \in Requests : pc[r] # "new"}

LEMMA BegunInit == Init => IsFiniteSet(Begun)
<1> SUFFICES ASSUME Init PROVE IsFiniteSet(Begun)
  OBVIOUS
<1>1. Begun = {}
  BY DEF Init, Begun
<1> QED BY <1>1, FS_EmptySet

LEMMA OneCallMoves ==
  ASSUME [Next]_vars
  PROVE  pc' = pc \/ \E r \in Requests : \E where : goesOn(r, where)
<1>1. CASE \/ \E k \in Keys : CreateApiKey(k)
           \/ \E v \in Revokers, k \in Keys : FindRevoked(v, k) \/ FindNone(v, k)
           \/ \E v \in Revokers : UpdateRevoked(v) \/ ClearCache(v)
           \/ (\E r \in Requests : ClientLeaves(r)) \/ Tick \/ UNCHANGED vars
  BY <1>1 DEF CreateApiKey, FindRevoked, FindNone, UpdateRevoked, ClearCache, ClientLeaves, Tick,
              vars, callVars
<1>2. ASSUME NEW r \in Requests,
             \/ ReceiveWithoutKey(r) \/ OverLimit(r) \/ BadBody(r) \/ UpstreamFails(r)
             \/ LookUp(r) \/ CacheCustomer(r) \/ (\E k \in Keys : Receive(r, k))
      PROVE  \E where : goesOn(r, where)
  BY <1>2 DEF ReceiveWithoutKey, OverLimit, BadBody, UpstreamFails, LookUp, CacheCustomer, Receive,
              refuses, passes
<1>3. ASSUME NEW r \in Requests,
             \/ Admit(r) \/ UpstreamAnswers(r) \/ StreamEnds(r) \/ TextAnswered(r)
             \/ TextWithoutUsage(r) \/ LogUsage(r)
      PROVE  \E where : goesOn(r, where)
  BY <1>3 DEF Admit, UpstreamAnswers, StreamEnds, TextAnswered, TextWithoutUsage, LogUsage
<1>4. ASSUME NEW r \in Requests, NEW whole \in BOOLEAN, StartEvent(r, whole) \/ DeltaEvent(r, whole)
      PROVE  pc' = pc
  BY <1>4 DEF StartEvent, DeltaEvent
<1> QED BY <1>1, <1>2, <1>3, <1>4 DEF Next

LEMMA BegunNext == MeterInv /\ IsFiniteSet(Begun) /\ [Next]_vars => IsFiniteSet(Begun')
<1> SUFFICES ASSUME MeterInv, IsFiniteSet(Begun), [Next]_vars PROVE IsFiniteSet(Begun')
  OBVIOUS
<1>1. CASE pc' = pc
  BY <1>1 DEF Begun
<1>2. ASSUME NEW r \in Requests, NEW where, goesOn(r, where) PROVE IsFiniteSet(Begun')
  <2>1. Begun' \subseteq Begun \cup {r}
    BY <1>2 DEF Begun, goesOn, MeterInv, MeterTypes
  <2>2. IsFiniteSet(Begun \cup {r})
    BY FS_AddElement
  <2> QED BY <2>1, <2>2, FS_Subset
<1> QED BY <1>1, <1>2, OneCallMoves

\* The calls of customer c that were answered.
ServedTo(c) == {r \in Requests : key[r] # NoKey /\ ownerOf[key[r]] = c
                                /\ pc[r] \in {"stream", "text", "log", "end"}}

LEMMA BillServed ==
  ASSUME MeterInv, IsFiniteSet(Begun), NEW c \in Customers
  PROVE  LET bill == UsageSummary(c, 0, now)
         IN  /\ bill.requests <= Cardinality(ServedTo(c))
             /\ bill.inputTokens <= MapThenSumSet(LAMBDA r : tokens[r].sentIn, ServedTo(c))
             /\ bill.outputTokens <= MapThenSumSet(LAMBDA r : tokens[r].sentOut, ServedTo(c))
<1>1. PICK rows : rows = RowsOf(c, 0, now)
  OBVIOUS
<1>2. PICK served : served = ServedTo(c)
  OBVIOUS
<1> DEFINE e == [u \in rows |-> u.request]
           billedIn == [u \in rows |-> u.inputTokens]
           billedOut == [u \in rows |-> u.outputTokens]
           sentIn == [r \in served |-> tokens[r].sentIn]
           sentOut == [r \in served |-> tokens[r].sentOut]
<1>3. \A u \in rows : u \in usageLogs /\ u.customer = c /\ RowServed(u)
  BY <1>1 DEF RowsOf, MeterInv
<1>4. e \in [rows -> served] /\ \A u, v \in rows : e[u] = e[v] => u = v
  <2>1. ASSUME NEW u \in rows PROVE u.request \in served
    BY <1>2, <1>3, LlmProxyAssumption DEF ServedTo, RowServed, LlmProxyAssumption
  <2> QED BY <1>3, <2>1 DEF MeterInv, OneRow
<1>5. IsFiniteSet(served)
  <2>1. served \subseteq Begun
    BY <1>2 DEF ServedTo, Begun
  <2> QED BY <2>1, FS_Subset
<1>6. /\ sentIn \in [served -> Nat] /\ \A r \in served : tokens[r].sentIn \in Nat
      /\ sentOut \in [served -> Nat] /\ \A r \in served : tokens[r].sentOut \in Nat
  BY <1>2 DEF ServedTo, MeterInv, MeterTypes, TokenCounts
<1>7. /\ billedIn \in [rows -> Nat] /\ \A u \in rows : u.inputTokens \in Nat
      /\ billedOut \in [rows -> Nat] /\ \A u \in rows : u.outputTokens \in Nat
  BY <1>3 DEF RowServed
<1>8. \A u \in rows : billedIn[u] <= sentIn[e[u]] /\ billedOut[u] <= sentOut[e[u]]
  BY <1>3, <1>4 DEF RowServed
<1> HIDE DEF e, billedIn, billedOut, sentIn, sentOut
<1>9. /\ IsFiniteSet(rows) /\ Cardinality(rows) <= Cardinality(served)
      /\ Cardinality(Tally(billedIn, rows)) <= Cardinality(Tally(sentIn, served))
      /\ Cardinality(Tally(billedOut, rows)) <= Cardinality(Tally(sentOut, served))
  BY <1>4, <1>5, <1>6, <1>7, <1>8, TallyInjects
<1>10. /\ UsageSummary(c, 0, now).requests = Cardinality(rows)
       /\ UsageSummary(c, 0, now).inputTokens = Cardinality(Tally(billedIn, rows))
       /\ UsageSummary(c, 0, now).outputTokens = Cardinality(Tally(billedOut, rows))
  <2>1. /\ IsFiniteSet(RowsOf(c, 0, now))
        /\ \A u \in RowsOf(c, 0, now) : u.inputTokens \in Nat /\ u.outputTokens \in Nat
    BY <1>1, <1>7, <1>9
  <2>2. billedIn = [u \in RowsOf(c, 0, now) |-> u.inputTokens]
    BY <1>1 DEF billedIn
  <2>3. billedOut = [u \in RowsOf(c, 0, now) |-> u.outputTokens]
    BY <1>1 DEF billedOut
  <2>4. UsageSummary(c, 0, now).requests = Cardinality(RowsOf(c, 0, now))
    BY <2>1, RequestsByModel, SummaryIs, Zenon
  <2>5. UsageSummary(c, 0, now).inputTokens = Cardinality(Tally(billedIn, RowsOf(c, 0, now)))
    BY <2>1, <2>2, InputByModel, SummaryIs, Zenon
  <2>6. UsageSummary(c, 0, now).outputTokens = Cardinality(Tally(billedOut, RowsOf(c, 0, now)))
    BY <2>1, <2>3, OutputByModel, SummaryIs, Zenon
  <2> QED BY <1>1, <2>4, <2>5, <2>6, Zenon
<1>11. MapThenSumSet(LAMBDA r : tokens[r].sentIn, ServedTo(c)) = Cardinality(Tally(sentIn, served))
  <2>1. MapThenSumSet(LAMBDA r : tokens[r].sentIn, ServedTo(c))
          = Cardinality(Tally([r \in ServedTo(c) |-> tokens[r].sentIn], ServedTo(c)))
    BY <1>2, <1>5, <1>6, SumOfSentIn, Zenon
  <2> QED BY <1>2, <2>1, Zenon DEF sentIn
<1>12. MapThenSumSet(LAMBDA r : tokens[r].sentOut, ServedTo(c)) = Cardinality(Tally(sentOut, served))
  <2>1. MapThenSumSet(LAMBDA r : tokens[r].sentOut, ServedTo(c))
          = Cardinality(Tally([r \in ServedTo(c) |-> tokens[r].sentOut], ServedTo(c)))
    BY <1>2, <1>5, <1>6, SumOfSentOut, Zenon
  <2> QED BY <1>2, <2>1, Zenon DEF sentOut
<1> QED BY <1>2, <1>9, <1>10, <1>11, <1>12, Zenon

(* Whatever breaks, is split or is lost (llm-proxy.ts:200-223, 250-267),   *)
(* no row, whoever's it is, counts more than the upstream sent for its     *)
(* call, and without a split event none counts less, whether or not the    *)
(* client was still there to get it.                                       *)
THEOREM RowsAsServed == Spec => [](\A u \in usageLogs : RowServed(u))
<1>1. MeterInv => \A u \in usageLogs : RowServed(u)
  BY DEF MeterInv
<1> QED BY <1>1, MeterInit, MeterNext, PTL DEF Spec

(* A request has at most one row of usage; without a split event and a     *)
(* failing database it has exactly the row of what the upstream sent; the  *)
(* row of a client that stayed counts no more than it got; and the summary *)
(* of a customer, grouped by model and summed up again                     *)
(* (metering.ts:110-183), bills no more calls and no more tokens than the  *)
(* upstream sent for them, for any number of customers, keys and calls.    *)
THEOREM MeteredAsServed == Spec => []BilledAsServed
<1>1. MeterInv /\ ClientInv => \A r \in Requests : MeteredOnce(r)
  <2> SUFFICES ASSUME MeterInv, ClientInv, NEW r \in Requests PROVE MeteredOnce(r)
    OBVIOUS
  <2> DEFINE rows == {u \in usageLogs : u.request = r}
  <2>1. Cardinality(rows) <= 1
    <3>1. CASE rows = {}
      BY <3>1, FS_EmptySet
    <3>2. ASSUME NEW u \in rows PROVE Cardinality(rows) <= 1
      <4>1. rows = {u}
        BY DEF MeterInv, OneRow
      <4> QED BY <4>1, FS_Singleton
    <3> QED BY <3>1, <3>2
  <2>2. HasRow(r)
    BY DEF MeterInv
  <2>3. ASSUME ~client[r].gone, NEW u \in rows
        PROVE  u.inputTokens <= client[r].gotIn /\ u.outputTokens <= client[r].gotOut
    <3>1. RowServed(u) /\ u.request = r
      BY DEF MeterInv
    <3>2. Got(client[r], tokens[r])
      BY DEF ClientInv
    <3> QED BY <2>3, <3>1, <3>2 DEF RowServed, Got
  <2> QED BY <2>1, <2>2, <2>3 DEF MeteredOnce, HasRow, RowOf
<1>2. MeterInv /\ ClientInv /\ IsFiniteSet(Begun) => BilledAsServed
  BY <1>1, BillServed, Zenon DEF BilledAsServed, ServedTo
<1>3. Init => MeterInv /\ ClientInv /\ IsFiniteSet(Begun)
  BY MeterInit, ClientInit, BegunInit
<1>4. MeterInv /\ ClientInv /\ IsFiniteSet(Begun) /\ [Next]_vars
        => (MeterInv /\ ClientInv /\ IsFiniteSet(Begun))'
  BY MeterNext, ClientNext, BegunNext
<1> QED BY <1>2, <1>3, <1>4, PTL DEF Spec


-----------------------------------------------------------------------------
(* Signal: one loop reads the stream, until a reconnect finds it alive.    *)

LEMMA MessagesNat == \A e \in DOMAIN Envelopes : messages(e) \in Nat
<1> SUFFICES ASSUME NEW e \in DOMAIN Envelopes PROVE messages(e) \in Nat
  OBVIOUS
<1>1. Envelopes[e].parts \in Nat
  <2> DEFINE R == [kind : STRING, parts : Nat]
  <2>1. \A x \in R : x.parts \in Nat
    OBVIOUS
  <2> HIDE DEF R
  <2>2. e \in 1..Len(Envelopes) /\ Envelopes \in Seq(R)
    BY SignalAssumption DEF R
  <2> QED BY <2>1, <2>2
<1>2. CASE Envelopes[e].kind \in {"reaction", "edit", "text"}
  BY <1>2 DEF messages
<1>3. CASE Envelopes[e].kind = "receipt"
  BY <1>1, <1>3 DEF messages
<1>4. CASE Envelopes[e].kind \notin {"reaction", "edit", "text", "receipt"}
  BY <1>4 DEF messages
<1> QED BY <1>2, <1>3, <1>4

LoopPcs == {"idle", "top", "fetching", "reading", "sleeping"}

LoopTypes ==
  /\ abortController \in Nat /\ signalConnects \in Nat /\ rejoined \in BOOLEAN
  /\ stream \in [Streams -> [pc : LoopPcs, signal : Nat]]

\* No second loop without such a reconnect.
OneLoop == ~rejoined => \A s, r \in Looping : s = r

EnvelopeTypes ==
  /\ sent \in Nat
  /\ emitted \in [DOMAIN Envelopes -> Nat]
  /\ \A t \in task : t \in [stream : Streams, envelope : DOMAIN Envelopes, left : Nat]

\* With one loop an envelope is read once: it has one task, which owes what
\* the handler has not had, and one that is not sent has none.
Owes ==
  /\ \A t, u \in task : t.envelope = u.envelope => t = u
  /\ \A t \in task : t.envelope <= sent
                     /\ emitted[t.envelope] + t.left <= messages(t.envelope)
  /\ \A e \in DOMAIN Envelopes : /\ emitted[e] <= messages(e)
                                 /\ e > sent => emitted[e] = 0

SignalInv == LoopTypes /\ OneLoop /\ EnvelopeTypes /\ (~rejoined => Owes)

LEMMA SignalStart == SignalInit => SignalInv
<1> SUFFICES ASSUME SignalInit PROVE SignalInv
  OBVIOUS
<1>1. LoopTypes
  BY DEF SignalInit, LoopTypes, LoopPcs, NoStream
<1>2. OneLoop /\ EnvelopeTypes /\ Owes
  BY MessagesNat DEF SignalInit, OneLoop, EnvelopeTypes, Owes, Looping, NoStream
<1> QED BY <1>1, <1>2 DEF SignalInv

\* A step that leaves envelopes and reconnects alone need only say what it
\* does to one loop.
LEMMA LoopMoves ==
  ASSUME SignalInv, NEW s \in Streams, stream[s].pc # "idle",
         NEW v \in [pc : LoopPcs, signal : Nat], stream' = [stream EXCEPT ![s] = v],
         UNCHANGED <<abortController, signalConnects, rejoined, sent, task, emitted>>
  PROVE  SignalInv'
<1>1. LoopTypes' /\ EnvelopeTypes'
  BY DEF SignalInv, LoopTypes, EnvelopeTypes
<1>2. Looping' \subseteq Looping
  BY DEF SignalInv, LoopTypes, Looping
<1>3. OneLoop'
  BY <1>2 DEF SignalInv, OneLoop
<1>4. ~rejoined' => Owes'
  BY DEF SignalInv, Owes
<1> QED BY <1>1, <1>3, <1>4 DEF SignalInv

LEMMA TurnMoves ==
  ASSUME SignalInv, NEW s \in Streams, stream[s].pc # "idle",
         NEW p \in LoopPcs, Turn(s, p), UNCHANGED <<Kept, signalData>>
  PROVE  SignalInv'
<1> DEFINE v == [stream[s] EXCEPT !.pc = p]
<1>1. v \in [pc : LoopPcs, signal : Nat] /\ stream' = [stream EXCEPT ![s] = v]
  BY DEF SignalInv, LoopTypes, Turn
<1> HIDE DEF v
<1> QED BY <1>1, LoopMoves DEF Kept, signalData

LEMMA StreamSteps ==
  ASSUME SignalInv, NEW s \in Streams, StreamStep(s)
  PROVE  SignalInv'
<1>1. CASE Fetch(s)
  <2>1. CASE abortController = 0
    <3>1. NoStream \in [pc : LoopPcs, signal : Nat]
      BY DEF NoStream, LoopPcs
    <3> QED BY <1>1, <2>1, <3>1, LoopMoves DEF Fetch, Kept, signalData
  <2>2. CASE abortController # 0
    <3> DEFINE v == [pc |-> "fetching", signal |-> abortController]
    <3>1. v \in [pc : LoopPcs, signal : Nat] /\ stream' = [stream EXCEPT ![s] = v]
      BY <1>1, <2>2 DEF SignalInv, LoopTypes, LoopPcs, Fetch
    <3> HIDE DEF v
    <3> QED BY <1>1, <3>1, LoopMoves DEF Fetch, Kept, signalData
  <2> QED BY <2>1, <2>2
<1>2. CASE FetchAnswers(s)
  BY <1>2, TurnMoves DEF FetchAnswers, LoopPcs
<1>3. CASE EventStreamEnds(s)
  BY <1>3, TurnMoves DEF EventStreamEnds, LoopPcs
<1>4. CASE StreamFails(s)
  BY <1>4, TurnMoves DEF StreamFails, LoopPcs
<1>5. CASE StreamAwakes(s)
  BY <1>5, TurnMoves DEF StreamAwakes, LoopPcs
<1> QED BY <1>1, <1>2, <1>3, <1>4, <1>5 DEF StreamStep

\* The daemon writes a new envelope to the one loop that reads, if any.
LEMMA ReadsOnce == ASSUME SignalInv, EnvelopeRead PROVE SignalInv'
<1> DEFINE e == sent + 1
<1>1. /\ e \in DOMAIN Envelopes /\ sent' = e /\ sent \in Nat
      /\ UNCHANGED <<abortController, signalConnects, rejoined, stream>>
  BY DEF EnvelopeRead, Kept, SignalInv, EnvelopeTypes
<1>2. LoopTypes' /\ OneLoop'
  BY <1>1 DEF SignalInv, LoopTypes, OneLoop, Looping
<1>3. CASE messages(e) = 0
  <2>1. UNCHANGED <<task, emitted>>
    BY <1>3 DEF EnvelopeRead
  <2>2. EnvelopeTypes'
    BY <1>1, <2>1 DEF SignalInv, EnvelopeTypes
  <2>3. ASSUME ~rejoined' PROVE Owes'
    <3>1. Owes
      BY <1>1, <2>3 DEF SignalInv
    <3>2. \A t \in task : t.envelope \in DOMAIN Envelopes
      BY DEF SignalInv, EnvelopeTypes
    <3>3. \A d \in DOMAIN Envelopes : d \in Nat
      BY SignalAssumption
    <3>4. /\ \A d \in DOMAIN Envelopes : d <= sent => d <= sent'
          /\ \A d \in DOMAIN Envelopes : d > sent' => d > sent
      BY <1>1, <3>3
    <3> QED BY <2>1, <3>1, <3>2, <3>4 DEF Owes
  <2> QED BY <1>2, <2>2, <2>3 DEF SignalInv
<1>4. CASE messages(e) # 0
  <2> DEFINE new == [stream : Reading, envelope : {e}, left : {messages(e) - 1}]
  <2>1. /\ task' = task \cup new
        /\ emitted' = [emitted EXCEPT ![e] = @ + Cardinality(Reading)]
    BY <1>4 DEF EnvelopeRead
  <2>2. messages(e) \in Nat \ {0}
    BY <1>1, <1>4, MessagesNat
  <2>3. Reading \subseteq Streams /\ Reading \subseteq Looping
    BY DEF Reading, Looping
  <2>4. Cardinality(Reading) \in Nat
    BY <2>3, SignalAssumption, FS_Subset, FS_CardinalityType
  <2>5. \A t \in new : t.stream \in Reading /\ t.envelope = e /\ t.left = messages(e) - 1
                       /\ t \in [stream : Streams, envelope : DOMAIN Envelopes, left : Nat]
    BY <1>1, <2>2, <2>3
  <2>6. EnvelopeTypes'
    <3>1. emitted' \in [DOMAIN Envelopes -> Nat]
      BY <1>1, <2>1, <2>4 DEF SignalInv, EnvelopeTypes
    <3> HIDE DEF new
    <3> QED BY <1>1, <2>1, <2>5, <3>1 DEF SignalInv, EnvelopeTypes
  <2>7. ASSUME ~rejoined' PROVE Owes'
    <3>1. Owes /\ ~rejoined /\ \A s, r \in Reading : s = r
      BY <1>1, <2>3, <2>7 DEF SignalInv, OneLoop
    <3>2. Cardinality(Reading) <= 1
      <4>1. CASE Reading = {}
        BY <4>1, FS_EmptySet
      <4>2. ASSUME NEW s \in Reading PROVE Cardinality(Reading) <= 1
        <5>1. Reading = {s}
          BY <3>1
        <5> QED BY <5>1, FS_Singleton
      <4> QED BY <4>1, <4>2
    <3>3. \A t, u \in new : t = u
      BY <3>1
    <3> HIDE DEF new
    <3>4. \A t \in task : t.envelope \in DOMAIN Envelopes /\ t.envelope <= sent /\ t.envelope # e
      BY <1>1, <3>1, SignalAssumption DEF SignalInv, EnvelopeTypes, Owes
    <3>5. /\ emitted'[e] = emitted[e] + Cardinality(Reading)
          /\ \A d \in DOMAIN Envelopes : d # e => emitted'[d] = emitted[d]
      BY <1>1, <2>1 DEF SignalInv, EnvelopeTypes
    <3>6. emitted[e] = 0
      BY <1>1, <3>1 DEF Owes
    <3>7. \A t, u \in task' : t.envelope = u.envelope => t = u
      BY <2>1, <2>5, <3>1, <3>3, <3>4 DEF Owes
    <3>8. ASSUME NEW t \in task'
          PROVE  t.envelope <= sent' /\ emitted'[t.envelope] + t.left <= messages(t.envelope)
      <4>1. CASE t \in task
        BY <1>1, <3>1, <3>4, <3>5, <4>1, SignalAssumption DEF Owes
      <4>2. CASE t \in new
        BY <1>1, <2>2, <2>4, <2>5, <3>2, <3>5, <3>6, <4>2
      <4> QED BY <2>1, <4>1, <4>2
    <3>9. ASSUME NEW d \in DOMAIN Envelopes
          PROVE  emitted'[d] <= messages(d) /\ (d > sent' => emitted'[d] = 0)
      <4>1. d \in Nat
        BY SignalAssumption
      <4>2. CASE d = e
        BY <1>1, <2>2, <2>4, <3>2, <3>5, <3>6, <4>2
      <4>3. CASE d # e
        BY <1>1, <3>1, <3>5, <4>1, <4>3 DEF Owes
      <4> QED BY <4>2, <4>3
    <3> QED BY <3>7, <3>8, <3>9 DEF Owes
  <2> QED BY <1>2, <2>6, <2>7 DEF SignalInv
<1> QED BY <1>3, <1>4

\* A task that goes on owes one message less.
LEMMA EmitsOwed == ASSUME SignalInv, NEW t \in task, EmitReturns(t) PROVE SignalInv'
<1>1. /\ UNCHANGED <<abortController, signalConnects, rejoined, stream, sent>>
      /\ t \in [stream : Streams, envelope : DOMAIN Envelopes, left : Nat]
  BY DEF EmitReturns, Kept, SignalInv, EnvelopeTypes
<1>2. LoopTypes' /\ OneLoop'
  BY <1>1 DEF SignalInv, LoopTypes, OneLoop, Looping
<1>3. CASE t.left = 0
  <2>1. task' = task \ {t} /\ UNCHANGED emitted
    BY <1>3 DEF EmitReturns
  <2>2. EnvelopeTypes'
    BY <1>1, <2>1 DEF SignalInv, EnvelopeTypes
  <2>3. ~rejoined' => Owes'
    BY <1>1, <2>1 DEF SignalInv, Owes
  <2> QED BY <1>2, <2>2, <2>3 DEF SignalInv
<1>4. CASE t.left # 0
  <2> DEFINE v == [t EXCEPT !.left = @ - 1]
  <2>1. /\ task' = (task \ {t}) \cup {v}
        /\ emitted' = [emitted EXCEPT ![t.envelope] = @ + 1]
    BY <1>4 DEF EmitReturns
  <2>2. /\ v \in [stream : Streams, envelope : DOMAIN Envelopes, left : Nat]
        /\ v.envelope = t.envelope /\ v.left = t.left - 1 /\ t.left \in Nat
        /\ t.envelope \in DOMAIN Envelopes
    BY <1>1, <1>4
  <2> HIDE DEF v
  <2>3. /\ emitted'[t.envelope] = emitted[t.envelope] + 1
        /\ \A d \in DOMAIN Envelopes : d # t.envelope => emitted'[d] = emitted[d]
        /\ emitted' \in [DOMAIN Envelopes -> Nat]
    BY <2>1, <2>2 DEF SignalInv, EnvelopeTypes
  <2>4. EnvelopeTypes'
    BY <1>1, <2>1, <2>2, <2>3 DEF SignalInv, EnvelopeTypes
  <2>5. ASSUME ~rejoined' PROVE Owes'
    <3>1. Owes
      BY <1>1, <2>5 DEF SignalInv
    <3>2. /\ emitted[t.envelope] + t.left <= messages(t.envelope)
          /\ t.envelope <= sent /\ t.envelope \in Nat /\ sent \in Nat
          /\ emitted[t.envelope] \in Nat /\ messages(t.envelope) \in Nat
      BY <2>2, <3>1, MessagesNat, SignalAssumption DEF Owes, SignalInv, EnvelopeTypes
    <3>3. \A u \in task : u # t => u.envelope # t.envelope
      BY <3>1 DEF Owes
    <3>4. \A u, w \in task' : u.envelope = w.envelope => u = w
      BY <2>1, <2>2, <3>1, <3>3 DEF Owes
    <3>5. ASSUME NEW u \in task'
          PROVE  u.envelope <= sent' /\ emitted'[u.envelope] + u.left <= messages(u.envelope)
      <4>1. CASE u = v
        BY <1>1, <2>2, <2>3, <3>2, <4>1
      <4>2. CASE u \in task /\ u # t
        <5>1. u.envelope \in DOMAIN Envelopes
          BY <4>2 DEF SignalInv, EnvelopeTypes
        <5> QED BY <1>1, <2>3, <3>1, <3>3, <4>2, <5>1 DEF Owes
      <4> QED BY <2>1, <4>1, <4>2
    <3>6. ASSUME NEW d \in DOMAIN Envelopes
          PROVE  emitted'[d] <= messages(d) /\ (d > sent' => emitted'[d] = 0)
      <4>1. CASE d = t.envelope
        BY <1>1, <1>4, <2>2, <2>3, <3>2, <4>1
      <4>2. CASE d # t.envelope
        BY <1>1, <2>3, <3>1, <4>2 DEF Owes
      <4> QED BY <4>1, <4>2
    <3> QED BY <3>4, <3>5, <3>6 DEF Owes
  <2> QED BY <1>2, <2>4, <2>5 DEF SignalInv
<1> QED BY <1>3, <1>4

LEMMA SignalSteps == ASSUME SignalInv, [SignalNext]_signalVars PROVE SignalInv'
<1>1. ASSUME UNCHANGED <<stream, rejoined, sent, task, emitted>>,
             abortController' \in Nat, signalConnects' \in Nat
      PROVE  SignalInv'
  BY <1>1 DEF SignalInv, LoopTypes, OneLoop, Looping, EnvelopeTypes, Owes
<1>2. abortController \in Nat /\ signalConnects \in Nat
  BY DEF SignalInv, LoopTypes
<1>3. CASE \/ ConnectSignal \/ ConnectSignalFails \/ DisconnectSignal \/ SyncSettles
           \/ UNCHANGED signalVars
  BY <1>1, <1>2, <1>3 DEF ConnectSignal, ConnectSignalFails, DisconnectSignal, SyncSettles,
     signalVars, signalData, Kept
<1>4. ASSUME NEW s \in Streams, ConnectedSignal(s) PROVE SignalInv'
  <2>1. /\ stream' = [stream EXCEPT ![s] = [pc |-> "top", signal |-> 0]]
        /\ rejoined' = (rejoined \/ Looping # {}) /\ abortController' = signalConnects
        /\ UNCHANGED <<signalConnects, sent, task, emitted>>
    BY <1>4 DEF ConnectedSignal
  <2>2. LoopTypes'
    BY <1>2, <2>1 DEF SignalInv, LoopTypes, LoopPcs
  <2>3. Looping' \subseteq Looping \cup {s}
    BY <2>1 DEF SignalInv, LoopTypes, Looping
  <2>4. OneLoop'
    BY <2>1, <2>3 DEF OneLoop
  <2>5. EnvelopeTypes' /\ (~rejoined' => Owes')
    BY <2>1 DEF SignalInv, EnvelopeTypes, Owes
  <2> QED BY <2>2, <2>4, <2>5 DEF SignalInv
<1> QED BY <1>3, <1>4, StreamSteps, ReadsOnce, EmitsOwed DEF SignalNext

(* For any number of envelopes, breaks and reconnects: as long as no       *)
(* connect() found a loop of an earlier connection alive, the handler is   *)
(* called for an envelope no more often than it has messages, whatever     *)
(* becomes of the stream (signal.ts, startEventStream, handleSseEvent).    *)
THEOREM DeliveredOnceUnlessRejoined == SignalSpec => []DoubledOnlyByReconnect
<1>1. SignalInv => DoubledOnlyByReconnect
  <2> SUFFICES ASSUME SignalInv, ~rejoined, NEW e \in DOMAIN Envelopes
               PROVE  ~(emitted[e] > messages(e))
    BY DEF DoubledOnlyByReconnect, SignalInv, LoopTypes
  <2>1. emitted[e] <= messages(e) /\ emitted[e] \in Nat /\ messages(e) \in Nat
    BY MessagesNat DEF SignalInv, EnvelopeTypes, Owes
  <2> QED BY <2>1
<1> QED BY <1>1, SignalStart, SignalSteps, PTL DEF SignalSpec

(* While the adapter is connected a loop reads the stream or is on its way *)
(* back to it: whichever of disconnect(), a reconnect, an ended stream and *)
(* a failed request come in whatever order, the loop that ends is one that *)
(* found the adapter disconnected (startEventStream).                      *)
SomebodyReads ==
  /\ abortController # 0 => Looping # {}
  /\ connecting => abortController = 0

LEMMA ReadsNext ==
  ASSUME SignalInv, SomebodyReads, [SignalNext]_signalVars
  PROVE  SomebodyReads'
<1>0. stream \in [Streams -> [pc : LoopPcs, signal : Nat]]
  BY DEF SignalInv, LoopTypes
<1>1. CASE \/ ConnectSignal \/ ConnectSignalFails \/ DisconnectSignal \/ SyncSettles
           \/ EnvelopeRead \/ (\E t \in task : EmitReturns(t)) \/ UNCHANGED signalVars
  BY <1>1 DEF ConnectSignal, ConnectSignalFails, DisconnectSignal, SyncSettles, EnvelopeRead,
     EmitReturns, signalVars, Kept, SomebodyReads, Looping
<1>2. ASSUME NEW s \in Streams, ConnectedSignal(s) PROVE SomebodyReads'
  BY <1>0, <1>2 DEF ConnectedSignal, SomebodyReads, Looping
<1>3. ASSUME NEW s \in Streams, StreamStep(s) PROVE SomebodyReads'
  <2>1. UNCHANGED <<abortController, connecting>>
    BY <1>3 DEF StreamStep, Fetch, FetchAnswers, EventStreamEnds, StreamFails, StreamAwakes, Kept
  <2>2. abortController # 0 => stream'[s].pc # "idle"
    BY <1>0, <1>3 DEF StreamStep, Fetch, FetchAnswers, EventStreamEnds, StreamFails,
       StreamAwakes, Turn
  <2> QED BY <2>1, <2>2 DEF SomebodyReads, Looping
<1> QED BY <1>1, <1>2, <1>3 DEF SignalNext

\* For any loops, reconnects and failing streams, a connected adapter has a loop
\* that reads the stream or comes back to it.
THEOREM ConnectedReads == SignalSpec => []SomebodyReads
<1>1. SignalInit => SignalInv /\ SomebodyReads
  BY SignalStart DEF SignalInit, SomebodyReads
<1>2. SignalInv /\ SomebodyReads /\ [SignalNext]_signalVars => (SignalInv /\ SomebodyReads)'
  BY SignalSteps, ReadsNext
<1> QED BY <1>1, <1>2, PTL DEF SignalSpec

-----------------------------------------------------------------------------
(* Webchat: a chat without an answer has its resolver.                     *)

ChatPcs == {"new", "body", "handling", "waiting", "end"}
Resolutions == {"no", "answer", "timeout"}
Statuses == {0, 200, 400, 404, 500}
ChatRecord == [pc : ChatPcs, due : Nat, resolved : Resolutions, sends : Nat, status : Statuses]

\* What a step makes of a chat.
Turns(s, new, p, u) == new = [s EXCEPT !.pc = p, !.status = u]
Waits(s, new, p, t) == new = [s EXCEPT !.pc = p, !.due = t]
Hears(s, new, r) == new = [s EXCEPT !.sends = @ + 1, !.resolved = r]

LEMMA ChatTurns ==
  ASSUME NEW s \in ChatRecord, NEW p \in ChatPcs, NEW u \in Statuses,
         NEW new, Turns(s, new, p, u)
  PROVE  new \in ChatRecord /\ new.pc = p
<1>1. new \in ChatRecord
  BY DEF ChatRecord, Turns
<1>2. new.pc = p
  BY DEF ChatRecord, Turns
<1> QED BY <1>1, <1>2

LEMMA ChatWaits ==
  ASSUME NEW s \in ChatRecord, NEW p \in ChatPcs, NEW t \in Nat,
         NEW new, Waits(s, new, p, t)
  PROVE  new \in ChatRecord /\ new.pc = p /\ new.resolved = s.resolved
<1>1. new \in ChatRecord
  BY DEF ChatRecord, Waits
<1>2. new.pc = p /\ new.resolved = s.resolved
  BY DEF ChatRecord, Waits
<1> QED BY <1>1, <1>2

LEMMA ChatHears ==
  ASSUME NEW s \in ChatRecord, NEW r \in Resolutions,
         NEW new, Hears(s, new, r)
  PROVE  new \in ChatRecord /\ new.pc = s.pc /\ new.resolved = r
<1>1. new \in ChatRecord
  <2>1. s.sends + 1 \in Nat
    BY DEF ChatRecord, Hears
  <2> QED BY <2>1 DEF ChatRecord, Hears
<1>2. new.pc = s.pc /\ new.resolved = r
  BY DEF ChatRecord, Hears
<1> QED BY <1>1, <1>2

\* The state s of a chat, which has a resolver or not.
ResolverFits(s, registered) ==
  /\ registered => s.pc \in {"handling", "waiting"}
  /\ s.pc \in {"handling", "waiting"} => (registered <=> s.resolved = "no")
  /\ s.pc \in {"new", "body"} => s.resolved = "no"

ChatInv ==
  /\ clock \in Nat
  /\ pendingResponses \subseteq Chats
  /\ chat \in [Chats -> ChatRecord]
  /\ \A c \in Chats : ResolverFits(chat[c], c \in pendingResponses)

LEMMA ChatStart == ChatInit => ChatInv
<1>1. /\ NewChat \in ChatRecord /\ NewChat.pc = "new" /\ NewChat.resolved = "no"
  BY DEF NewChat, ChatRecord, ChatPcs, Resolutions, Statuses
<1> QED BY <1>1 DEF ChatInit, ChatInv, ResolverFits

\* A step of one request changes only its own state and resolver.
LEMMA ChatMoves ==
  ASSUME ChatInv, NEW c \in Chats, NEW s \in ChatRecord, chat' = [chat EXCEPT ![c] = s],
         NEW P, P \in {pendingResponses, pendingResponses \cup {c}, pendingResponses \ {c}},
         pendingResponses' = P, ResolverFits(s, c \in P), clock' \in Nat
  PROVE  ChatInv'
<1>1. chat' \in [Chats -> ChatRecord] /\ chat'[c] = s
  BY DEF ChatInv
<1>2. \A d \in Chats : d # c => chat'[d] = chat[d] /\ (d \in P <=> d \in pendingResponses)
  BY DEF ChatInv
<1>3. \A d \in Chats : ResolverFits(chat'[d], d \in P)
  <2> SUFFICES ASSUME NEW d \in Chats PROVE ResolverFits(chat'[d], d \in P)
    OBVIOUS
  <2>1. CASE d = c
    BY <1>1, <2>1
  <2>2. CASE d # c
    BY <1>2, <2>2 DEF ChatInv, ResolverFits
  <2> QED BY <2>1, <2>2
<1>4. P \subseteq Chats
  BY DEF ChatInv
<1> QED BY <1>1, <1>3, <1>4 DEF ChatInv

LEMMA ChatSteps ==
  ASSUME ChatInv, NEW c \in Chats,
         \/ OtherRequest(c) \/ ChatRequest(c) \/ BodyRefused(c) \/ Accepted(c) \/ sendText(c)
         \/ TimedOut(c) \/ HandlerResolves(c) \/ HandlerRejects(c) \/ Respond(c)
  PROVE  ChatInv'
<1>0. chat[c] \in ChatRecord /\ clock \in Nat /\ ResolverFits(chat[c], c \in pendingResponses)
      /\ chat \in [Chats -> ChatRecord]
  BY DEF ChatInv
<1>1. CASE OtherRequest(c)
  <2> DEFINE s == [chat[c] EXCEPT !.pc = "end", !.status = 404]
  <2>1. /\ chat' = [chat EXCEPT ![c] = s]
        /\ pendingResponses' = pendingResponses /\ clock' = clock
    <3>1. chat' = [chat EXCEPT ![c].pc = "end", ![c].status = 404]
      BY <1>1 DEF OtherRequest
    <3>2. chat' = [d \in Chats |-> IF d = c THEN s ELSE chat[d]]
      BY <1>0, <3>1
    <3>3. chat' = [chat EXCEPT ![c] = s]
      BY <1>0, <3>2
    <3> QED BY <1>1, <3>3 DEF OtherRequest
  <2>2. "end" \in ChatPcs /\ 404 \in Statuses /\ c \notin pendingResponses
    BY <1>0, <1>1 DEF OtherRequest, ChatPcs, Statuses, ResolverFits
  <2>3. Turns(chat[c], s, "end", 404)
    BY DEF Turns
  <2> HIDE DEF s
  <2>4. s \in ChatRecord /\ s.pc = "end"
    BY <1>0, <2>2, <2>3, ChatTurns
  <2> QED BY <1>0, <2>1, <2>2, <2>4, ChatMoves DEF ResolverFits
<1>2. CASE ChatRequest(c)
  <2> DEFINE s == [chat[c] EXCEPT !.pc = "body"]
  <2>1. chat' = [chat EXCEPT ![c] = s] /\ pendingResponses' = pendingResponses /\ clock' = clock
    BY <1>0, <1>2 DEF ChatRequest
  <2>2. s \in ChatRecord /\ ResolverFits(s, c \in pendingResponses)
    BY <1>0, <1>2 DEF ChatRequest, ChatRecord, ChatPcs, ResolverFits
  <2> HIDE DEF s
  <2> QED BY <1>0, <2>1, <2>2, ChatMoves
<1>3. CASE BodyRefused(c)
  <2> DEFINE s == [chat[c] EXCEPT !.pc = "end", !.status = 400]
  <2>1. /\ chat' = [chat EXCEPT ![c] = s]
        /\ pendingResponses' = pendingResponses /\ clock' = clock
    <3>1. chat' = [chat EXCEPT ![c].pc = "end", ![c].status = 400]
      BY <1>3 DEF BodyRefused
    <3>2. chat' = [d \in Chats |-> IF d = c THEN s ELSE chat[d]]
      BY <1>0, <3>1
    <3>3. chat' = [chat EXCEPT ![c] = s]
      BY <1>0, <3>2
    <3> QED BY <1>3, <3>3 DEF BodyRefused
  <2>2. "end" \in ChatPcs /\ 400 \in Statuses /\ c \notin pendingResponses
    BY <1>0, <1>3 DEF BodyRefused, ChatPcs, Statuses, ResolverFits
  <2>3. Turns(chat[c], s, "end", 400)
    BY DEF Turns
  <2> HIDE DEF s
  <2>4. s \in ChatRecord /\ s.pc = "end"
    BY <1>0, <2>2, <2>3, ChatTurns
  <2> QED BY <1>0, <2>1, <2>2, <2>4, ChatMoves DEF ResolverFits
<1>4. CASE Accepted(c)
  <2> DEFINE s == [chat[c] EXCEPT !.pc = "handling", !.due = clock + ChatTimeout]
             P == pendingResponses \cup {c}
  <2>1. chat' = [chat EXCEPT ![c] = s] /\ pendingResponses' = P /\ clock' = clock
    BY <1>0, <1>4 DEF Accepted
  <2>2. s \in ChatRecord /\ s.pc = "handling" /\ s.resolved = "no" /\ c \in P
    <3>1. clock + ChatTimeout \in Nat /\ chat[c].resolved = "no"
      BY <1>0, <1>4, ChatAssumption DEF Accepted, ResolverFits
    <3>2. "handling" \in ChatPcs /\ c \in P
      BY DEF ChatPcs
    <3>3. Waits(chat[c], s, "handling", clock + ChatTimeout)
      BY DEF Waits
    <3> HIDE DEF s, P
    <3> QED BY <1>0, <3>1, <3>2, <3>3, ChatWaits
  <2> HIDE DEF s, P
  <2>3. ResolverFits(s, c \in P)
    BY <2>2 DEF ResolverFits
  <2> QED BY <1>0, <2>1, <2>2, <2>3, ChatMoves DEF P
<1>5. CASE sendText(c)
  <2> DEFINE s == [chat[c] EXCEPT !.sends = @ + 1,
                                  !.resolved = IF c \in pendingResponses THEN "answer" ELSE @]
             P == pendingResponses \ {c}
  <2>1. chat' = [chat EXCEPT ![c] = s] /\ pendingResponses' = P /\ clock' = clock
    BY <1>0, <1>5 DEF sendText
  <2>2. /\ s \in ChatRecord /\ s.pc = chat[c].pc /\ c \notin P
        /\ s.resolved = IF c \in pendingResponses THEN "answer" ELSE chat[c].resolved
    <3> DEFINE r == IF c \in pendingResponses THEN "answer" ELSE chat[c].resolved
    <3>1. r \in Resolutions
      BY <1>0 DEF ChatRecord, Resolutions
    <3>2. Hears(chat[c], s, r)
      BY DEF Hears
    <3> HIDE DEF r, s
    <3>3. s \in ChatRecord /\ s.pc = chat[c].pc /\ s.resolved = r
      BY <1>0, <3>1, <3>2, ChatHears
    <3> QED BY <3>3 DEF r
  <2>3. s.pc \in {"handling", "waiting"}
    BY <1>5, <2>2 DEF sendText
  <2> HIDE DEF s, P
  <2>4. ResolverFits(s, c \in P)
    BY <1>0, <2>2, <2>3 DEF ResolverFits
  <2> QED BY <1>0, <2>1, <2>2, <2>4, ChatMoves DEF P
<1>6. CASE TimedOut(c)
  <2> DEFINE s == [chat[c] EXCEPT !.resolved = "timeout"]
             P == pendingResponses \ {c}
  <2>1. chat' = [chat EXCEPT ![c] = s] /\ pendingResponses' = P /\ clock' = clock
    BY <1>0, <1>6 DEF TimedOut
  <2>2. s \in ChatRecord /\ s.pc = chat[c].pc /\ c \notin P /\ s.resolved = "timeout"
    BY <1>0 DEF ChatRecord, Resolutions
  <2>3. s.pc \in {"handling", "waiting"}
    BY <1>0, <1>6, <2>2 DEF TimedOut, ResolverFits
  <2> HIDE DEF s, P
  <2>4. ResolverFits(s, c \in P)
    BY <2>2, <2>3 DEF ResolverFits
  <2> QED BY <1>0, <2>1, <2>2, <2>4, ChatMoves DEF P
<1>7. CASE HandlerResolves(c)
  <2> DEFINE s == [chat[c] EXCEPT !.pc = "waiting"]
  <2>1. chat' = [chat EXCEPT ![c] = s] /\ pendingResponses' = pendingResponses /\ clock' = clock
    BY <1>0, <1>7 DEF HandlerResolves
  <2>2. s \in ChatRecord /\ ResolverFits(s, c \in pendingResponses)
    BY <1>0, <1>7 DEF HandlerResolves, ChatRecord, ChatPcs, ResolverFits
  <2> HIDE DEF s
  <2> QED BY <1>0, <2>1, <2>2, ChatMoves
<1>8. CASE HandlerRejects(c)
  <2> DEFINE s == [chat[c] EXCEPT !.pc = "end", !.status = 500]
             P == pendingResponses \ {c}
  <2>1. chat' = [chat EXCEPT ![c] = s]
    <3>1. chat' = [chat EXCEPT ![c].pc = "end", ![c].status = 500]
      BY <1>8 DEF HandlerRejects
    <3>2. chat' = [d \in Chats |-> IF d = c THEN s ELSE chat[d]]
      BY <1>0, <3>1
    <3> QED BY <1>0, <3>2
  <2>2. pendingResponses' = P /\ clock' = clock
    BY <1>8 DEF HandlerRejects
  <2>3. "end" \in ChatPcs /\ 500 \in Statuses /\ c \notin P
    BY DEF ChatPcs, Statuses
  <2>4. Turns(chat[c], s, "end", 500)
    BY DEF Turns
  <2> HIDE DEF s, P
  <2>5. s \in ChatRecord /\ s.pc = "end"
    BY <1>0, <2>3, <2>4, ChatTurns
  <2>6. ResolverFits(s, c \in P)
    BY <2>3, <2>5 DEF ResolverFits
  <2> QED BY <1>0, <2>1, <2>2, <2>5, <2>6, ChatMoves DEF P
<1>9. CASE Respond(c)
  <2> DEFINE s == [chat[c] EXCEPT !.pc = "end", !.status = 200]
  <2>1. /\ chat' = [chat EXCEPT ![c] = s]
        /\ pendingResponses' = pendingResponses /\ clock' = clock
    <3>1. chat' = [chat EXCEPT ![c].pc = "end", ![c].status = 200]
      BY <1>9 DEF Respond
    <3>2. chat' = [d \in Chats |-> IF d = c THEN s ELSE chat[d]]
      BY <1>0, <3>1
    <3>3. chat' = [chat EXCEPT ![c] = s]
      BY <1>0, <3>2
    <3> QED BY <1>9, <3>3 DEF Respond
  <2>2. "end" \in ChatPcs /\ 200 \in Statuses /\ c \notin pendingResponses
    BY <1>0, <1>9 DEF Respond, ChatPcs, Statuses, ResolverFits
  <2>3. Turns(chat[c], s, "end", 200)
    BY DEF Turns
  <2> HIDE DEF s
  <2>4. s \in ChatRecord /\ s.pc = "end"
    BY <1>0, <2>2, <2>3, ChatTurns
  <2> QED BY <1>0, <2>1, <2>2, <2>4, ChatMoves DEF ResolverFits
<1> QED BY <1>1, <1>2, <1>3, <1>4, <1>5, <1>6, <1>7, <1>8, <1>9

LEMMA ChatNextKeeps == ASSUME ChatInv, [ChatNext]_chatVars PROVE ChatInv'
<1>1. CASE ConnectChat \/ DisconnectChat \/ ServerClosed \/ ChatTick \/ UNCHANGED chatVars
  BY <1>1 DEF ChatInv, ConnectChat, DisconnectChat, ServerClosed, ChatTick, chatVars
<1>2. ASSUME NEW c \in Chats, BodyAborted(c) PROVE ChatInv'
  <2>1. /\ pendingResponses' = {} /\ clock' = clock
        /\ chat' = [d \in Chats |-> [chat[d] EXCEPT !.pc = "end"]]
    BY <1>2 DEF BodyAborted
  <2>2. \A d \in Chats : chat'[d] \in ChatRecord /\ chat'[d].pc = "end"
    <3> SUFFICES ASSUME NEW d \in Chats PROVE chat'[d] \in ChatRecord /\ chat'[d].pc = "end"
      OBVIOUS
    <3>1. chat[d] \in ChatRecord /\ chat'[d] = [chat[d] EXCEPT !.pc = "end"]
      BY <2>1 DEF ChatInv
    <3> QED BY <3>1 DEF ChatRecord, ChatPcs
  <2>3. chat' \in [Chats -> ChatRecord]
    BY <2>1, <2>2
  <2> QED BY <2>1, <2>2, <2>3 DEF ChatInv, ResolverFits
<1> QED BY <1>1, <1>2, ChatSteps DEF ChatNext

(* For any number of requests and texts, and whatever comes first: until   *)
(* it is answered a request keeps its resolver, and it is resolved by the  *)
(* bot's first text or by the timer, never by both (webchat.ts,            *)
(* handleChatRequest, sendText).                                           *)
THEOREM ChatsResolvedOnce == ChatSpec => []ResolvedOnce
<1>1. ChatInv => ResolvedOnce
  BY DEF ChatInv, ResolverFits, ResolvedOnce
<1> QED BY <1>1, ChatStart, ChatNextKeeps, PTL DEF ChatSpec
=============================================================================
