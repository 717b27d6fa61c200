------------------------- MODULE WhatsAppConnection -------------------------
(***************************************************************************)
(* WhatsAppAdapter: how one linked account is kept connected.  connect()   *)
(* makes a socket; when the socket closes, the handler of its events       *)
(* checks the SOCKS proxy, waits for the proxy or for a backoff, and calls *)
(* connect() again.  One member of Conns is one call of connect() with its *)
(* socket and the timers that follow it; when these are used up the name   *)
(* is free again.                                                          *)
(*                                                                         *)
(* disconnect() aborts the controller and forgets it in the same step, so  *)
(* that this.abortController?.signal.aborted is never true: the two tests  *)
(* of it have no effect and no action here.                                *)
(***************************************************************************)
EXTENDS Integers

CONSTANTS
  Conns,
  none,                        \* no socket
  INITIAL_RECONNECT_DELAY_MS,
  MAX_RECONNECT_DELAY_MS,
  MaxAttempts                  \* reconnectAttempts is not counted beyond it

ASSUME ConnectionAssumption ==
  /\ none \notin Conns
  /\ INITIAL_RECONNECT_DELAY_MS \in Nat /\ MAX_RECONNECT_DELAY_MS \in Nat
  /\ MaxAttempts \in Nat

VARIABLES
  process,             \* "starting", "up", "stopping" or "down"
  proxyUrl,            \* TRUE when a SOCKS proxy is configured
  stage,               \* where each connection is
  sock,                \* the last socket made and not given up, open or not
  connected,
  reconnectAttempts,
  proxyReachable,
  delay                \* of the backoff timer, 0 without one

adapterVars == <<sock, connected, reconnectAttempts, proxyReachable, delay>>

whatsappVars == <<process, proxyUrl, stage, adapterVars>>

Sockets == {"opening", "open", "closing"}
Retrying == {"probing", "waiting", "reprobing", "backoff"}
Live == {"starting", "connecting"} \cup Sockets \cup Retrying

Alive == process \in {"up", "stopping"}

-----------------------------------------------------------------------------
WhatsAppInit ==
  /\ process = "starting"
  /\ proxyUrl \in BOOLEAN
  /\ stage = [c \in Conns |-> "free"]
  /\ sock = none
  /\ connected = FALSE
  /\ reconnectAttempts = 0
  /\ proxyReachable = TRUE
  /\ delay = [c \in Conns |-> 0]

\* Gateway.start calls connect() once.
Start ==
  /\ process = "starting"
  /\ process' = "up"
  /\ \E c \in Conns : stage' = [stage EXCEPT ![c] = "starting"]
  /\ UNCHANGED <<proxyUrl, adapterVars>>

\* A timer of c was its last, and calls connect().
connectAfter(c) ==
  \E d \in Conns :
    /\ stage[d] = "free" \/ d = c
    /\ stage' = [stage EXCEPT ![c] = "free", ![d] = "connecting"]

\* The awaits of connect() are over: the socket exists and begins to open.
SocketMade(c) ==
  /\ Alive
  /\ stage[c] \in {"starting", "connecting"}
  /\ stage' = [stage EXCEPT ![c] = "opening"]
  /\ sock' = c
  /\ UNCHANGED <<process, proxyUrl, connected, reconnectAttempts, proxyReachable, delay>>

\* The first connect() rejects: the gateway raises an alert, and nobody tries again.
StartFails(c) ==
  /\ Alive
  /\ stage[c] = "starting"
  /\ stage' = [stage EXCEPT ![c] = "ended"]
  /\ UNCHANGED <<process, proxyUrl, adapterVars>>

\* A later connect() rejects: nobody handles that, and Node ends the process.
ReconnectFails(c) ==
  /\ Alive
  /\ stage[c] = "connecting"
  /\ process' = "down"
  /\ UNCHANGED <<proxyUrl, stage, adapterVars>>

Opened(c) ==
  /\ Alive
  /\ stage[c] = "opening"
  /\ stage' = [stage EXCEPT ![c] = "open"]
  /\ connected' = TRUE
  /\ reconnectAttempts' = 0
  /\ proxyReachable' = TRUE
  /\ UNCHANGED <<process, proxyUrl, sock, delay>>

\* The delay of reconnectWithProxyCheck after this many attempts.
Backoff(attempts) ==
  LET capped == IF attempts <= 6 THEN attempts ELSE 6
      exponential == INITIAL_RECONNECT_DELAY_MS * 2 ^ capped
  IN  IF exponential <= MAX_RECONNECT_DELAY_MS THEN exponential ELSE MAX_RECONNECT_DELAY_MS

attempted == IF reconnectAttempts < MaxAttempts THEN reconnectAttempts + 1 ELSE MaxAttempts

\* Faulty: connected is left as it was.
ClosedStillConnected(c) ==
  /\ Alive
  /\ stage[c] \in Sockets
  /\ UNCHANGED connected
  /\ reconnectAttempts' = attempted
  /\ IF proxyUrl
     THEN stage' = [stage EXCEPT ![c] = "probing"] /\ UNCHANGED delay
     ELSE /\ stage' = [stage EXCEPT ![c] = "backoff"]
          /\ delay' = [delay EXCEPT ![c] = Backoff(attempted)]
  /\ UNCHANGED <<process, proxyUrl, sock, proxyReachable>>

\* The socket closes for any reason but a logout, disconnect() included.
Closed(c) ==
  /\ Alive
  /\ stage[c] \in Sockets
  /\ connected' = FALSE
  /\ reconnectAttempts' = attempted
  /\ IF proxyUrl
     THEN stage' = [stage EXCEPT ![c] = "probing"] /\ UNCHANGED delay
     ELSE /\ stage' = [stage EXCEPT ![c] = "backoff"]
          /\ delay' = [delay EXCEPT ![c] = Backoff(attempted)]
  /\ UNCHANGED <<process, proxyUrl, sock, proxyReachable>>

\* The phone has unlinked this device: it must be paired again.
LoggedOut(c) ==
  /\ Alive
  /\ stage[c] \in {"opening", "open"}
  /\ connected' = FALSE
  /\ stage' = [stage EXCEPT ![c] = "ended"]
  /\ UNCHANGED <<process, proxyUrl, sock, reconnectAttempts, proxyReachable, delay>>

-----------------------------------------------------------------------------
(* reconnectWithProxyCheck.                                                *)

ProxyUp(c) ==
  /\ Alive
  /\ stage[c] = "probing"
  /\ proxyReachable' = TRUE
  /\ stage' = [stage EXCEPT ![c] = "backoff"]
  /\ delay' = [delay EXCEPT ![c] = Backoff(reconnectAttempts)]
  /\ UNCHANGED <<process, proxyUrl, sock, connected, reconnectAttempts>>

\* Faulty: the adapter gives up instead of waiting for the proxy.
ProxyDownGivesUp(c) ==
  /\ Alive
  /\ stage[c] = "probing"
  /\ proxyReachable' = FALSE
  /\ stage' = [stage EXCEPT ![c] = "free"]
  /\ UNCHANGED <<process, proxyUrl, sock, connected, reconnectAttempts, delay>>

ProxyDown(c) ==
  /\ Alive
  /\ stage[c] = "probing"
  /\ proxyReachable' = FALSE
  /\ stage' = [stage EXCEPT ![c] = "waiting"]
  /\ UNCHANGED <<process, proxyUrl, sock, connected, reconnectAttempts, delay>>

\* The ten-minute interval probes again; a probe ends within five seconds.
Reprobe(c) ==
  /\ Alive
  /\ stage[c] = "waiting"
  /\ stage' = [stage EXCEPT ![c] = "reprobing"]
  /\ UNCHANGED <<process, proxyUrl, adapterVars>>

StillDown(c) ==
  /\ Alive
  /\ stage[c] = "reprobing"
  /\ stage' = [stage EXCEPT ![c] = "waiting"]
  /\ UNCHANGED <<process, proxyUrl, adapterVars>>

\* Faulty: the interval goes on (no clearInterval).
RecoveredKeepsTimer(c) ==
  /\ Alive
  /\ stage[c] = "reprobing"
  /\ proxyReachable' = TRUE
  /\ reconnectAttempts' = 0
  /\ \E d \in Conns : /\ stage[d] = "free"
                      /\ stage' = [stage EXCEPT ![c] = "waiting", ![d] = "connecting"]
  /\ UNCHANGED <<process, proxyUrl, sock, connected, delay>>

Recovered(c) ==
  /\ Alive
  /\ stage[c] = "reprobing"
  /\ proxyReachable' = TRUE
  /\ reconnectAttempts' = 0
  /\ connectAfter(c)
  /\ UNCHANGED <<process, proxyUrl, sock, connected, delay>>

BackoffOver(c) ==
  /\ Alive
  /\ stage[c] = "backoff"
  /\ connectAfter(c)
  /\ delay' = [delay EXCEPT ![c] = 0]
  /\ UNCHANGED <<process, proxyUrl, sock, connected, reconnectAttempts, proxyReachable>>

-----------------------------------------------------------------------------
(* The process.                                                            *)

\* shutdown() runs on a signal, which it hears only after Gateway.start.  The
\* adapter closes its socket, whose close event comes later, and no timer.
disconnect ==
  /\ Alive
  /\ \A c \in Conns : stage[c] # "starting"
  /\ process' = "stopping"
  /\ stage' = [c \in Conns |->
                 IF c = sock /\ stage[c] \in Sockets THEN "closing" ELSE stage[c]]
  /\ sock' = none
  /\ connected' = FALSE
  /\ UNCHANGED <<proxyUrl, reconnectAttempts, proxyReachable, delay>>

\* The process ends: shutdown() is through, or it is killed.
Exit ==
  /\ Alive
  /\ process' = "down"
  /\ UNCHANGED <<proxyUrl, stage, adapterVars>>

\* systemd starts it again (Restart=always); only the credentials survive,
\* and the configuration may be another.
Restart ==
  /\ process = "down"
  /\ process' = "starting"
  /\ proxyUrl' \in BOOLEAN
  /\ stage' = [c \in Conns |-> "free"]
  /\ sock' = none
  /\ connected' = FALSE
  /\ reconnectAttempts' = 0
  /\ proxyReachable' = TRUE
  /\ delay' = [c \in Conns |-> 0]

\* The steps of the event loop and of its timers.
Served(c) ==
  \/ SocketMade(c)
  \/ ProxyUp(c)
  \/ ProxyDown(c)
  \/ Reprobe(c)
  \/ StillDown(c)
  \/ Recovered(c)
  \/ BackoffOver(c)

Event(c) == StartFails(c) \/ ReconnectFails(c) \/ Opened(c) \/ Closed(c) \/ LoggedOut(c)

WhatsAppNext ==
  \/ Start
  \/ \E c \in Conns : Served(c) \/ Event(c)
  \/ disconnect
  \/ Exit
  \/ Restart

WhatsAppSpec == WhatsAppInit /\ [][WhatsAppNext]_whatsappVars

\* Promises and timers are served; a socket that is made again and again at
\* last opens, and a proxy that is probed again and again at last answers.
WhatsAppFairness ==
  \A c \in Conns :
    /\ WF_whatsappVars(Served(c))
    /\ SF_whatsappVars(Opened(c))
    /\ SF_whatsappVars(Recovered(c))

WhatsAppFairSpec == WhatsAppSpec /\ WhatsAppFairness

-----------------------------------------------------------------------------
\* One account never has two connections, nor two attempts to connect, under
\* way: WhatsApp lets the newer replace the older, whose close event would
\* reconnect it and replace the newer, for ever.
OneConnection ==
  \A c, d \in Conns : stage[c] \in Live /\ stage[d] \in Live => c = d

\* sendText trusts `connected' and `sock': they speak of an open socket, and
\* an open socket is never one that sendText does not use.
SendsUseOpenSocket ==
  \A c \in Conns : stage[c] = "open" <=> connected /\ sock = c

\* An account that lost its connection gets it back, however long proxy and
\* network are down, unless it was logged out or the process ends.
Reconnects ==
  (\E c \in Conns : stage[c] \in Retrying) ~>
    \/ connected
    \/ process # "up"
    \/ \E c \in Conns : stage[c] = "ended"
=============================================================================
