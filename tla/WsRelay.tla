------------------------------ MODULE WsRelay ------------------------------
(***************************************************************************)
(* ws-relay.ts: the clients of the WebSocket relay, their deadline for     *)
(* authentication and the heartbeat, which keeps a timer for each ping     *)
(* beside the check at the next one.  A socket that was closed here may    *)
(* still deliver messages until its close event.  Broadcasts and           *)
(* subscriptions change nothing of this and are left out.                  *)
(***************************************************************************)
EXTENDS Integers

CONSTANTS
  Clients,
  AuthTimeout, HeartbeatInterval, PongTimeout,
  RelayMaxTime        \* time does not pass RelayMaxTime

\* 5 s, 30 s and 10 s: a ping's timer runs out before the next heartbeat.
ASSUME RelayAssumption ==
  /\ AuthTimeout \in Nat /\ HeartbeatInterval \in Nat /\ PongTimeout \in Nat
  /\ PongTimeout < HeartbeatInterval

VARIABLES
  instant,            \* time
  relay,              \* "off", "on", "stopped"
  heartbeat,          \* when the interval fires next
  client              \* [Clients -> [socket, mapped, authenticated, alive, ...]]

relayVars == <<instant, relay, heartbeat, client>>

\* authTimer and pongTimers are when they fire.  History: when it was opened, last
\* pinged, last heard (authentication or a pong), and whether closed for silence.
Fresh == [socket |-> "new", mapped |-> FALSE, authenticated |-> FALSE, alive |-> TRUE,
          authTimer |-> {}, pongTimers |-> {},
          opened |-> 0, pinged |-> 0, heard |-> 0, lost |-> FALSE]

RelayInit ==
  /\ instant = 0 /\ relay = "off" /\ heartbeat = 0
  /\ client = [c \in Clients |-> Fresh]

Update(c, new) == client' = [client EXCEPT ![c] = new]

\* ws.close() and clients.delete(ws).
Dropped(state) == [state EXCEPT !.socket = "closing", !.mapped = FALSE]
Lost(state) == [Dropped(state) EXCEPT !.lost = TRUE]

-----------------------------------------------------------------------------
start ==
  /\ relay = "off"
  /\ relay' = "on" /\ heartbeat' = instant + HeartbeatInterval
  /\ UNCHANGED <<instant, client>>

\* The interval ends; timers of single pings are left to run out.
stop ==
  /\ relay = "on"
  /\ relay' = "stopped"
  /\ client' = [c \in Clients |->
                  IF client[c].mapped THEN [Dropped(client[c]) EXCEPT !.authTimer = {}]
                  ELSE client[c]]
  /\ UNCHANGED <<instant, heartbeat>>

handleConnection(c) ==
  /\ relay = "on" /\ client[c].socket = "new"
  /\ Update(c, [Fresh EXCEPT !.socket = "open", !.mapped = TRUE, !.opened = instant,
                             !.authTimer = {instant + AuthTimeout}])
  /\ UNCHANGED <<instant, relay, heartbeat>>

Listens(c) == client[c].socket \in {"open", "closing"}

handleAuth(c, match) ==
  /\ Listens(c)
  /\ Update(c, IF match
               THEN [client[c] EXCEPT !.authenticated = TRUE, !.authTimer = {},
                                      !.heard = IF client[c].authenticated THEN @ ELSE instant]
               ELSE Dropped(client[c]))
  /\ UNCHANGED <<instant, relay, heartbeat>>

\* A pong frame, or a message of type pong.
Pong(c) ==
  /\ Listens(c)
  /\ Update(c, [client[c] EXCEPT !.alive = TRUE, !.heard = instant])
  /\ UNCHANGED <<instant, relay, heartbeat>>

CloseEvent(c) ==
  /\ Listens(c)
  /\ Update(c, [client[c] EXCEPT !.socket = "closed", !.mapped = FALSE, !.authTimer = {}])
  /\ UNCHANGED <<instant, relay, heartbeat>>

\* The socket closes itself after an error; its timers are not cleared yet.
ErrorEvent(c) ==
  /\ Listens(c)
  /\ Update(c, [client[c] EXCEPT !.socket = "closing", !.mapped = FALSE])
  /\ UNCHANGED <<instant, relay, heartbeat>>

AuthTimerFires(c) ==
  /\ instant \in client[c].authTimer
  /\ LET fired == [client[c] EXCEPT !.authTimer = {}]
     IN Update(c, IF fired.authenticated THEN fired ELSE Dropped(fired))
  /\ UNCHANGED <<instant, relay, heartbeat>>

\* Faulty: the flag of the ping before is not looked at, and never reset.
BeatsUnasked(state) ==
  IF ~(state.mapped /\ state.authenticated) THEN state
  ELSE [state EXCEPT !.pinged = instant, !.pongTimers = @ \cup {instant + PongTimeout}]

\* One turn of the interval over the clients that are authenticated.
Beats(state) ==
  CASE ~(state.mapped /\ state.authenticated) -> state
    [] state.mapped /\ state.authenticated /\ ~state.alive -> Lost(state)
    [] OTHER -> [state EXCEPT !.alive = FALSE, !.pinged = instant,
                              !.pongTimers = @ \cup {instant + PongTimeout}]

HeartbeatFires ==
  /\ relay = "on" /\ heartbeat = instant
  /\ heartbeat' = instant + HeartbeatInterval
  /\ client' = [c \in Clients |-> Beats(client[c])]
  /\ UNCHANGED <<instant, relay>>

\* Faulty: the timer of a ping closes the socket also when a pong came.
PongTimerFiresAlways(c) ==
  /\ instant \in client[c].pongTimers
  /\ LET fired == [client[c] EXCEPT !.pongTimers = @ \ {instant}]
     IN Update(c, IF fired.mapped THEN Lost(fired) ELSE fired)
  /\ UNCHANGED <<instant, relay, heartbeat>>

PongTimerFires(c) ==
  /\ instant \in client[c].pongTimers
  /\ LET fired == [client[c] EXCEPT !.pongTimers = @ \ {instant}]
     IN Update(c, IF ~fired.alive /\ fired.mapped THEN Lost(fired) ELSE fired)
  /\ UNCHANGED <<instant, relay, heartbeat>>

\* Timers that are due fire before time goes on.
RelayTick ==
  /\ instant < RelayMaxTime
  /\ relay = "on" => heartbeat > instant
  /\ \A c \in Clients : instant \notin client[c].authTimer \cup client[c].pongTimers
  /\ instant' = instant + 1
  /\ UNCHANGED <<relay, heartbeat, client>>

RelayNext ==
  \/ start \/ stop \/ HeartbeatFires \/ RelayTick
  \/ \E c \in Clients :
       \/ handleConnection(c) \/ Pong(c) \/ CloseEvent(c) \/ ErrorEvent(c)
       \/ AuthTimerFires(c) \/ PongTimerFires(c)
       \/ \E match \in BOOLEAN : handleAuth(c, match)

RelaySpec == RelayInit /\ [][RelayNext]_relayVars

-----------------------------------------------------------------------------
(* The relay keeps no client that did not authenticate in time, and none   *)
(* that has been silent for a heartbeat and the timeout of its pong, also  *)
(* when authentication, errors and heartbeats fall together; and it closes *)
(* none for silence that was heard after its last ping, or that had less   *)
(* than PongTimeout to answer, whichever of the timer and the next         *)
(* heartbeat looks first (handleConnection, startHeartbeat).               *)
SilentClientsDropped ==
  \A c \in Clients : client[c].mapped =>
    IF client[c].authenticated
    THEN instant <= client[c].heard + HeartbeatInterval + PongTimeout
    ELSE instant <= client[c].opened + AuthTimeout

OnlySilentDropped ==
  /\ []SilentClientsDropped
  /\ [][\A c \in Clients : client'[c].lost /\ ~client[c].lost =>
          /\ client[c].heard <= client[c].pinged
          /\ instant >= client[c].pinged + PongTimeout]_relayVars
=============================================================================
