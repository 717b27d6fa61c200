--------------------------- MODULE TelegramPoller ---------------------------
(***************************************************************************)
(* adapters/telegram.ts: the long-polling loop that acknowledges an update *)
(* only after the handler dealt with it.  Updates are numbered in the      *)
(* order in which Telegram received them; Telegram keeps an update until a *)
(* call of getUpdates names a later offset.  The loop of a connection that *)
(* was closed may go on after the next connect, so there may be several.   *)
(***************************************************************************)
EXTENDS Integers

CONSTANTS
  Loops,              \* calls of pollLoop
  Updates,            \* how many updates are ever sent
  Poison,             \* the updates whose handling always fails
  BatchLimit,         \* updates one getUpdates returns at most
  MaxFaults           \* bounds failures, restarts and disconnects together

ASSUME TelegramAssumption ==
  /\ {Updates, BatchLimit, MaxFaults} \subseteq Nat
  /\ Poison \subseteq 1..Updates

VARIABLES
  arrived,            \* Telegram holds the updates confirmed + 1 .. arrived
  confirmed,
  bot,                \* this.bot: "none", "connecting", "ready"
  polling, pollOffset,
  loop,               \* [Loops -> [pc, next, last]]: the updates at hand
  handled,            \* the updates a handler has dealt with
  faults

telegramVars == <<arrived, confirmed, bot, polling, pollOffset, loop, handled, faults>>
telegramKept == <<arrived, confirmed, handled>>

LoopStates == [pc : {"idle", "top", "fetch", "handle", "sleep"},
               next : 0..Updates + 1, last : 0..Updates]
Idle == [pc |-> "idle", next |-> 0, last |-> 0]
Larger(a, b) == IF a > b THEN a ELSE b
Smaller(a, b) == IF a < b THEN a ELSE b

TelegramInit ==
  /\ arrived = 0 /\ confirmed = 0 /\ handled = {} /\ faults = 0
  /\ bot = "none" /\ polling = FALSE /\ pollOffset = 0
  /\ loop = [l \in Loops |-> Idle]

At(l, pc) == loop[l].pc = pc
Goto(l, pc) == loop' = [loop EXCEPT ![l].pc = pc]
MayFail == faults < MaxFaults /\ faults' = faults + 1

-----------------------------------------------------------------------------
\* Telegram receives another update.
UpdateArrives ==
  /\ arrived < Updates
  /\ arrived' = arrived + 1
  /\ UNCHANGED <<confirmed, bot, polling, pollOffset, loop, handled, faults>>

\* connect(): the bot is created, then init and deleteWebhook are awaited.
Connect ==
  /\ bot = "none"
  /\ bot' = "connecting"
  /\ UNCHANGED <<telegramKept, polling, pollOffset, loop, faults>>

\* Both succeeded: a loop is started, from the offset this adapter last had.
Connected(l) ==
  /\ bot = "connecting" /\ At(l, "idle")
  /\ bot' = "ready" /\ polling' = TRUE
  /\ Goto(l, "top")
  /\ UNCHANGED <<telegramKept, pollOffset, faults>>

\* One of them failed: connect() rejects, and nothing polls.
ConnectFails ==
  /\ bot = "connecting" /\ MayFail
  /\ bot' = "none"
  /\ UNCHANGED <<telegramKept, polling, pollOffset, loop>>

\* disconnect() only clears the flag: a loop ends where it next looks at it.
Disconnect ==
  /\ bot = "ready" /\ MayFail
  /\ bot' = "none" /\ polling' = FALSE
  /\ UNCHANGED <<telegramKept, pollOffset, loop>>

\* The process ends and its successor has a new adapter.
TelegramRestart ==
  /\ MayFail
  /\ bot' = "none" /\ polling' = FALSE /\ pollOffset' = 0
  /\ loop' = [l \in Loops |-> Idle]
  /\ UNCHANGED telegramKept

LoopEnds(l) ==
  /\ At(l, "top") /\ ~polling
  /\ loop' = [loop EXCEPT ![l] = Idle]
  /\ UNCHANGED <<telegramKept, bot, polling, pollOffset, faults>>

\* getUpdates with the current offset, which confirms everything before it.
GetUpdates(l) ==
  /\ At(l, "top") /\ polling
  /\ confirmed' = Larger(confirmed, pollOffset - 1)
  /\ loop' = [loop EXCEPT ![l] = [pc |-> "fetch", next |-> pollOffset, last |-> 0]]
  /\ UNCHANGED <<arrived, bot, polling, pollOffset, handled, faults>>

\* The first unconfirmed updates from the offset on; none when the 30 s passed.
GotUpdates(l) ==
  LET first == Larger(loop[l].next, confirmed + 1)
      end == Smaller(arrived, first + BatchLimit - 1)
  IN /\ At(l, "fetch")
     /\ loop' = [loop EXCEPT ![l] = [pc |-> IF first <= end THEN "handle" ELSE "top",
                                     next |-> Smaller(first, Updates + 1),
                                     last |-> Larger(end, 0)]]
     /\ UNCHANGED <<telegramKept, bot, polling, pollOffset, faults>>

\* Faulty: the loop ends at an error instead of waiting and polling again.
CaughtGivesUp(l) == loop' = [loop EXCEPT ![l] = Idle]

\* catch: the rest of the batch is dropped, and the loop waits for 3 s.
Caught(l) ==
  loop' = [loop EXCEPT ![l] = IF polling THEN [@ EXCEPT !.pc = "sleep"] ELSE Idle]

GetUpdatesFails(l) ==
  /\ At(l, "fetch") /\ MayFail
  /\ Caught(l)
  /\ UNCHANGED <<telegramKept, bot, polling, pollOffset>>

\* The handler resolved: the offset passes the update, whatever it was before.
UpdateHandled(l) ==
  LET u == loop[l].next
  IN /\ At(l, "handle") /\ u \notin Poison
     /\ handled' = handled \cup {u}
     /\ pollOffset' = u + 1
     /\ loop' = [loop EXCEPT ![l] = [pc |-> IF u < loop[l].last THEN "handle" ELSE "top",
                                     next |-> u + 1, last |-> loop[l].last]]
     /\ UNCHANGED <<arrived, confirmed, bot, polling, faults>>

\* Faulty: an update whose handler fails is acknowledged all the same.
HandlerFailsAcked(l) ==
  /\ At(l, "handle") /\ MayFail
  /\ pollOffset' = loop[l].next + 1
  /\ Caught(l)
  /\ UNCHANGED <<telegramKept, bot, polling>>

HandlerFails(l) ==
  /\ At(l, "handle")
  /\ \/ MayFail
     \/ loop[l].next \in Poison /\ UNCHANGED faults
  /\ Caught(l)
  /\ UNCHANGED <<telegramKept, bot, polling, pollOffset>>

Awake(l) ==
  /\ At(l, "sleep")
  /\ Goto(l, "top")
  /\ UNCHANGED <<telegramKept, bot, polling, pollOffset, faults>>

LoopStep(l) ==
  \/ LoopEnds(l) \/ GetUpdates(l) \/ GotUpdates(l) \/ GetUpdatesFails(l)
  \/ UpdateHandled(l) \/ HandlerFails(l) \/ Awake(l)

TelegramNext ==
  \/ UpdateArrives \/ Connect \/ ConnectFails \/ Disconnect \/ TelegramRestart
  \/ \E l \in Loops : Connected(l) \/ LoopStep(l)

TelegramSpec == TelegramInit /\ [][TelegramNext]_telegramVars

\* The network and the handler settle; nothing but a restart calls connect().
LoopRuns(l) ==
  \/ LoopEnds(l) \/ GetUpdates(l) \/ GotUpdates(l) \/ UpdateHandled(l) \/ Awake(l)
  \/ loop[l].next \in Poison /\ HandlerFails(l)

TelegramFairSpec ==
  /\ TelegramSpec
  /\ \A l \in Loops : WF_telegramVars(LoopRuns(l))

-----------------------------------------------------------------------------
TelegramTypeOK ==
  /\ arrived \in 0..Updates /\ confirmed \in 0..Updates
  /\ bot \in {"none", "connecting", "ready"} /\ polling \in BOOLEAN
  /\ pollOffset \in 0..Updates + 1
  /\ loop \in [Loops -> LoopStates]
  /\ handled \subseteq 1..Updates
  /\ faults \in 0..MaxFaults

(* At least once: Telegram never forgets an update that no handler dealt   *)
(* with, whichever handlers fail, however the loops of closed connections  *)
(* and of the current one overlap, and wherever the process is restarted   *)
(* (the "safe ack" of pollLoop).                                           *)
AckAfterHandled == \A u \in 1..confirmed : u \in handled

(* If the adapter stays connected in the end, every update before the      *)
(* first one that cannot be handled is dealt with; that one holds up all   *)
(* that follow (AckAfterHandled), as pollLoop retries it for ever.         *)
UpdatesGetThrough ==
  \A u \in 1..Updates :
    (\A p \in Poison : u < p) =>
      (<>[]polling => (u <= arrived ~> u \in handled))
=============================================================================
