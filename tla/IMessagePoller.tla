--------------------------- MODULE IMessagePoller ---------------------------
(***************************************************************************)
(* adapters/imessage.ts: an interval polls the database of Messages.app.   *)
(* A poll is started whether or not the one before has ended, and all of   *)
(* them share lastMessageRowId, which is advanced before a row's handler   *)
(* is called; a handler that fails is only logged.                         *)
(***************************************************************************)
EXTENDS Integers

CONSTANTS
  Rows,               \* how many messages the database ever has
  Polls,              \* calls of pollMessages that may run at a time
  RowLimit,           \* LIMIT of the query (50)
  MaxConnects         \* bounds the calls of connect

ASSUME IMessageAssumption == Rows \in Nat \ {0} /\ {RowLimit, MaxConnects} \subseteq Nat

VARIABLES
  top,                \* the greatest ROWID in the database
  link,               \* connect(): "down", "testing", "reading", "up"
  maxId,              \* what SELECT MAX(ROWID) returned
  connects,
  lastMessageRowId,
  poll,               \* [Polls -> [pc, next, last]]: the rows at hand
  base,               \* history: where the current connection began to read
  handed,             \* history: [1..Rows -> calls of the handler]
  overlapped          \* history: two polls, or a poll and a connect, overlapped

imessageVars == <<top, link, maxId, connects, lastMessageRowId, poll, base, handed, overlapped>>
imessageHistory == <<base, handed, overlapped>>

NoPoll == [pc |-> "idle", next |-> 0, last |-> 0]
Running == {p \in Polls : poll[p].pc # "idle"}

IMessageInit ==
  /\ top \in 0..1 /\ link = "down" /\ maxId = 0 /\ connects = 0
  /\ lastMessageRowId = 0
  /\ poll = [p \in Polls |-> NoPoll]
  /\ base = 0 /\ handed = [r \in 1..Rows |-> 0] /\ overlapped = FALSE

MessageArrives ==
  /\ top < Rows
  /\ top' = top + 1
  /\ UNCHANGED <<link, maxId, connects, lastMessageRowId, poll, imessageHistory>>

-----------------------------------------------------------------------------
ConnectIMessage ==
  /\ link = "down" /\ connects < MaxConnects
  /\ link' = "testing" /\ connects' = connects + 1
  /\ UNCHANGED <<top, maxId, lastMessageRowId, poll, imessageHistory>>

\* osascript is refused, or this is not macOS: connect() rejects.
AccessRefused ==
  /\ link = "testing"
  /\ link' = "down"
  /\ UNCHANGED <<top, maxId, connects, lastMessageRowId, poll, imessageHistory>>

MaxRead ==
  /\ link = "testing"
  /\ link' = "reading" /\ maxId' = top
  /\ overlapped' = (overlapped \/ Running # {})
  /\ UNCHANGED <<top, connects, lastMessageRowId, poll, base, handed>>

\* The result is assigned, also over rows a poll has taken meanwhile.
ConnectedIMessage ==
  /\ link = "reading"
  /\ link' = "up"
  /\ lastMessageRowId' = maxId /\ base' = maxId
  /\ UNCHANGED <<top, maxId, connects, poll, handed, overlapped>>

\* The database cannot be read now: polling starts from the row it last had.
ConnectedUnread ==
  /\ link = "testing"
  /\ link' = "up"
  /\ UNCHANGED <<top, maxId, connects, lastMessageRowId, poll, imessageHistory>>

\* disconnect() clears the interval; polls that run go on.
DisconnectIMessage ==
  /\ link = "up"
  /\ link' = "down"
  /\ UNCHANGED <<top, maxId, connects, lastMessageRowId, poll, imessageHistory>>

-----------------------------------------------------------------------------
IntervalFires(p) ==
  /\ link = "up" /\ poll[p].pc = "idle"
  /\ poll' = [poll EXCEPT ![p].pc = "opening"]
  /\ overlapped' = (overlapped \/ Running # {})
  /\ UNCHANGED <<top, link, maxId, connects, lastMessageRowId, base, handed>>

\* The query is sent with lastMessageRowId as it is now.
Execute(p) ==
  /\ poll[p].pc = "opening"
  /\ poll' = [poll EXCEPT ![p] = [pc |-> "querying", next |-> lastMessageRowId + 1, last |-> 0]]
  /\ UNCHANGED <<top, link, maxId, connects, lastMessageRowId, imessageHistory>>

PollFails(p) ==
  /\ poll[p].pc \in {"opening", "querying"}
  /\ poll' = [poll EXCEPT ![p] = NoPoll]
  /\ UNCHANGED <<top, link, maxId, connects, lastMessageRowId, imessageHistory>>

\* Faulty: the id moves on to the end of the batch at once.
TakeRowBatch(p, r, last) ==
  IF r > last
  THEN /\ poll' = [poll EXCEPT ![p] = NoPoll]
       /\ UNCHANGED <<lastMessageRowId, handed>>
  ELSE /\ poll' = [poll EXCEPT ![p] = [pc |-> "handling", next |-> r, last |-> last]]
       /\ lastMessageRowId' = IF last > lastMessageRowId THEN last ELSE lastMessageRowId
       /\ handed' = [handed EXCEPT ![r] = @ + 1]

\* The loop over the rows comes to row r: the id moves on, the handler is called.
TakeRow(p, r, last) ==
  IF r > last
  THEN /\ poll' = [poll EXCEPT ![p] = NoPoll]
       /\ UNCHANGED <<lastMessageRowId, handed>>
  ELSE /\ poll' = [poll EXCEPT ![p] = [pc |-> "handling", next |-> r, last |-> last]]
       /\ lastMessageRowId' = IF r > lastMessageRowId THEN r ELSE lastMessageRowId
       /\ handed' = [handed EXCEPT ![r] = @ + 1]

RowsRead(p) ==
  LET first == poll[p].next
      end == first + RowLimit - 1
  IN /\ poll[p].pc = "querying"
     /\ TakeRow(p, first, IF end < top THEN end ELSE top)
     /\ UNCHANGED <<top, link, maxId, connects, base, overlapped>>

\* The handler resolved or rejected: the next row follows in either case.
HandlerSettles(p) ==
  /\ poll[p].pc = "handling"
  /\ TakeRow(p, poll[p].next + 1, poll[p].last)
  /\ UNCHANGED <<top, link, maxId, connects, base, overlapped>>

IMessageNext ==
  \/ MessageArrives \/ ConnectIMessage \/ AccessRefused \/ MaxRead \/ ConnectedIMessage
  \/ ConnectedUnread \/ DisconnectIMessage
  \/ \E p \in Polls : IntervalFires(p) \/ Execute(p) \/ PollFails(p) \/ RowsRead(p)
                        \/ HandlerSettles(p)

IMessageSpec == IMessageInit /\ [][IMessageNext]_imessageVars

-----------------------------------------------------------------------------
(* No row between the start of the connection and lastMessageRowId was     *)
(* passed over, however polls and reconnects overlap; and a row reaches    *)
(* the handler twice only after two polls, or a poll and a connect, ran at *)
(* the same time (pollMessages, connect).                                  *)
RowsHanded ==
  /\ \A r \in base + 1..lastMessageRowId : handed[r] > 0
  /\ \A r \in 1..Rows : handed[r] > 1 => overlapped
=============================================================================
