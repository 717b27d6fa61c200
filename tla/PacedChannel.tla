---------------------------- MODULE PacedChannel ----------------------------
(***************************************************************************)
(* What a caller of OutboundLimiter.send is promised, without the queue,   *)
(* the worker or the timers: an accepted message is settled in the order   *)
(* of acceptance, exactly once, and two messages whose send resolved are   *)
(* at least the configured minimum delay apart (the larger one when they   *)
(* go to the same recipient).                                              *)
(***************************************************************************)
EXTENDS Naturals, Sequences

CONSTANTS
  Msgs,               \* one member per call of send
  RecipientOf,        \* the recipient of each message
  MinRecipientDelay,  \* least time between two sends to one recipient
  MinGlobalDelay      \* least time between any two sends

VARIABLES
  pending,   \* accepted and not yet settled, oldest first
  outcome,   \* "new", "accepted", "sent", "failed" or "refused"
  sentAt,    \* the time a sent message was recorded
  now

vars == <<pending, outcome, sentAt, now>>

Init ==
  /\ pending = <<>>
  /\ outcome = [m \in Msgs |-> "new"]
  /\ sentAt = [m \in Msgs |-> 0]
  /\ now \in Nat

Accept(m) ==
  /\ outcome[m] = "new"
  /\ outcome' = [outcome EXCEPT ![m] = "accepted"]
  /\ pending' = Append(pending, m)
  /\ UNCHANGED <<sentAt, now>>

Refuse(m) ==
  /\ outcome[m] = "new"
  /\ outcome' = [outcome EXCEPT ![m] = "refused"]
  /\ UNCHANGED <<pending, sentAt, now>>

\* m may be sent at this time, given everything that was sent before.
FarEnough(m) ==
  \A s \in Msgs : outcome[s] = "sent" =>
    /\ now >= sentAt[s] + MinGlobalDelay
    /\ RecipientOf[s] = RecipientOf[m] => now >= sentAt[s] + MinRecipientDelay

SettleSent ==
  /\ pending # <<>>
  /\ FarEnough(Head(pending))
  /\ outcome' = [outcome EXCEPT ![Head(pending)] = "sent"]
  /\ sentAt' = [sentAt EXCEPT ![Head(pending)] = now]
  /\ pending' = Tail(pending)
  /\ UNCHANGED now

SettleFailed ==
  /\ pending # <<>>
  /\ outcome' = [outcome EXCEPT ![Head(pending)] = "failed"]
  /\ pending' = Tail(pending)
  /\ UNCHANGED <<sentAt, now>>

Tick ==
  /\ now' = now + 1
  /\ UNCHANGED <<pending, outcome, sentAt>>

Next ==
  \/ \E m \in Msgs : Accept(m) \/ Refuse(m)
  \/ SettleSent
  \/ SettleFailed
  \/ Tick

Spec == Init /\ [][Next]_vars
=============================================================================
