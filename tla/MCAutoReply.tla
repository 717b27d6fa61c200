----------------------------- MODULE MCAutoReply -----------------------------
(***************************************************************************)
(* Three messages to one account without bots: two of Alice, and one of    *)
(* Bob in a group whose members may get auto-replies.                      *)
(***************************************************************************)
EXTENDS Gateway

CONSTANTS m1, m2, m3, alice, bob, family, live, nobody

MCMsgs == {m1, m2, m3}
MCSenders == {alice, bob}
MCSenderOf == [m \in MCMsgs |-> IF m = m3 THEN bob ELSE alice]
MCAccountOf == [m \in MCMsgs |-> live]
MCRoutes == << >>
MCChannelOf == [m \in MCMsgs |-> IF m = m3 THEN family ELSE alice]
=============================================================================
