------------------------------ MODULE MCGateway ------------------------------
(***************************************************************************)
(* Four messages to two accounts, one of which is read-only: m1 is routed  *)
(* to no bot, m2 and m3 to one, m4 belongs to the read-only account.       *)
(***************************************************************************)
EXTENDS Gateway

CONSTANTS m1, m2, m3, m4, alice, bob, live, watched, support, nobody

MCMsgs == {m1, m2, m3, m4}
MCSenders == {alice, bob}
MCSenderOf == [m \in MCMsgs |-> IF m = m3 THEN bob ELSE alice]
MCAccounts == {live, watched}
MCAccountOf == [m \in MCMsgs |-> IF m = m4 THEN watched ELSE live]
MCRoutes == << [matches |-> {m2, m3}, target |-> support],
               [matches |-> {m1, m3}, target |-> nobody] >>
=============================================================================
