---------------------------- MODULE MCSessionStore ----------------------------
(***************************************************************************)
(* Two messages of one customer to one bot, across one restart.            *)
(***************************************************************************)
EXTENDS SessionStore, TLC

CONSTANTS m1, m2, k1, u1, u2

MCMsgs == {m1, m2}
MCSymmetry == Permutations(MCMsgs) \cup Permutations(Ids)
MCKeyOf == [m \in MCMsgs |-> k1]
=============================================================================
