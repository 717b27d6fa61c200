----------------------------- MODULE MCFailover -----------------------------
(***************************************************************************)
(* The first request is of a tier of one provider, the second of two.      *)
(***************************************************************************)
EXTENDS Failover

CONSTANTS r1, r2

MCRequests == {r1, r2}
MCProviderCount == [r \in Requests |-> IF r = r1 THEN 1 ELSE 2]
MCTimeoutMs == [r \in Requests |-> 1]
=============================================================================
