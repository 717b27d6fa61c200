----------------------------- MODULE MCLlmProxy -----------------------------
(***************************************************************************)
(* One customer with two keys of the same prefix, one limited to a request *)
(* per minute and one not limited; two calls of the proxy, one for a model *)
(* of the table and one for an alias, and a revocation.                    *)
(***************************************************************************)
EXTENDS LlmProxy

CONSTANTS k1, k2, r1, r2, c1

MCkeyPrefix == [k \in Keys |-> "exe_sk_0"]
MCownerOf == [k \in Keys |-> c1]
MCrateLimitRpm == [k \in Keys |-> IF k = k1 THEN 1 ELSE 0]
MCstreams == [r \in Requests |-> r = r1]
MCusageOf == [r \in Requests |-> [input |-> 1, output |-> IF r = r1 THEN 2 ELSE 1]]
MCmodelOf == [r \in Requests |-> IF r = r1 THEN "haiku" ELSE "opus-latest"]
MCresolved == [r \in Requests |-> IF r = r1 THEN "haiku" ELSE "opus"]
MCpricing == [m \in {"haiku", "opus"} |->
                IF m = "haiku" THEN [input |-> 1, output |-> 5]
                               ELSE [input |-> 15, output |-> 75]]
MCfallback == [input |-> 3, output |-> 15]
=============================================================================
