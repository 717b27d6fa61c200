--------------------------- MODULE MCOutboundLimiter ---------------------------
(***************************************************************************)
(* Four messages, two recipients; an hour of four ticks and a day of seven.  *)
(***************************************************************************)
EXTENDS OutboundLimiter

CONSTANTS m1, m2, m3, m4, alice, bob

MCMsgs == {m1, m2, m3, m4}
MCRecipients == {alice, bob}
MCRecipientOf == [m \in MCMsgs |-> IF m \in {m1, m2} THEN alice ELSE bob]
MCTyped == {m2}
=============================================================================
