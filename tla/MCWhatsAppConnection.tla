------------------------ MODULE MCWhatsAppConnection ------------------------
(***************************************************************************)
(* Two names for connections, so that a second one could coexist with the  *)
(* first; delays in units of five seconds.                                 *)
(***************************************************************************)
EXTENDS WhatsAppConnection

CONSTANTS c1, c2

MCConns == {c1, c2}
=============================================================================
