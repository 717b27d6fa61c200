-------------------------- MODULE MCWebhookServer --------------------------
(***************************************************************************)
(* A read-only WhatsApp account and two Telegram accounts; requests of     *)
(* every route, with and without the token, a signature, an account.       *)
(***************************************************************************)
EXTENDS WebhookServer, TLC

CONSTANTS c1, c2, c3

MCRegistered == <<[platform |-> "whatsapp", name |-> "default", readOnly |-> TRUE],
                  [platform |-> "telegram", name |-> "sales", readOnly |-> FALSE],
                  [platform |-> "telegram", name |-> "support", readOnly |-> FALSE]>>

Of(route, platform, account) ==
  [route |-> route, platform |-> platform, account |-> account,
   bearer |-> TRUE, signature |-> "valid"]

MCAllAsks ==
  {Of("send", "telegram", "sales"), Of("send", "telegram", "none"),
   Of("send", "whatsapp", "none"), Of("webhook", "telegram", "sales"),
   Of("webhook", "whatsapp", "default"), Of("webhook", "slack", "default"),
   Of("inbound", "whatsapp", "default"), Of("query", "none", "none"),
   Of("socket", "whatsapp", "none"), Of("socket", "whatsapp", "sales"),
   Of("limits", "none", "none"), Of("open", "none", "none"),
   Of("challenge", "whatsapp", "none"), NoAsk,
   [Of("webhook", "telegram", "sales") EXCEPT !.signature = "wrong"],
   [Of("send", "telegram", "sales") EXCEPT !.bearer = FALSE]}

\* One call may be anything, the others compete for one account.
MCAsks ==
  c1 :> MCAllAsks
    @@ c2 :> {Of("send", "telegram", "support")}
    @@ c3 :> {Of("send", "telegram", "support"), Of("inbound", "telegram", "support")}
=============================================================================
