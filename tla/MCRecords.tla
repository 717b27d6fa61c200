----------------------------- MODULE MCRecords ------------------------------
(***************************************************************************)
(* What watches the gateway and what it writes about a message elsewhere:  *)
(* alerts, the relay of live events, the analytics; the conversation in    *)
(* PostgreSQL, the customer, the CRM.  They do not touch each other, so a  *)
(* behaviour runs one of them, named by part; the others keep their        *)
(* initial state.                                                          *)
(***************************************************************************)
EXTENDS TLC, Alerts, WsRelay, Analytics, ConversationStore, CustomerStore, CrmBridge

CONSTANTS d1, d2, d3 \* the deliveries

VARIABLE part

\* A redelivery (1, 2), two messages of one chat (1, 3), in no group or in one;
\* and the same id in another account, or in another chat of the account.
Message(account, group, id) ==
  [account |-> account, contact |-> "jid", group |-> group, id |-> id]
MCArrivals ==
  {d1 :> Message("a", g, 1) @@ d2 :> Message("a", g, 1) @@ d3 :> Message("a", g, 2) :
     g \in {DirectMessage, "g"}}
  \cup {d1 :> Message("a", "g", 1) @@ d2 :> Message("b", "g", 1)
          @@ d3 :> Message("a", DirectMessage, 1)}
MCFilters ==
  {[enabled |-> FALSE, groups |-> {}, contacts |-> {}],
   [enabled |-> TRUE, groups |-> {"g"}, contacts |-> {}]}

\* The components that do not run start in one of their initial states only.
OneInitialState ==
  /\ part # "conversation" => inbound = (CHOOSE a \in Arrivals : TRUE)
                              /\ filter = (CHOOSE f \in Filters : TRUE)
  /\ part # "customer" => database
  /\ part # "crm" => \A p \in Pushes : push[p].only /\ push[p].contact = "k1"

MCInit ==
  /\ part \in {"alerts", "relay", "analytics", "conversation", "customer", "crm"}
  /\ AlertInit /\ RelayInit /\ AnalyticsInit
  /\ ConversationInit /\ CustomerInit /\ CrmInit
  /\ OneInitialState

Watching == \* the first three move, the last three do not
  /\ \/ /\ part = "alerts" /\ AlertNext
        /\ UNCHANGED <<relayVars, analyticsVars>>
     \/ /\ part = "relay" /\ RelayNext
        /\ UNCHANGED <<alertVars, analyticsVars>>
     \/ /\ part = "analytics" /\ AnalyticsNext
        /\ UNCHANGED <<alertVars, relayVars>>
  /\ UNCHANGED <<conversationVars, customerVars, crmVars>>

Keeping ==
  /\ \/ /\ part = "conversation" /\ ConversationNext
        /\ UNCHANGED <<customerVars, crmVars>>
     \/ /\ part = "customer" /\ CustomerNext
        /\ UNCHANGED <<conversationVars, crmVars>>
     \/ /\ part = "crm" /\ CrmNext
        /\ UNCHANGED <<conversationVars, customerVars>>
  /\ UNCHANGED <<alertVars, relayVars, analyticsVars>>

MCNext == (Watching \/ Keeping) /\ UNCHANGED part

MCSpec ==
  MCInit /\ [][MCNext]_<<part, alertVars, relayVars, analyticsVars,
                         conversationVars, customerVars, crmVars>>
=============================================================================
