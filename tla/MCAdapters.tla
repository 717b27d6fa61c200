----------------------------- MODULE MCAdapters -----------------------------
(***************************************************************************)
(* The adapters that receive messages by polling, streaming and HTTP.  They *)
(* share nothing but the handler, so a behaviour runs one of them: adapter *)
(* says which, and the variables of the others keep their initial values.  *)
(***************************************************************************)
EXTENDS TelegramPoller, IMessagePoller, SignalStream, WebChat

VARIABLE adapter

MCEnvelopes == <<[kind |-> "receipt", parts |-> 2], [kind |-> "typing", parts |-> 0]>>

allVars == <<adapter, telegramVars, imessageVars, signalVars, chatVars>>

MCInit ==
  /\ adapter \in {"telegram", "imessage", "signal", "webchat"}
  /\ TelegramInit /\ IMessageInit /\ SignalInit /\ ChatInit

MCNext ==
  /\ \/ /\ adapter = "telegram" /\ TelegramNext
        /\ UNCHANGED <<imessageVars, signalVars, chatVars>>
     \/ /\ adapter = "imessage" /\ IMessageNext
        /\ UNCHANGED <<telegramVars, signalVars, chatVars>>
     \/ /\ adapter = "signal" /\ SignalNext
        /\ UNCHANGED <<telegramVars, imessageVars, chatVars>>
     \/ /\ adapter = "webchat" /\ ChatNext
        /\ UNCHANGED <<telegramVars, imessageVars, signalVars>>
  /\ UNCHANGED adapter

MCSpec ==
  /\ MCInit /\ [][MCNext]_allVars
  /\ \A l \in Loops : WF_telegramVars(adapter = "telegram" /\ LoopRuns(l))
  /\ \A s \in Streams : WF_signalVars(adapter = "signal" /\ StreamRuns(s))
  /\ WF_chatVars(adapter = "webchat" /\ ChatTick)
  /\ WF_chatVars(adapter = "webchat" /\ ServerClosed)
  /\ \A c \in Chats : WF_chatVars(adapter = "webchat" /\ ChatRuns(c))

\* The two promises of SignalStream: what its handler is called for, and when
\* there is a stream (startEventStream, disconnect).
StreamsKeepUp == adapter = "signal" => []DoubledOnlyByReconnect /\ StreamFollowsConnection

\* The two promises of WebChat: at most one answer, and that it comes
\* (handleChatRequest, sendText, disconnect).
ChatsAnswered == adapter = "webchat" => []ResolvedOnce /\ EveryChatAnswered
=============================================================================
