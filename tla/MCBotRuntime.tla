---------------------------- MODULE MCBotRuntime ----------------------------
(***************************************************************************)
(* Two concurrent messages of one chat, the second without write access.   *)
(* `route_message' is a tool of the receptionist that no permission level  *)
(* lists.                                                                  *)
(***************************************************************************)
EXTENDS BotRuntime

CONSTANTS m1, m2, group

MCMessages == {m1, m2}
MCChats == {group}
MCsessionKey == [m \in Messages |-> group]
MCpermissions ==
  [m \in Messages |-> IF m = m1 THEN {"canRead", "canWrite", "canExecute"} ELSE {"canRead"}]
MCToolRequests ==
  {<<"create_task", "list_tasks">>, <<"route_message">>}
=============================================================================
