CONSTANTS
  m1 = m1
  m2 = m2
  group = group
  Messages <- MCMessages
  Chats <- MCChats
  sessionKey <- MCsessionKey
  permissions <- MCpermissions
  READ_TOOLS = {"list_tasks"}
  WRITE_TOOLS = {"create_task"}
  EXECUTE_TOOLS = {"close_task"}
  tools = {"list_tasks", "create_task", "close_task", "route_message"}
  ToolRequests <- MCToolRequests
  maxTurns = 2
  MAX_HISTORY = 3
  MaxTime = 1
  windowMs = 1
  failureThreshold = 50
  minimumRequests = 1
  halfOpenAfterMs = 1
SPECIFICATION Spec
INVARIANTS
  CallSeesItself
  ToolsAnswered
  FirstTurnsBeforeOpen
  AnsweredBounded
CHECK_DEADLOCK FALSE
