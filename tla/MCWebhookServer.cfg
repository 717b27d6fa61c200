CONSTANTS
  c1 = c1
  c2 = c2
  c3 = c3
  Calls = {c1, c2, c3}
  Asks <- MCAsks
  Registered <- MCRegistered
  readOnly = FALSE
  authTokenHash = TRUE
  signatureSecrets = {"whatsapp", "telegram"}
  dbAvailable = TRUE
  Cap = 1
  MinDelay = 2
  MaxTime = 2
SPECIFICATION FairSpec
INVARIANTS
  AnswerTellsOutcome
  PacedByTwo
PROPERTIES
  EveryCallAnswered
CHECK_DEADLOCK FALSE
