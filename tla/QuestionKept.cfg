CONSTANTS
  m1 = m1
  m2 = m2
  k1 = k1
  u1 = u1
  u2 = u2
  Msgs <- MCMsgs
  Keys = {k1}
  KeyOf <- MCKeyOf
  Ids = {u1, u2}
  idleTimeoutMs = 5
  maxMessages = 10
  Kept = 2
  MaxWrites = 2
  MaxTime = 3
  MaxCrashes = 1
SPECIFICATION Spec
INVARIANT QuestionKept
CHECK_DEADLOCK FALSE
