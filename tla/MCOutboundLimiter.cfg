CONSTANTS
  m1 = m1
  m2 = m2
  m3 = m3
  m4 = m4
  alice = alice
  bob = bob
  Msgs <- MCMsgs
  Recipients <- MCRecipients
  RecipientOf <- MCRecipientOf
  Typed <- MCTyped
  MinRecipientDelay = 2
  MaxRecipientDelay = 3
  MinGlobalDelay = 1
  MaxGlobalDelay = 2
  MinTyping = 1
  MaxTyping = 1
  MaxPerHour = 1
  MaxPerDay = 2
  Hour = 4
  Day = 7
  Burst = 3
  Start = 3
  MaxTime = 9
SPECIFICATION FairSpec
INVARIANTS
  TypeOK
  SingleFlight
  SpacedSends
  CapWithinBurst
PROPERTIES
  EverySendSettles
  ImplementsChannel
CHECK_DEADLOCK FALSE
