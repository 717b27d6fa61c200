CONSTANTS
  m1 = m1
  m2 = m2
  m3 = m3
  alice = alice
  bob = bob
  family = family
  live = live
  nobody = nobody
  Msgs <- MCMsgs
  Senders <- MCSenders
  SenderOf <- MCSenderOf
  WindowMs = 0
  messagesPerMinute = 2
  globalMessagesPerMinute = 3
  Accounts = {live}
  AccountOf <- MCAccountOf
  readOnly = FALSE
  ReadOnlyAccounts = {}
  Routes <- MCRoutes
  DefaultRoute = nobody
  Bots = {}
  Replyable = {m1, m2, m3}
  GroupChats = {m3}
  ChannelOf <- MCChannelOf
  enabled = TRUE
  dmOnly = FALSE
  allowGroups = {family}
  allowContacts = {alice}
  cooldown = 2
  dailyCap = 2
  MinDelay = 1
  MaxDelay = 1
  MaxTime = 4
SPECIFICATION Spec
INVARIANT AutoRepliesBounded
CHECK_DEADLOCK FALSE
