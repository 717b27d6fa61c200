CONSTANTS
  m1 = m1
  m2 = m2
  m3 = m3
  m4 = m4
  alice = alice
  bob = bob
  live = live
  watched = watched
  support = support
  nobody = nobody
  Msgs <- MCMsgs
  Senders <- MCSenders
  SenderOf <- MCSenderOf
  WindowMs = 1
  messagesPerMinute = 1
  globalMessagesPerMinute = 2
  Accounts <- MCAccounts
  AccountOf <- MCAccountOf
  readOnly = FALSE
  ReadOnlyAccounts = {watched}
  Routes <- MCRoutes
  DefaultRoute = nobody
  Bots = {support}
  Replyable = {m1, m2, m3, m4}
  GroupChats = {}
  ChannelOf <- MCSenderOf
  enabled = TRUE
  dmOnly = FALSE
  allowGroups = {}
  allowContacts = {alice}
  cooldown = 2
  dailyCap = 1
  MinDelay = 1
  MaxDelay = 2
  MaxTime = 3
SPECIFICATION FairSpec
INVARIANTS
  ReadOnlySilent
  AnsweredOnce
  SlidingWindows
PROPERTIES
  EveryMessageHandled
CHECK_DEADLOCK FALSE
