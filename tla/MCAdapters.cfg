SPECIFICATION MCSpec
CONSTANTS
  Loops = {l1, l2}
  Updates = 3
  Poison = {3}
  BatchLimit = 2
  MaxFaults = 2
  Rows = 4
  Polls = {p1, p2}
  RowLimit = 2
  Streams = {s1, s2}
  Envelopes <- MCEnvelopes
  MaxConnects = 2
  MaxSignalConnects = 2
  MaxBreaks = 1
  Chats = {c1, c2}
  ChatTimeout = 2
  ChatMaxTime = 2
  MaxSends = 2
INVARIANTS
  AckAfterHandled
  RowsHanded
PROPERTIES
  UpdatesGetThrough
  StreamsKeepUp
  ChatsAnswered
CHECK_DEADLOCK FALSE
