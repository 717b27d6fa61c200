CONSTANTS
  c1 = c1
  c2 = c2
  none = none
  Conns <- MCConns
  INITIAL_RECONNECT_DELAY_MS = 1
  MAX_RECONNECT_DELAY_MS = 60
  MaxAttempts = 7
SPECIFICATION WhatsAppFairSpec
INVARIANTS
  OneConnection
  SendsUseOpenSocket
PROPERTIES
  Reconnects
