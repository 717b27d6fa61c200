SPECIFICATION MCSpec
CONSTANTS
  WindowMs = 2
  MinimumEvents = 2
  ErrorRateThreshold = 40
  Triggers = {"circuit"}
  MaxEvents = 4
  AlertMaxTime = 4
  Clients = {c1}
  AuthTimeout = 1
  HeartbeatInterval = 3
  PongTimeout = 2
  RelayMaxTime = 12
  Groups = {g1, g2}
  Days = 2
  TtlDays = 0
  Flushes = {f1, f2}
  MaxRecorded = 3
  MaxRestarts = 1
  d1 = d1
  d2 = d2
  d3 = d3
  Deliveries = {d1, d2, d3}
  Arrivals <- MCArrivals
  Filters <- MCFilters
  DirectMessage = DirectMessage
  MaxBroken = 1
  Senders = {s1}
  Resolves = {r1, r2, r3}
  Nobody = Nobody
  MaxRejections = 2
  Pushes = {p1, p2, p3}
  Contacts = {"k1", "k2"}
INVARIANTS
  StoredOnceInPlace
  OnePersonPerContact
PROPERTIES
  AlertsFollowWindow
  OnlySilentDropped
  DailyTotals
  IdentityKept
CHECK_DEADLOCK FALSE
