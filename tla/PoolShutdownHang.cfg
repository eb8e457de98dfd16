\* A worker goes to sleep after the stop flag was set and notify_all has run.
SPECIFICATION FairSpec
CONSTANTS
  r1 = r1  r2 = r2  r3 = r3  r4 = r4
  w1 = w1  w2 = w2
  Requests = {r3}
  Workers = {w1, w2}
  NoRequest = NoRequest
  NoThread = NoThread
  Kind <- MCKind
  MaxRequestAge = 1
  MaxClock = 1
  ClockMayStep = FALSE
  KafkaConfigured = TRUE
CHECK_DEADLOCK FALSE
PROPERTY ShutdownAlwaysCompletes
