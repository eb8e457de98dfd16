\* Two workers, two requests, a clock that is set forward and back at any time;
\* Kafka not configured.
SPECIFICATION FairSpec
CONSTANTS
  r1 = r1  r2 = r2  r3 = r3  r4 = r4
  w1 = w1  w2 = w2
  Requests = {r3, r4}
  Workers = {w1, w2}
  NoRequest = NoRequest
  NoThread = NoThread
  Kind <- MCKind
  MaxRequestAge = 1
  MaxClock = 1
  ClockMayStep = TRUE
  KafkaConfigured = FALSE
CHECK_DEADLOCK FALSE
PROPERTIES
  AwakeWorkerDrains
  ShutdownCompletes
  TakenIsFinished
