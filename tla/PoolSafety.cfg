\* Two workers, two requests, a clock that only moves forward.
SPECIFICATION Spec
CONSTANTS
  r1 = r1  r2 = r2  r3 = r3  r4 = r4
  w1 = w1  w2 = w2
  Requests = {r1, r2}
  Workers = {w1, w2}
  NoRequest = NoRequest
  NoThread = NoThread
  Kind <- MCKind
  MaxRequestAge = 2
  MaxClock = 3
  ClockMayStep = FALSE
  KafkaConfigured = TRUE
SYMMETRY WorkerSymmetry
CHECK_DEADLOCK FALSE
INVARIANTS
  TypeOK
  Ownership
  NoUseBeforeInit
  CdrsAreTrue
  LeavesOnlyQueued
PROPERTIES
  StrandedOnlyByLostNotify
  ExpiredIsNotProcessed
  NobodyFallsAsleep
  ImplementsService
  UsesSessions
