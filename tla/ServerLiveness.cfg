\* One datagram with one request, two workers: the end of the process, step by step and
\* in the long run.
SPECIFICATION ServerFairSpec
CONSTANTS
  r1 = r1  r2 = r2
  w1 = w1  w2 = w2
  bad = bad  alive = alive  unsupported = unsupported
  garbage = garbage  ignored = ignored
  Requests = {r1}
  Workers = {w1, w2}
  NoRequest = NoRequest
  NoThread = NoThread
  Kind <- MCKind
  MaxRequestAge = 1
  MaxClock = 0
  ClockMayStep = FALSE
  KafkaConfigured = TRUE
  Packets <- MCPackets
  PacketClass <- MCClass
  Datagrams <- OneRequest
CHECK_DEADLOCK FALSE
PROPERTIES
  StopCountsDown
  StopEndsLoop
  StopEndsProcess
