\* Without Kafka the process crashes when it stops.
SPECIFICATION ServerSpec
CONSTANTS
  r1 = r1  r2 = r2
  w1 = w1  w2 = w2
  bad = bad  alive = alive  unsupported = unsupported
  garbage = garbage  ignored = ignored
  Requests = {r1}
  Workers = {w1, w2}
  NoRequest = NoRequest
  NoThread = NoThread
  Kind <- MCKind
  MaxRequestAge = 1
  MaxClock = 0
  ClockMayStep = FALSE
  KafkaConfigured = FALSE
  Packets <- MCPackets
  PacketClass <- MCClass
  Datagrams <- OneRequest
CHECK_DEADLOCK FALSE
INVARIANT RunsWithoutKafka
