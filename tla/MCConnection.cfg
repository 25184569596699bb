\* Bytes of eight values, types of ten bytes, two messages and lengths that do not fit; three
\* rounds of the heartbeat, one second late at most.
SPECIFICATION Spec
CONSTANTS
  Byte = 8
  MAX_TYPE_LENGTH = 10
  kPingInterval = 1
  Message <- Messages
  BadFrame <- BadFrames
  MaxSent = 2
  MaxTime = 8
  MaxLate = 1
INVARIANTS
  TypeOK
  InStep
  ReadsFit
  Dispatched
  SilenceIsBounded
PROPERTIES
  MessagesAreTaken
CHECK_DEADLOCK FALSE
