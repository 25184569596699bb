\* Three connections on two descriptors, two logins of one name, also of one connection: kicks and crashes.
SPECIFICATION Spec
CONSTANTS
  Conn = {1, 2, 3}
  Fd = {1, 2}
  Name = {1}
  MaxLogins = 2
  MaxEvents = 1
INVARIANTS
  TypeOK
  AgentsAreReady
  NoSharedAgent
  NamesAreRegistered
  SessionInvariant
CHECK_DEADLOCK FALSE
