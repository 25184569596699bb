\* A connection that is closed during its login, and the next one on its descriptor.
SPECIFICATION Spec
CONSTANTS
  Conn = {1, 2}
  Fd = {1}
  Name = {1}
  MaxLogins = 1
  MaxEvents = 2
INVARIANTS
  AgentsAreForLogins
CHECK_DEADLOCK FALSE
