\* A login of a name that is in use.
SPECIFICATION Spec
CONSTANTS
  Conn = {1, 2}
  Fd = {1, 2}
  Name = {1}
  MaxLogins = 2
  MaxEvents = 0
PROPERTIES
  LoginsAreAnswered
CHECK_DEADLOCK FALSE
