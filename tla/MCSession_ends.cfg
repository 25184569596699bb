\* Two connections on one descriptor, two logins of one name: every wait ends.
SPECIFICATION Spec
CONSTANTS
  Conn = {1, 2}
  Fd = {1}
  Name = {1}
  MaxLogins = 2
  MaxEvents = 2
PROPERTIES
  GoneClientsAreForgotten
  LoginsOfFreeNames
CHECK_DEADLOCK FALSE
