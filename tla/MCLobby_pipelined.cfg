\* A client sends its second request before the answer to the first.
SPECIFICATION LobbySpec
CONSTANTS
  Player = {1}
  Room = {1, 2}
  MaxPlayers = 2
  BirthSlots = 2
  FullHp = 1
  Damage = 1
  MinHp <- BelowZero
  MaxBattles = 9
  Requests = {"CreateRoom", "EnterRoom", "LeaveRoom"}
  Creators = {1}
  MaxPending = 2
  MaxRequests = 2
INVARIANTS
  RoomIdMatches
CHECK_DEADLOCK FALSE
