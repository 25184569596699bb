\* A player enters a room that has just become empty and asked for its removal.
SPECIFICATION LobbySpec
CONSTANTS
  Player = {1, 2}
  Room = {1}
  MaxPlayers = 2
  BirthSlots = 2
  FullHp = 1
  Damage = 1
  MinHp <- BelowZero
  MaxBattles = 9
  Requests = {"CreateRoom", "EnterRoom", "LeaveRoom"}
  Creators = {1}
  MaxPending = 1
  MaxRequests = 2
INVARIANTS
  RemovedRoomsAreEmpty
CHECK_DEADLOCK FALSE
