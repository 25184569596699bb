\* Two players create rooms at the same time.
SPECIFICATION LobbySpec
CONSTANTS
  Player = {1, 2}
  Room = {1, 2}
  MaxPlayers = 2
  BirthSlots = 2
  FullHp = 1
  Damage = 1
  MinHp <- BelowZero
  MaxBattles = 9
  Requests = {"CreateRoom"}
  Creators = {1, 2}
  MaxPending = 1
  MaxRequests = 1
INVARIANTS
  EntriesMatch
CHECK_DEADLOCK FALSE
