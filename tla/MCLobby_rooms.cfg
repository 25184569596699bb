\* Three players and rooms of two places, so that players are refused; battles and a kick.
SPECIFICATION LobbySpec
CONSTANTS
  Player = {1, 2, 3}
  Room = {1, 2}
  MaxPlayers = 2
  BirthSlots = 2
  FullHp = 1
  Damage = 1
  MinHp <- BelowZero
  MaxBattles = 9
  Requests = {"CreateRoom", "EnterRoom", "LeaveRoom", "StartBattle", "SyncTank", "Fire", "Hit", "Kick"}
  Creators = {1}
  MaxPending = 1
  MaxRequests = 2
PROPERTIES
  ImplementsRooms
  EnterAnswersAreTrue
CHECK_DEADLOCK FALSE
