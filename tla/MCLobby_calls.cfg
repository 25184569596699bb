\* One creator, rooms of two places, clients that wait for each answer: calls, answers, a kick.
SPECIFICATION LobbySpec
CONSTANTS
  Player = {1, 2}
  Room = {1, 2}
  MaxPlayers = 2
  BirthSlots = 1
  FullHp = 1
  Damage = 1
  MinHp <- BelowZero
  MaxBattles = 9
  Requests = {"CreateRoom", "EnterRoom", "LeaveRoom", "StartBattle", "GetRoomInfo", "GetRoomList", "Kick"}
  Creators = {1}
  MaxPending = 1
  MaxRequests = 3
INVARIANTS
  LobbyTypeOK
  TableLive
  OneMessagePerCall
  AgentKnowsRoom
  KickedPlayersLeave
  OneResultPerBattle
  LobbyInvariant
PROPERTIES
  RequestsAnswered
  ImplementsRooms
CHECK_DEADLOCK FALSE
