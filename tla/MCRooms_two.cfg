\* Two rooms of two places, three players: players who change rooms, and full rooms.
SPECIFICATION Spec
CONSTANTS
  Player = {1, 2, 3}
  Room = {1, 2}
  MaxPlayers = 2
  BirthSlots = 1
  FullHp = 1
  Damage = 1
  MinHp = 0
  MaxBattles = 1
INVARIANTS
  RoomIdMatches
  CampsFit
  EmptyRoomIsBeingRemoved
  IInv
CHECK_DEADLOCK FALSE
