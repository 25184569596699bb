\* One room, three players, so that one camp has two: battles, hits on the dead, results.
SPECIFICATION FairSpec
CONSTANTS
  Player = {1, 2, 3}
  Room = {1}
  MaxPlayers = 3
  BirthSlots = 2
  FullHp = 1
  Damage = 1
  MinHp <- BelowZero
  MaxBattles = 1
INVARIANTS
  TypeOK
  OwnerInRoom
  ViewsAgree
  BattleViewsAgree
  BirthPositions
PROPERTIES
  ResultsFollowSurvivors
  ImplementsMatch
  DecidedBattleEnds
CHECK_DEADLOCK FALSE
