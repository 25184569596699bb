---------------------------- MODULE MatchProofs ----------------------------
(***************************************************************************)
(* What TLAPS proves of the refinement: the rooms implement module Match,  *)
(* for every set of players and rooms and every size of a room.            *)
(***************************************************************************)
EXTENDS RoomsProofs

-----------------------------------------------------------------------------
(* The mapping *)

\* Match counts as the rooms do.
LEMMA SameCardinality == ASSUME NEW S PROVE Game!Cardinality(S) = Cardinality(S)
BY DEF Game!Cardinality, Cardinality

\* A player's mapped room, the members and the teams of a room.
LEMMA MappedRooms ==
  ASSUME TypeOK, RoomIdMatches, NEW r \in Room
  PROVE  /\ \A p \in Player : At[p] = r <=> p \in m_players[r]
         /\ Game!Members(r) = m_players[r]
         /\ \A c : Game!Team(r, c) = InCamp(m_players[r], camp, c)
         /\ r \in Playing <=> Fighting(r)
<1>1. r \in Nat \ {0}
  BY RoomAssumption
<1>2. ASSUME NEW p \in Player PROVE At[p] = r <=> p \in m_players[r]
  BY <1>1 DEF At, RoomIdMatches
<1>3. Game!Members(r) = m_players[r]
  BY <1>2 DEF Game!Members, TypeOK
<1>4. \A c : Game!Team(r, c) = InCamp(m_players[r], camp, c)
  BY <1>3 DEF Game!Team, InCamp
<1>. QED BY <1>2, <1>3, <1>4 DEF Playing

\* What no step of Match is about.
LEMMA QuietStep ==
  ASSUME roomId' = roomId, camp' = camp, hp' = hp, win' = win, lose' = lose,
         \A r \in Room : Fighting(r)' <=> Fighting(r)
  PROVE  UNCHANGED Game!matchVars
BY DEF Game!matchVars, At, Standing, Playing

-----------------------------------------------------------------------------
(* The steps *)

LEMMA MatchInit == Init => Game!Init
<1>. SUFFICES ASSUME Init PROVE Game!Init
  OBVIOUS
<1>1. Playing = {}
  BY DEF Init, Fighting, Playing
<1>2. At = [p \in Player |-> 0]
  BY DEF Init, At
<1>3. Standing = [p \in Player |-> FALSE]
  <2>1. \A p \in Player : (hp[p] > 0) = FALSE
    BY DEF Init
  <2>. QED BY <2>1, Zenon DEF Standing
<1>. QED BY <1>1, <1>2, <1>3 DEF Init, Game!Init

LEMMA JoinStep ==
  ASSUME IInv, NEW r \in Room, NEW p \in Player, Joins(r, p)
  PROVE  Game!Join(r, p)
<1>. DEFINE m == m_players[r]
            d == SwitchCamp(m \cup {p})
<1>0. TypeOK /\ RoomIdMatches /\ CampsFit /\ NoCampOutside
  BY DEF IInv
<1>1. /\ m \subseteq Player
      /\ p \notin m
      /\ ~Fighting(r)
      /\ roomId' = [roomId EXCEPT ![p] = r]
      /\ camp' = [camp EXCEPT ![p] = d]
      /\ m_status' = m_status /\ hp' = hp /\ win' = win /\ lose' = lose
  BY <1>0 DEF Joins, CanAdd, AddPlayer, TypeOK
<1>2. r > 0 /\ ~(roomId[p] > 0)
  <2>1. roomId[p] \in Room \cup {0, -1}
    BY <1>0 DEF TypeOK
  <2>2. \A s \in Room : s \in Int /\ s > 0
    BY RoomAssumption
  <2>3. roomId[p] \in Int
    BY <2>1, <2>2
  <2>. QED BY <2>2, <2>3 DEF Joins
<1>3. camp[p] = 0
  <2>1. \A s \in Room : s > 0
    BY RoomAssumption
  <2>. QED BY <2>1, <1>0, <1>2 DEF NoCampOutside
<1>4. At[p] = 0 /\ At' = [At EXCEPT ![p] = r]
  BY <1>0, <1>1, <1>2 DEF At, TypeOK
<1>5. \A c \in Camps : InCamp(m \cup {p}, camp, c) = InCamp(m, camp, c)
  BY <1>1, <1>3 DEF InCamp, Camps
<1>6. \A q \in m : camp[q] \in Camps
  BY <1>0 DEF CampsFit
<1>7. /\ Cardinality(InCamp(m, camp, 1)) \in Nat
      /\ Cardinality(InCamp(m, camp, 2)) \in Nat
      /\ Cardinality(m) = Cardinality(InCamp(m, camp, 1)) + Cardinality(InCamp(m, camp, 2))
  BY <1>1, <1>6, CampsMakeRoom
<1>8. d = IF Cardinality(InCamp(m, camp, 1)) > Cardinality(InCamp(m, camp, 2)) THEN 2 ELSE 1
  BY <1>5 DEF SwitchCamp, Camps
<1>9. Cardinality(m) < MaxPlayers
  BY DEF Joins, CanAdd
<1>10. /\ d \in {1, 2}
       /\ Cardinality(InCamp(m, camp, d)) < BirthSlots
       /\ Cardinality(InCamp(m, camp, d)) <= Cardinality(InCamp(m, camp, 3 - d))
  <2>. HIDE DEF m, d
  <2>1. CASE Cardinality(InCamp(m, camp, 1)) > Cardinality(InCamp(m, camp, 2))
    <3>1. d = 2 /\ 3 - d = 1
      BY <1>8, <2>1
    <3>. QED BY <1>7, <1>9, <2>1, <3>1, TableAssumption
  <2>2. CASE ~(Cardinality(InCamp(m, camp, 1)) > Cardinality(InCamp(m, camp, 2)))
    <3>1. d = 1 /\ 3 - d = 2
      BY <1>8, <2>2
    <3>. QED BY <1>7, <1>9, <2>2, <3>1, TableAssumption
  <2>. QED BY <2>1, <2>2
<1>11. \A c : Game!Team(r, c) = InCamp(m, camp, c)
  BY <1>0, MappedRooms
<1>12. r \notin Playing /\ Playing' = Playing /\ Standing' = Standing
  BY <1>1 DEF Playing, Standing, Fighting
<1>. HIDE DEF m, d
<1>. QED BY <1>1, <1>4, <1>10, <1>11, <1>12, SameCardinality DEF Game!Join

LEMMA LeaveStep ==
  ASSUME IInv, NEW r \in Room, NEW p \in Player, Leaves(r, p)
  PROVE  Game!Leave(r, p)
<1>0. TypeOK /\ RoomIdMatches
  BY DEF IInv
<1>1. /\ roomId[p] = r
      /\ roomId' = [roomId EXCEPT ![p] = -1]
      /\ camp' = [camp EXCEPT ![p] = 0]
      /\ lose' = [lose EXCEPT ![p] = IF Fighting(r) THEN @ + 1 ELSE @]
      /\ m_status' = m_status /\ hp' = hp /\ win' = win
  BY <1>0 DEF Leaves, RemovePlayer, RoomIdMatches
<1>2. At[p] = r /\ At' = [At EXCEPT ![p] = 0]
  <2>1. r > 0 /\ ~(-1 > 0)
    BY RoomAssumption
  <2>. QED BY <1>0, <1>1, <2>1 DEF At, TypeOK
<1>3. Playing' = Playing /\ Standing' = Standing /\ (r \in Playing <=> Fighting(r))
  BY <1>1 DEF Playing, Standing, Fighting
<1>4. lose' = Game!PlusOne(lose, IF r \in Playing THEN {p} ELSE {})
  BY <1>0, <1>1, <1>3 DEF Game!PlusOne, TypeOK
<1>. QED BY <1>1, <1>2, <1>3, <1>4 DEF Game!Leave

LEMMA StartStep ==
  ASSUME IInv, NEW r \in Room, NEW p \in Player, Starts(r, p)
  PROVE  Game!Start(r)
<1>0. TypeOK /\ RoomIdMatches
  BY DEF IInv
<1>1. /\ ~Fighting(r)
      /\ Cardinality(m_players[r]) >= 2
      /\ m_status' = [m_status EXCEPT ![r] = "Fighting"]
      /\ hp' = [q \in Player |-> IF q \in m_players[r] THEN FullHp ELSE hp[q]]
      /\ roomId' = roomId /\ camp' = camp /\ win' = win /\ lose' = lose
  BY DEF Starts, CanStartBattle, StartBattle
<1>2. Game!Members(r) = m_players[r] /\ r \notin Playing
  BY <1>0, <1>1, MappedRooms
<1>3. Playing' = Playing \cup {r}
  BY <1>0, <1>1 DEF Playing, Fighting, TypeOK
<1>4. Standing' = [q \in Player |-> q \in m_players[r] \/ Standing[q]]
  <2>1. \A q \in Player : (hp'[q] > 0) = (q \in m_players[r] \/ hp[q] > 0)
    BY <1>1, BattleAssumption
  <2>. QED BY <2>1 DEF Standing
<1>5. At' = At
  BY <1>1 DEF At
<1>. QED BY <1>1, <1>2, <1>3, <1>4, <1>5, SameCardinality DEF Game!Start

LEMMA FallStep ==
  ASSUME IInv, NEW r \in Room, NEW p \in Player, Notifies(r, p)
  PROVE  UNCHANGED Game!matchVars \/ \E t \in Player : Game!Fall(r, t)
<1>0. TypeOK /\ RoomIdMatches
  BY DEF IInv
<1>1. /\ Fighting(r)
      /\ m_status' = m_status
      /\ roomId' = roomId /\ camp' = camp /\ win' = win /\ lose' = lose
  BY DEF Notifies, roomVars
<1>2. CASE hp' = hp
  BY <1>1, <1>2, QuietStep DEF Fighting
<1>3. ASSUME NEW t \in m_players[r], hp' = [hp EXCEPT ![t] = @ - Damage]
      PROVE  UNCHANGED Game!matchVars \/ \E u \in Player : Game!Fall(r, u)
  <2>1. t \in Player /\ At[t] = r /\ r \in Playing
    BY <1>0, <1>1, MappedRooms DEF TypeOK
  <2>2. At' = At /\ Playing' = Playing
    BY <1>1 DEF At, Playing, Fighting
  <2>3. \A q \in Player \ {t} : (hp'[q] > 0) = (hp[q] > 0)
    BY <1>0, <1>3 DEF TypeOK
  <2>4. CASE ~(hp'[t] > 0)
    <3>1. \A q \in Player : (hp'[q] > 0) = IF q = t THEN FALSE ELSE Standing[q]
      <4>1. \A q \in Player : Standing[q] = (hp[q] > 0)
        BY DEF Standing
      <4>2. (hp'[t] > 0) = FALSE
        BY <2>4
      <4>. QED BY <2>3, <4>1, <4>2, Zenon
    <3>2. Standing' = [Standing EXCEPT ![t] = FALSE]
      <4>1. [Standing EXCEPT ![t] = FALSE] =
              [q \in Player |-> IF q = t THEN FALSE ELSE Standing[q]]
        BY Zenon DEF Standing
      <4>2. Standing' = [q \in Player |-> hp'[q] > 0]
        BY DEF Standing
      <4>. QED BY <3>1, <4>1, <4>2, Zenon
    <3>3. Game!Fall(r, t)
      BY <1>1, <2>1, <2>2, <3>2 DEF Game!Fall
    <3>. QED BY <2>1, <3>3
  <2>5. CASE hp'[t] > 0
    <3>1. hp[t] > 0
      BY <1>0, <1>3, <2>1, <2>5, BattleAssumption DEF TypeOK
    <3>2. Standing' = Standing
      BY <2>1, <2>3, <2>5, <3>1 DEF Standing
    <3>. QED BY <1>1, <2>2, <3>2 DEF Game!matchVars
  <2>. QED BY <2>4, <2>5
<1>. QED BY <1>2, <1>3 DEF Notifies

LEMMA EndStep ==
  ASSUME IInv, NEW r \in Room, Tick(r)
  PROVE  Game!End(r)
<1>. DEFINE m == m_players[r]
            w == JudgeWin(r)
<1>0. TypeOK /\ RoomIdMatches /\ CampsFit
  BY DEF IInv
<1>1. /\ Fighting(r)
      /\ w \in {1, 2}
      /\ m_status' = [m_status EXCEPT ![r] = "Preparing"]
      /\ win' = [q \in Player |-> IF q \in InCamp(m, camp, w) THEN win[q] + 1 ELSE win[q]]
      /\ lose' = [q \in Player |->
                    IF q \in m \ InCamp(m, camp, w) THEN lose[q] + 1 ELSE lose[q]]
      /\ roomId' = roomId /\ camp' = camp /\ hp' = hp
  BY JudgeWinType DEF Tick, Update, FinishBattle
<1>2. \A q \in m : camp[q] \in {1, 2}
  BY <1>0 DEF CampsFit, Camps
<1>3. /\ Game!Members(r) = m
      /\ \A c : Game!Team(r, c) = InCamp(m, camp, c)
      /\ r \in Playing
  BY <1>0, <1>1, MappedRooms
<1>4. PICK c \in {1, 2} : c = 3 - w
  BY <1>1
<1>5. InCamp(m, camp, c) = m \ InCamp(m, camp, w) /\ m \ InCamp(m, camp, c) = InCamp(m, camp, w)
  BY <1>1, <1>2, <1>4 DEF InCamp
<1>6. \A q \in InCamp(m, camp, c) : ~Standing[q]
  <2>1. m \subseteq Player
    BY <1>0 DEF TypeOK
  <2>2. \A q \in InCamp(m, camp, c) : ~(hp[q] > 0)
    BY <1>1, <1>4 DEF InCamp, JudgeWin
  <2>. QED BY <2>1, <2>2 DEF InCamp, Standing
<1>7. Playing' = Playing \ {r}
  BY <1>0, <1>1 DEF Playing, Fighting, TypeOK
<1>8. At' = At /\ Standing' = Standing
  BY <1>1 DEF At, Standing
<1>9. /\ lose' = Game!PlusOne(lose, Game!Team(r, c))
      /\ win' = Game!PlusOne(win, Game!Members(r) \ Game!Team(r, c))
  BY <1>1, <1>3, <1>5 DEF Game!PlusOne
<1>. HIDE DEF m, w
<1>. QED BY <1>1, <1>3, <1>6, <1>7, <1>8, <1>9 DEF Game!End

LEMMA MatchStep == IInv /\ [RoomsNext]_vars => [Game!Next]_Game!matchVars
<1>. SUFFICES ASSUME IInv, [RoomsNext]_vars
              PROVE  Game!Next \/ UNCHANGED Game!matchVars
  BY DEF Game!matchVars
<1>1. CASE UNCHANGED vars
  BY <1>1, QuietStep DEF vars, roomVars, playerVars, Fighting
<1>2. ASSUME NEW r \in Room, Create(r) PROVE UNCHANGED Game!matchVars
  <2>1. \A s \in Room : Fighting(s)' <=> Fighting(s)
    BY <1>2 DEF Create, Fighting, IInv, TypeOK, NotStartedYet
  <2>. QED BY <1>2, <2>1, QuietStep DEF Create, playerVars
<1>3. ASSUME NEW r \in Room, Remove(r) PROVE UNCHANGED Game!matchVars
  BY <1>3, QuietStep DEF Remove, Destroy, playerVars, Fighting
<1>4. ASSUME NEW r \in Room, Tick(r) PROVE Game!Next
  BY <1>4, EndStep DEF Game!Next
<1>5. ASSUME NEW r \in Room, NEW p \in Player, Joins(r, p) PROVE Game!Next
  BY <1>5, JoinStep DEF Game!Next
<1>6. ASSUME NEW r \in Room, NEW p \in Player, Leaves(r, p) PROVE Game!Next
  BY <1>6, LeaveStep DEF Game!Next
<1>7. ASSUME NEW r \in Room, NEW p \in Player, Starts(r, p) PROVE Game!Next
  BY <1>7, StartStep DEF Game!Next
<1>8. ASSUME NEW r \in Room, NEW p \in Player, Notifies(r, p)
      PROVE  Game!Next \/ UNCHANGED Game!matchVars
  BY <1>8, FallStep DEF Game!Next
<1>. QED BY <1>1, <1>2, <1>3, <1>4, <1>5, <1>6, <1>7, <1>8, Steps

-----------------------------------------------------------------------------
\* Whatever messages the rooms take, and in whatever order, their players see the game that module
\* Match describes.
THEOREM RoomsImplementMatch == RoomsSpec => ImplementsMatch
BY MatchInit, MatchStep, Invariance, PTL DEF RoomsSpec, ImplementsMatch, Game!Spec
=============================================================================
