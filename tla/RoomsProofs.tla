---------------------------- MODULE RoomsProofs ----------------------------
(***************************************************************************)
(* What TLAPS proves of Rooms, for every set of players and rooms and      *)
(* every size of a room: the type invariant and the safety properties.     *)
(***************************************************************************)
EXTENDS Rooms, TLAPS, FiniteSetTheorems, WellFoundedInduction

-----------------------------------------------------------------------------
(* The operators of the model *)

\* A nonempty set of names has a first one.
LEMMA FirstNameExists ==
  ASSUME NEW S, S \subseteq Nat, S # {}
  PROVE  \E q \in S : \A s \in S : q <= s
<1>1. PICK q \in S : \A s \in S : ~(<<s, q>> \in OpToRel(<, Nat))
  BY NatLessThanWellFounded, WFMin, Zenon
<1>2. \A s \in S : ~(s < q)
  BY <1>1 DEF OpToRel
<1>. QED BY <1>2

\* The new owner is one of the players left.
LEMMA SwitchOwnerInRoom ==
  ASSUME NEW S, S \subseteq Player, S # {}
  PROVE  SwitchOwner(S) \in S
BY FirstNameExists, PlayerAssumption DEF SwitchOwner

\* The players of a room, and those of them in a camp, are finitely many.
LEMMA FinitePlayers ==
  ASSUME NEW S, S \subseteq Player
  PROVE  IsFiniteSet(S) /\ Cardinality(S) \in Nat
BY FS_Subset, FS_CardinalityType, PlayerAssumption

\* A birth index is a natural number.
LEMMA BirthIndexType ==
  ASSUME NEW S, S \subseteq Player, NEW p
  PROVE  BirthIndex(S, p) \in Nat
<1>1. {q \in S : q < p /\ (camp[q] = 1 <=> camp[p] = 1)} \subseteq Player
  OBVIOUS
<1>. QED BY <1>1, FinitePlayers DEF BirthIndex

\* A player list is made of entries.
LEMMA RoomInfoType ==
  ASSUME NEW S, S \subseteq Player, NEW cmp, cmp \in [Player -> 0..2], NEW o,
         NEW w, w \in [Player -> Nat], NEW l, l \in [Player -> Nat]
  PROVE  RoomInfo(S, cmp, o, w, l) \subseteq Entry
<1>. SUFFICES ASSUME NEW q \in S
              PROVE  [id |-> q, camp |-> cmp[q], win |-> w[q], lost |-> l[q], isOwner |-> q = o]
                       \in Entry
  BY DEF RoomInfo
<1>1. q \in Player /\ cmp[q] \in 0..2 /\ w[q] \in Nat /\ l[q] \in Nat /\ (q = o) \in BOOLEAN
  OBVIOUS
<1>. QED BY <1>1 DEF Entry

LEMMA SwitchCampType == ASSUME NEW S PROVE SwitchCamp(S) \in Camps
BY DEF SwitchCamp, Camps

LEMMA JudgeWinType == ASSUME NEW r PROVE JudgeWin(r) \in 0..2
BY DEF JudgeWin

-----------------------------------------------------------------------------
(* Type correctness *)

LEMMA AddPlayerType ==
  ASSUME TypeOK, NEW r \in Room, NEW p \in Player, AddPlayer(r, p)
  PROVE  TypeOK'
<1>. DEFINE S == m_players[r] \cup {p}
<1>1. S \subseteq Player
  BY DEF TypeOK
<1>2. SwitchCamp(S) \in 0..2
  BY SwitchCampType DEF Camps
<1>3. camp' \in [Player -> 0..2]
  BY <1>2 DEF AddPlayer, TypeOK
<1>4. m_ownerID' \in [Room -> Player \cup {NoOwner}]
  BY DEF AddPlayer, TypeOK
<1>5. RoomInfo(S, camp', m_ownerID'[r], win, lose) \subseteq Entry
  BY <1>1, <1>3, RoomInfoType DEF TypeOK
<1>6. view' \in [Player -> SUBSET Entry]
  BY <1>5 DEF AddPlayer, TypeOK, Sent
<1>7. roomId' \in [Player -> Room \cup {0, -1}]
  BY DEF AddPlayer, TypeOK
<1>8. m_players' \in [Room -> SUBSET Player]
  BY <1>1 DEF AddPlayer, TypeOK
<1>9. notice' \in [Player -> InBattle \cup {"none", "MsgBattleResult"}]
  BY DEF AddPlayer, TypeOK
<1>. QED BY <1>3, <1>4, <1>6, <1>7, <1>8, <1>9 DEF AddPlayer, TypeOK

LEMMA RemovePlayerType ==
  ASSUME TypeOK, NEW r \in Room, NEW p \in Player, RemovePlayer(r, p)
  PROVE  TypeOK'
<1>. DEFINE S == m_players[r] \ {p}
            owner == NextOwner(r, S, p)
<1>1. S \subseteq Player
  BY DEF TypeOK
<1>2. owner \in Player \cup {NoOwner}
  BY <1>1, SwitchOwnerInRoom DEF NextOwner, TypeOK
<1>3. camp' \in [Player -> 0..2]
  BY DEF RemovePlayer, TypeOK
<1>4. lose' \in [Player -> Nat]
  BY DEF RemovePlayer, TypeOK
<1>5. RoomInfo(S, camp', owner, win, lose') \subseteq Entry
  BY <1>1, <1>3, <1>4, RoomInfoType DEF TypeOK
<1>6. view' \in [Player -> SUBSET Entry]
  BY <1>5 DEF RemovePlayer, TypeOK, Sent
<1>7. notice' \in [Player -> InBattle \cup {"none", "MsgBattleResult"}]
  BY DEF RemovePlayer, TypeOK, Sent, InBattle
<1>8. m_ownerID' \in [Room -> Player \cup {NoOwner}]
  BY <1>2 DEF RemovePlayer, TypeOK
<1>9. m_players' \in [Room -> SUBSET Player]
  BY <1>1 DEF RemovePlayer, TypeOK
<1>10. roomId' \in [Player -> Room \cup {0, -1}]
  BY DEF RemovePlayer, TypeOK
<1>11. removing' \in [Room -> BOOLEAN]
  BY DEF RemovePlayer, TypeOK, LastToLeave
<1>. QED
  BY <1>3, <1>4, <1>6, <1>7, <1>8, <1>9, <1>10, <1>11 DEF RemovePlayer, TypeOK

LEMMA StartBattleType ==
  ASSUME TypeOK, NEW r \in Room, StartBattle(r)
  PROVE  TypeOK'
<1>1. m_players[r] \subseteq Player
  BY DEF TypeOK
<1>2. \A q \in Player : <<camp[q], BirthIndex(m_players[r], q)>> \in (0..2) \X Nat
  BY <1>1, BirthIndexType DEF TypeOK
<1>3. pos' \in [Player -> (0..2) \X Nat]
  BY <1>2 DEF StartBattle, TypeOK
<1>4. hp' \in [Player -> Int]
  BY BattleAssumption DEF StartBattle, TypeOK
<1>5. notice' \in [Player -> InBattle \cup {"none", "MsgBattleResult"}]
  BY DEF StartBattle, TypeOK, Sent, InBattle
<1>6. fought' \in [Player -> Nat]
  BY DEF StartBattle, TypeOK
<1>7. m_status' \in [Room -> {"Preparing", "Fighting"}] /\ m_timeID' \in [Room -> 0..1]
  BY DEF StartBattle, TypeOK
<1>. QED BY <1>3, <1>4, <1>5, <1>6, <1>7 DEF StartBattle, TypeOK

LEMMA FinishBattleType ==
  ASSUME TypeOK, NEW r \in Room, NEW w, FinishBattle(r, w)
  PROVE  TypeOK'
<1>1. win' \in [Player -> Nat] /\ lose' \in [Player -> Nat]
  BY DEF FinishBattle, TypeOK
<1>2. notice' \in [Player -> InBattle \cup {"none", "MsgBattleResult"}]
  BY DEF FinishBattle, TypeOK, Sent
<1>3. m_status' \in [Room -> {"Preparing", "Fighting"}] /\ m_timeID' \in [Room -> 0..1]
  BY DEF FinishBattle, TypeOK
<1>. QED BY <1>1, <1>2, <1>3 DEF FinishBattle, TypeOK

LEMMA UnchangedType == ASSUME TypeOK, UNCHANGED vars PROVE TypeOK'
BY DEF TypeOK, vars, roomVars, playerVars, clientVars

\* Every step of the rooms keeps the types.
LEMMA TypeStep == TypeOK /\ [RoomsNext]_vars => TypeOK'
<1>. SUFFICES ASSUME TypeOK, [RoomsNext]_vars PROVE TypeOK'
  OBVIOUS
<1>0. CASE UNCHANGED vars
  BY <1>0, UnchangedType
<1>1. ASSUME NEW r \in Room, Create(r) PROVE TypeOK'
  BY <1>1 DEF Create, TypeOK, playerVars, clientVars
<1>2. ASSUME NEW r \in Room, Remove(r) PROVE TypeOK'
  BY <1>2 DEF Remove, Destroy, TypeOK, playerVars, clientVars
<1>3. ASSUME NEW r \in Room, Tick(r) PROVE TypeOK'
  BY <1>3, FinishBattleType DEF Tick, Update
<1>4. ASSUME NEW r \in Room, NEW p \in Player, Enter(r, p) PROVE TypeOK'
  BY <1>4, AddPlayerType, UnchangedType DEF Enter, HandleAddPlayer
<1>5. ASSUME NEW r \in Room, NEW p \in Player, Leave(r, p) PROVE TypeOK'
  BY <1>5, RemovePlayerType, UnchangedType DEF Leave, HandleRemovePlayer
<1>6. ASSUME NEW r \in Room, NEW p \in Player, Start(r, p) PROVE TypeOK'
  BY <1>6, StartBattleType, UnchangedType DEF Start, HandleStartBattle
<1>7. ASSUME NEW r \in Room, NEW p \in Player, Sync(r, p) PROVE TypeOK'
  <2>1. CASE UNCHANGED vars
    BY <2>1, UnchangedType
  <2>2. CASE ~UNCHANGED vars
    <3>1. pos' \in [Player -> (0..2) \X Nat]
      BY <1>7, <2>2 DEF Sync, HandleSyncTank, Moved, TypeOK
    <3>2. notice' \in [Player -> InBattle \cup {"none", "MsgBattleResult"}]
      BY <1>7, <2>2 DEF Sync, HandleSyncTank, Sent, InBattle, TypeOK
    <3>. QED BY <1>7, <2>2, <3>1, <3>2 DEF Sync, HandleSyncTank, TypeOK, roomVars
  <2>. QED BY <2>1, <2>2
<1>8. ASSUME NEW r \in Room, NEW p \in Player, Fire(r, p) PROVE TypeOK'
  BY <1>8, UnchangedType
     DEF Fire, HandleFire, Sent, InBattle, TypeOK, roomVars, playerVars
<1>9. ASSUME NEW r \in Room, NEW p \in Player, NEW t \in Player, Hit(r, p, t) PROVE TypeOK'
  <2>1. CASE UNCHANGED vars
    BY <2>1, UnchangedType
  <2>2. CASE ~UNCHANGED vars
    <3>1. hp' \in [Player -> Int]
      BY <1>9, <2>2, BattleAssumption DEF Hit, HandleHit, TypeOK
    <3>2. notice' \in [Player -> InBattle \cup {"none", "MsgBattleResult"}]
      BY <1>9, <2>2 DEF Hit, HandleHit, Sent, InBattle, TypeOK
    <3>. QED BY <1>9, <2>2, <3>1, <3>2 DEF Hit, HandleHit, TypeOK, roomVars
  <2>. QED BY <2>1, <2>2
<1>. QED BY <1>0, <1>1, <1>2, <1>3, <1>4, <1>5, <1>6, <1>7, <1>8, <1>9 DEF RoomsNext, Always

LEMMA TypeInit == Init => TypeOK
BY PlayerAssumption, RoomAssumption DEF Init, TypeOK, NoPos

\* The rooms keep the types of their variables, whatever messages they are sent and in
\* whatever order.
THEOREM TypeCorrect == RoomsSpec => []TypeOK
BY TypeInit, TypeStep, PTL DEF RoomsSpec

-----------------------------------------------------------------------------
(* The steps that change something *)

Joins(r, p) ==
  service[r] = "running" /\ roomId[p] <= 0 /\ CanAdd(r, p) /\ AddPlayer(r, p)

Leaves(r, p) == p \in m_players[r] /\ RemovePlayer(r, p)

Starts(r, p) == service[r] = "running" /\ CanStartBattle(r, p) /\ StartBattle(r)

\* A battle message: what SyncTank, Fire and Hit have in common.
Notifies(r, p) ==
  /\ Fighting(r)
  /\ p \in m_players[r]
  /\ \E msg \in InBattle : notice' = Sent(notice, m_players[r], msg)
  /\ pos' = pos \/ pos' = [pos EXCEPT ![p] = Moved]
  /\ hp' = hp \/ \E t \in m_players[r] : hp' = [hp EXCEPT ![t] = @ - Damage]
  /\ UNCHANGED <<roomVars, roomId, camp, win, lose, view, fought>>

\* The steps of the rooms, without the messages that are refused.
LEMMA Steps ==
  ASSUME [RoomsNext]_vars
  PROVE  \/ UNCHANGED vars
         \/ \E r \in Room : Create(r) \/ Remove(r) \/ Tick(r)
         \/ \E r \in Room, p \in Player :
              Joins(r, p) \/ Leaves(r, p) \/ Starts(r, p) \/ Notifies(r, p)
<1>1. ASSUME NEW r \in Room, NEW p \in Player, Enter(r, p)
      PROVE  UNCHANGED vars \/ Joins(r, p)
  BY <1>1 DEF Enter, HandleAddPlayer, Joins
<1>2. ASSUME NEW r \in Room, NEW p \in Player, Leave(r, p)
      PROVE  UNCHANGED vars \/ Leaves(r, p)
  BY <1>2 DEF Leave, HandleRemovePlayer, Leaves
<1>3. ASSUME NEW r \in Room, NEW p \in Player, Start(r, p)
      PROVE  UNCHANGED vars \/ Starts(r, p)
  BY <1>3 DEF Start, HandleStartBattle, Starts
<1>4. ASSUME NEW r \in Room, NEW p \in Player, Sync(r, p)
      PROVE  UNCHANGED vars \/ Notifies(r, p)
  BY <1>4 DEF Sync, HandleSyncTank, Notifies, InBattle
<1>5. ASSUME NEW r \in Room, NEW p \in Player, Fire(r, p)
      PROVE  UNCHANGED vars \/ Notifies(r, p)
  BY <1>5 DEF Fire, HandleFire, Notifies, InBattle, playerVars
<1>6. ASSUME NEW r \in Room, NEW p \in Player, NEW t \in Player, Hit(r, p, t)
      PROVE  UNCHANGED vars \/ Notifies(r, p)
  BY <1>6 DEF Hit, HandleHit, Notifies, InBattle
<1>. QED BY <1>1, <1>2, <1>3, <1>4, <1>5, <1>6 DEF RoomsNext, Always

-----------------------------------------------------------------------------
(* Rooms and their players *)

LEMMA NotStartedStep ==
  ASSUME TypeOK, NotStartedYet, [RoomsNext]_vars
  PROVE  NotStartedYet'
<1>. USE DEF NotStartedYet, Fighting
<1>1. CASE UNCHANGED vars
  BY <1>1 DEF vars, roomVars
<1>2. ASSUME NEW r \in Room, Create(r) PROVE NotStartedYet'
  BY <1>2 DEF Create, TypeOK
<1>3. ASSUME NEW r \in Room, Remove(r) PROVE NotStartedYet'
  BY <1>3 DEF Remove, Destroy, TypeOK
<1>4. ASSUME NEW r \in Room, Tick(r) PROVE NotStartedYet'
  BY <1>4 DEF Tick, Update, FinishBattle, TypeOK
<1>5. ASSUME NEW r \in Room, NEW p \in Player, Joins(r, p) PROVE NotStartedYet'
  BY <1>5 DEF Joins, AddPlayer, TypeOK
<1>6. ASSUME NEW r \in Room, NEW p \in Player, Leaves(r, p) PROVE NotStartedYet'
  BY <1>6 DEF Leaves, RemovePlayer, TypeOK
<1>7. ASSUME NEW r \in Room, NEW p \in Player, Starts(r, p) PROVE NotStartedYet'
  BY <1>7 DEF Starts, StartBattle, TypeOK
<1>8. ASSUME NEW r \in Room, NEW p \in Player, Notifies(r, p) PROVE NotStartedYet'
  BY <1>8 DEF Notifies, roomVars
<1>. QED BY <1>1, <1>2, <1>3, <1>4, <1>5, <1>6, <1>7, <1>8, Steps

\* Only joins and departures touch what relates the players to the rooms.
LEMMA Membership ==
  ASSUME [RoomsNext]_vars
  PROVE  \/ UNCHANGED <<m_players, roomId, camp, m_ownerID>>
         \/ \E r \in Room : Create(r)
         \/ \E r \in Room, p \in Player : Joins(r, p) \/ Leaves(r, p)
<1>1. ASSUME NEW r \in Room, Remove(r) \/ Tick(r)
      PROVE  UNCHANGED <<m_players, roomId, camp, m_ownerID>>
  BY <1>1 DEF Remove, Destroy, Tick, Update, FinishBattle, playerVars
<1>2. ASSUME NEW r \in Room, NEW p \in Player, Starts(r, p) \/ Notifies(r, p)
      PROVE  UNCHANGED <<m_players, roomId, camp, m_ownerID>>
  BY <1>2 DEF Starts, StartBattle, Notifies, roomVars
<1>. QED BY <1>1, <1>2, Steps DEF vars, roomVars, playerVars

LEMMA RoomIdStep ==
  ASSUME TypeOK, RoomIdMatches, [RoomsNext]_vars
  PROVE  RoomIdMatches'
<1>. USE DEF RoomIdMatches
<1>1. CASE UNCHANGED <<m_players, roomId, camp, m_ownerID>>
  BY <1>1
<1>2. ASSUME NEW r \in Room, Create(r) PROVE RoomIdMatches'
  BY <1>2 DEF Create, playerVars
<1>3. ASSUME NEW r \in Room, NEW p \in Player, Joins(r, p) PROVE RoomIdMatches'
  <2>1. \A s \in Room : p \notin m_players[s]
    BY <1>3, RoomAssumption DEF Joins
  <2>2. roomId' = [roomId EXCEPT ![p] = r]
        /\ m_players' = [m_players EXCEPT ![r] = m_players[r] \cup {p}]
    BY <1>3 DEF Joins, AddPlayer
  <2>. QED BY <2>1, <2>2 DEF TypeOK
<1>4. ASSUME NEW r \in Room, NEW p \in Player, Leaves(r, p) PROVE RoomIdMatches'
  <2>1. roomId[p] = r /\ -1 \notin Room
    BY <1>4, RoomAssumption DEF Leaves
  <2>2. roomId' = [roomId EXCEPT ![p] = -1]
        /\ m_players' = [m_players EXCEPT ![r] = m_players[r] \ {p}]
    BY <1>4 DEF Leaves, RemovePlayer
  <2>. QED BY <2>1, <2>2 DEF TypeOK
<1>. QED BY <1>1, <1>2, <1>3, <1>4, Membership

LEMMA NoCampStep ==
  ASSUME TypeOK, NoCampOutside, [RoomsNext]_vars
  PROVE  NoCampOutside'
<1>. USE DEF NoCampOutside
<1>1. CASE UNCHANGED <<m_players, roomId, camp, m_ownerID>>
  BY <1>1
<1>2. ASSUME NEW r \in Room, Create(r) PROVE NoCampOutside'
  BY <1>2 DEF Create, playerVars
<1>3. ASSUME NEW r \in Room, NEW p \in Player, Joins(r, p) PROVE NoCampOutside'
  BY <1>3 DEF Joins, AddPlayer, TypeOK
<1>4. ASSUME NEW r \in Room, NEW p \in Player, Leaves(r, p) PROVE NoCampOutside'
  BY <1>4 DEF Leaves, RemovePlayer, TypeOK
<1>. QED BY <1>1, <1>2, <1>3, <1>4, Membership

LEMMA OwnerStep ==
  ASSUME TypeOK, OwnerInRoom, NotStartedYet, [RoomsNext]_vars
  PROVE  OwnerInRoom'
<1>. USE DEF OwnerInRoom
<1>1. CASE UNCHANGED <<m_players, roomId, camp, m_ownerID>>
  BY <1>1
<1>2. ASSUME NEW r \in Room, Create(r) PROVE OwnerInRoom'
  BY <1>2 DEF Create, NotStartedYet, TypeOK
<1>3. ASSUME NEW r \in Room, NEW p \in Player, Joins(r, p) PROVE OwnerInRoom'
  BY <1>3 DEF Joins, AddPlayer, TypeOK
<1>4. ASSUME NEW r \in Room, NEW p \in Player, Leaves(r, p) PROVE OwnerInRoom'
  <2>. DEFINE S == m_players[r] \ {p}
  <2>1. S \subseteq Player
    BY DEF TypeOK
  <2>2. S # {} => NextOwner(r, S, p) \in S
    BY <2>1, SwitchOwnerInRoom, <1>4 DEF NextOwner, Leaves
  <2>3. /\ m_players' = [m_players EXCEPT ![r] = S]
        /\ m_ownerID' = [m_ownerID EXCEPT ![r] = NextOwner(r, S, p)]
    BY <1>4 DEF Leaves, RemovePlayer
  <2>. QED BY <2>2, <2>3 DEF TypeOK
<1>. QED BY <1>1, <1>2, <1>3, <1>4, Membership

-----------------------------------------------------------------------------
(* Camps *)

\* When every player of S has a camp, the two camps make up S.
LEMMA CampsMakeRoom ==
  ASSUME NEW S, S \subseteq Player, \A q \in S : camp[q] \in Camps
  PROVE  /\ Cardinality(InCamp(S, camp, 1)) \in Nat
         /\ Cardinality(InCamp(S, camp, 2)) \in Nat
         /\ Cardinality(S) = Cardinality(InCamp(S, camp, 1)) + Cardinality(InCamp(S, camp, 2))
<1>. DEFINE A == InCamp(S, camp, 1)
            B == InCamp(S, camp, 2)
<1>1. /\ A \subseteq Player
      /\ B \subseteq Player
      /\ A \cup B = S
      /\ A \cap B = {}
  BY DEF InCamp, Camps
<1>2. IsFiniteSet(A) /\ IsFiniteSet(B) /\ Cardinality(A) \in Nat /\ Cardinality(B) \in Nat
  BY <1>1, FinitePlayers
<1>3. Cardinality(A \cup B) = Cardinality(A) + Cardinality(B) - Cardinality(A \cap B)
  BY <1>2, FS_Union
<1>4. Cardinality(A \cap B) = 0
  BY <1>1, FS_EmptySet
<1>5. Cardinality(S) = Cardinality(A \cup B)
  BY <1>1, Zenon
<1>6. Cardinality(S) = Cardinality(A) + Cardinality(B)
  BY <1>2, <1>3, <1>4, <1>5
<1>. QED BY <1>2, <1>6

\* The joining player's camp has a birth position left.
LEMMA JoinedCamp ==
  ASSUME TypeOK, NoCampOutside, RoomIdMatches, CampsFit,
         NEW r \in Room, NEW p \in Player, Joins(r, p),
         NEW c \in Camps
  PROVE  Cardinality(InCamp(m_players[r] \cup {p}, camp', c)) <= BirthSlots
<1>. DEFINE m == m_players[r]
            S == m \cup {p}
            d == SwitchCamp(S)
<1>1. /\ m \subseteq Player
      /\ p \notin m
      /\ Cardinality(m) < MaxPlayers
  BY DEF TypeOK, Joins, CanAdd
<1>0. camp[p] = 0
  <2>1. roomId[p] <= 0
    BY DEF Joins
  <2>2. ASSUME roomId[p] \in Room PROVE FALSE
    <3>1. roomId[p] \in Nat \ {0}
      BY <2>2, RoomAssumption
    <3>. QED BY <2>1, <3>1
  <2>. QED BY <2>2 DEF NoCampOutside
<1>2. \A q \in m : camp[q] \in Camps
  BY DEF CampsFit
<1>3. camp' = [camp EXCEPT ![p] = d]
  BY <1>1 DEF Joins, AddPlayer
<1>4. d \in Camps
  BY SwitchCampType
<1>5. \A k \in Camps : InCamp(S, camp, k) = InCamp(m, camp, k)
  BY <1>0, <1>1 DEF InCamp, Camps
<1>6. /\ Cardinality(InCamp(m, camp, 1)) \in Nat
      /\ Cardinality(InCamp(m, camp, 2)) \in Nat
      /\ Cardinality(m) = Cardinality(InCamp(m, camp, 1)) + Cardinality(InCamp(m, camp, 2))
  BY <1>1, <1>2, CampsMakeRoom
<1>7. CASE c # d
  <2>1. InCamp(S, camp', c) = InCamp(m, camp, c)
    BY <1>1, <1>3, <1>7 DEF InCamp, TypeOK
  <2>. QED BY <2>1 DEF CampsFit
<1>8. CASE c = d
  <2>1. InCamp(S, camp', c) = InCamp(m, camp, c) \cup {p}
    BY <1>1, <1>3, <1>8 DEF InCamp, TypeOK
  <2>2. InCamp(m, camp, c) \subseteq Player /\ p \notin InCamp(m, camp, c)
    BY <1>1 DEF InCamp
  <2>3. Cardinality(InCamp(S, camp', c)) = Cardinality(InCamp(m, camp, c)) + 1
    BY <2>1, <2>2, FinitePlayers, FS_AddElement
  <2>4. d = IF Cardinality(InCamp(m, camp, 1)) > Cardinality(InCamp(m, camp, 2)) THEN 2 ELSE 1
    BY <1>5 DEF SwitchCamp, Camps
  <2>. HIDE DEF m, S, d
  <2>5. Cardinality(InCamp(m, camp, c)) < BirthSlots
    BY <1>1, <1>6, <1>8, <2>4, TableAssumption
  <2>6. Cardinality(InCamp(m, camp, c)) \in Nat
    BY <1>4, <1>6, <1>8 DEF Camps
  <2>7. Cardinality(InCamp(S, camp', c)) <= BirthSlots
    BY <2>3, <2>5, <2>6, TableAssumption
  <2>. QED BY <2>7 DEF S, m
<1>. QED BY <1>7, <1>8

LEMMA CampsStep ==
  ASSUME TypeOK, NoCampOutside, RoomIdMatches, NotStartedYet, CampsFit, [RoomsNext]_vars
  PROVE  CampsFit'
<1>1. CASE UNCHANGED <<m_players, roomId, camp, m_ownerID>>
  BY <1>1 DEF CampsFit, InCamp
<1>2. ASSUME NEW r \in Room, Create(r) PROVE CampsFit'
  BY <1>2 DEF Create, playerVars, CampsFit, InCamp
<1>3. ASSUME NEW r \in Room, NEW p \in Player, Joins(r, p) PROVE CampsFit'
  <2>1. /\ m_players' = [m_players EXCEPT ![r] = m_players[r] \cup {p}]
        /\ camp' = [camp EXCEPT ![p] = SwitchCamp(m_players[r] \cup {p})]
        /\ \A s \in Room : p \notin m_players[s]
    BY <1>3, RoomAssumption DEF Joins, AddPlayer, RoomIdMatches
  <2>2. \A s \in Room : \A q \in m_players'[s] : camp'[q] \in Camps
    BY <2>1, SwitchCampType DEF CampsFit, TypeOK
  <2>3. ASSUME NEW s \in Room, NEW c \in Camps
        PROVE  Cardinality(InCamp(m_players'[s], camp', c)) <= BirthSlots
    <3>1. CASE s = r
      BY <1>3, <2>1, <3>1, JoinedCamp DEF TypeOK
    <3>2. CASE s # r
      <4>1. InCamp(m_players'[s], camp', c) = InCamp(m_players[s], camp, c)
        BY <2>1, <3>2 DEF InCamp, TypeOK
      <4>. QED BY <4>1 DEF CampsFit
    <3>. QED BY <3>1, <3>2
  <2>. QED BY <2>2, <2>3 DEF CampsFit
<1>4. ASSUME NEW r \in Room, NEW p \in Player, Leaves(r, p) PROVE CampsFit'
  <2>1. /\ m_players' = [m_players EXCEPT ![r] = m_players[r] \ {p}]
        /\ camp' = [camp EXCEPT ![p] = 0]
        /\ \A s \in Room \ {r} : p \notin m_players[s]
    BY <1>4 DEF Leaves, RemovePlayer, RoomIdMatches
  <2>2. \A s \in Room : \A q \in m_players'[s] : camp'[q] \in Camps
    BY <2>1 DEF CampsFit, TypeOK
  <2>3. ASSUME NEW s \in Room, NEW c \in Camps
        PROVE  Cardinality(InCamp(m_players'[s], camp', c)) <= BirthSlots
    <3>1. /\ InCamp(m_players'[s], camp', c) \subseteq InCamp(m_players[s], camp, c)
          /\ InCamp(m_players[s], camp, c) \subseteq Player
      BY <2>1 DEF InCamp, TypeOK, Camps
    <3>2. Cardinality(InCamp(m_players'[s], camp', c))
            <= Cardinality(InCamp(m_players[s], camp, c))
      BY <3>1, FinitePlayers, FS_Subset
    <3>3. /\ Cardinality(InCamp(m_players'[s], camp', c)) \in Nat
          /\ Cardinality(InCamp(m_players[s], camp, c)) \in Nat
      BY <3>1, FinitePlayers
    <3>. QED BY <3>2, <3>3, TableAssumption DEF CampsFit
  <2>. QED BY <2>2, <2>3 DEF CampsFit
<1>. QED BY <1>1, <1>2, <1>3, <1>4, Membership

-----------------------------------------------------------------------------
(* What the clients of a room were told *)

\* A player list without its scores depends on the camps of its players only.
LEMMA MembersOfInfo ==
  ASSUME NEW S, NEW c, NEW o, NEW w, NEW l
  PROVE  Members(RoomInfo(S, c, o, w, l)) = {[id |-> q, camp |-> c[q], isOwner |-> q = o] : q \in S}
<1>. DEFINE List == RoomInfo(S, c, o, w, l)
            Entries == {[id |-> q, camp |-> c[q], isOwner |-> q = o] : q \in S}
<1>1. ASSUME NEW e \in List PROVE [id |-> e.id, camp |-> e.camp, isOwner |-> e.isOwner] \in Entries
  <2>1. PICK q \in S :
          e = [id |-> q, camp |-> c[q], win |-> w[q], lost |-> l[q], isOwner |-> q = o]
    BY <1>1 DEF RoomInfo
  <2>2. e.id = q /\ e.camp = c[q] /\ e.isOwner = (q = o)
    BY <2>1
  <2>. QED BY <2>2
<1>2. ASSUME NEW q \in S
      PROVE  \E e \in List : [id |-> q, camp |-> c[q], isOwner |-> q = o]
                               = [id |-> e.id, camp |-> e.camp, isOwner |-> e.isOwner]
  <2>. DEFINE e == [id |-> q, camp |-> c[q], win |-> w[q], lost |-> l[q], isOwner |-> q = o]
  <2>1. e \in List
    BY DEF RoomInfo
  <2>2. e.id = q /\ e.camp = c[q] /\ e.isOwner = (q = o)
    OBVIOUS
  <2>. QED BY <2>1, <2>2
<1>3. ASSUME NEW x \in Members(List) PROVE x \in Entries
  <2>1. PICK e \in List : x = [id |-> e.id, camp |-> e.camp, isOwner |-> e.isOwner]
    BY <1>3 DEF Members
  <2>. QED BY <1>1, <2>1
<1>4. ASSUME NEW x \in Entries PROVE x \in Members(List)
  <2>1. PICK q \in S : x = [id |-> q, camp |-> c[q], isOwner |-> q = o]
    BY <1>4, Zenon
  <2>2. PICK e \in List : x = [id |-> e.id, camp |-> e.camp, isOwner |-> e.isOwner]
    BY <1>2, <2>1
  <2>. QED BY <2>2 DEF Members
<1>. HIDE DEF Entries
<1>5. Members(List) = Entries
  BY <1>3, <1>4
<1>. QED BY <1>5 DEF Entries

LEMMA SameMembers ==
  ASSUME NEW S, NEW c1, NEW c2, NEW o, NEW w1, NEW w2, NEW l1, NEW l2, \A q \in S : c1[q] = c2[q]
  PROVE  Members(RoomInfo(S, c1, o, w1, l1)) = Members(RoomInfo(S, c2, o, w2, l2))
<1>1. {[id |-> q, camp |-> c1[q], isOwner |-> q = o] : q \in S}
        = {[id |-> q, camp |-> c2[q], isOwner |-> q = o] : q \in S}
  OBVIOUS
<1>2. Members(RoomInfo(S, c1, o, w1, l1))
        = {[id |-> q, camp |-> c1[q], isOwner |-> q = o] : q \in S}
  BY MembersOfInfo
<1>3. Members(RoomInfo(S, c2, o, w2, l2))
        = {[id |-> q, camp |-> c2[q], isOwner |-> q = o] : q \in S}
  BY MembersOfInfo
<1>. QED BY <1>1, <1>2, <1>3, Zenon

\* The scores that a list shows of a player are those it was made of.
LEMMA ScoresOfInfo ==
  ASSUME NEW S, NEW c, NEW o, NEW w, NEW l, NEW e \in RoomInfo(S, c, o, w, l)
  PROVE  e.id \in S /\ e.win = w[e.id] /\ e.lost = l[e.id]
BY DEF RoomInfo

\* Nobody loses a win or a defeat again.
LEMMA ScoresGrow ==
  ASSUME TypeOK, [RoomsNext]_vars, NEW q \in Player
  PROVE  win[q] <= win'[q] /\ lose[q] <= lose'[q]
<1>1. CASE UNCHANGED <<win, lose>>
  BY <1>1 DEF TypeOK
<1>2. ASSUME NEW r \in Room, Tick(r) PROVE win[q] <= win'[q] /\ lose[q] <= lose'[q]
  BY <1>2 DEF Tick, Update, FinishBattle, TypeOK
<1>3. ASSUME NEW r \in Room, NEW p \in Player, Leaves(r, p)
      PROVE  win[q] <= win'[q] /\ lose[q] <= lose'[q]
  BY <1>3 DEF Leaves, RemovePlayer, TypeOK
<1>4. ASSUME NEW r \in Room, Create(r) \/ Remove(r) PROVE UNCHANGED <<win, lose>>
  BY <1>4 DEF Create, Remove, Destroy, playerVars
<1>5. ASSUME NEW r \in Room, NEW p \in Player, Joins(r, p) \/ Starts(r, p) \/ Notifies(r, p)
      PROVE  UNCHANGED <<win, lose>>
  BY <1>5 DEF Joins, AddPlayer, Starts, StartBattle, Notifies
<1>6. UNCHANGED vars => UNCHANGED <<win, lose>>
  BY DEF vars, playerVars
<1>. QED BY <1>1, <1>2, <1>3, <1>4, <1>5, <1>6, Steps

\* No score of a list is ahead.
NoneAhead(list) == \A e \in list : e.win <= win[e.id] /\ e.lost <= lose[e.id]

\* A list that a client has already stays behind.
LEMMA StillBehind ==
  ASSUME TypeOK, [RoomsNext]_vars, NEW q \in Player, NoneAhead(view[q]), view'[q] = view[q]
  PROVE  NoneAhead(view[q])'
<1>. SUFFICES ASSUME NEW e \in view'[q] PROVE e.win <= win'[e.id] /\ e.lost <= lose'[e.id]
  BY DEF NoneAhead
<1>1. e \in Entry
  BY DEF TypeOK
<1>2. e.id \in Player /\ e.win \in Nat /\ e.lost \in Nat
  BY <1>1 DEF Entry
<1>3. e.win <= win[e.id] /\ e.lost <= lose[e.id]
  BY DEF NoneAhead
<1>4. win[e.id] <= win'[e.id] /\ lose[e.id] <= lose'[e.id]
  BY <1>2, ScoresGrow
<1>5. win[e.id] \in Nat /\ lose[e.id] \in Nat /\ win'[e.id] \in Nat /\ lose'[e.id] \in Nat
  BY <1>2, TypeStep DEF TypeOK
<1>. QED BY <1>2, <1>3, <1>4, <1>5

LEMMA ViewsStep ==
  ASSUME TypeOK, NotStartedYet, RoomIdMatches, ViewsAgree, [RoomsNext]_vars
  PROVE  ViewsAgree'
<1>. DEFINE Fits(q, r) ==
              /\ Members(view[q]) = Members(RoomInfo(m_players[r], camp, m_ownerID[r], win, lose))
              /\ NoneAhead(view[q])
<1>a. \A r \in Room : \A q \in m_players[r] : Fits(q, r)
  BY DEF ViewsAgree, NoneAhead
<1>b. SUFFICES \A r \in Room : \A q \in m_players'[r] : Fits(q, r)'
  BY DEF ViewsAgree, NoneAhead
<1>c. TypeOK'
  BY TypeStep
\* A room whose players, camps and owner stay the same, as the lists of its players do.
<1>d. ASSUME NEW s \in Room, NEW q \in m_players'[s],
             m_players'[s] = m_players[s], m_ownerID'[s] = m_ownerID[s], view'[q] = view[q],
             \A x \in m_players[s] : camp[x] = camp'[x]
      PROVE  Fits(q, s)'
  <2>1. q \in Player /\ Fits(q, s)
    BY <1>a, <1>d DEF TypeOK
  <2>2. Members(RoomInfo(m_players[s], camp, m_ownerID[s], win, lose))
          = Members(RoomInfo(m_players[s], camp', m_ownerID[s], win', lose'))
    BY <1>d, SameMembers
  <2>3. NoneAhead(view[q])'
    BY <1>d, <2>1, StillBehind
  <2>. QED BY <1>d, <2>1, <2>2, <2>3
\* A room whose players are sent a new list.
<1>e. ASSUME NEW s \in Room, NEW q \in m_players'[s], NEW w, NEW l,
             view'[q] = RoomInfo(m_players'[s], camp', m_ownerID'[s], w, l), w = win', l = lose'
      PROVE  Fits(q, s)'
  <2>1. NoneAhead(view[q])'
    <3>1. m_players'[s] \subseteq Player
      BY <1>c DEF TypeOK
    <3>. SUFFICES ASSUME NEW e \in view'[q] PROVE e.win <= win'[e.id] /\ e.lost <= lose'[e.id]
      BY DEF NoneAhead
    <3>2. e.id \in m_players'[s] /\ e.win = win'[e.id] /\ e.lost = lose'[e.id]
      BY <1>e, ScoresOfInfo
    <3>. QED BY <1>c, <3>1, <3>2 DEF TypeOK
  <2>. QED BY <1>e, <2>1
<1>. HIDE DEF Fits
<1>1. CASE UNCHANGED <<m_players, camp, m_ownerID, view>>
  BY <1>1, <1>d
<1>2. ASSUME NEW r \in Room, Create(r), NEW s \in Room, NEW q \in m_players'[s]
      PROVE  Fits(q, s)'
  <2>1. /\ m_players[r] = {}
        /\ UNCHANGED <<m_players, camp, view>>
        /\ m_ownerID' = [m_ownerID EXCEPT ![r] = NoOwner]
    BY <1>2 DEF Create, NotStartedYet, playerVars, clientVars
  <2>2. s # r /\ m_ownerID'[s] = m_ownerID[s]
    BY <1>2, <2>1 DEF TypeOK
  <2>. QED BY <1>2, <1>d, <2>1, <2>2
<1>3. ASSUME NEW r \in Room, NEW p \in Player, Joins(r, p), NEW s \in Room, NEW q \in m_players'[s]
      PROVE  Fits(q, s)'
  <2>. DEFINE S == m_players[r] \cup {p}
  <2>1. /\ m_players' = [m_players EXCEPT ![r] = S]
        /\ camp' = [camp EXCEPT ![p] = SwitchCamp(S)]
        /\ \A x \in Room \ {r} : m_ownerID'[x] = m_ownerID[x]
        /\ view' = Sent(view, S, RoomInfo(S, camp', m_ownerID'[r], win, lose))
        /\ UNCHANGED <<win, lose>>
        /\ \A x \in Room : p \notin m_players[x]
    BY <1>3, RoomAssumption DEF Joins, AddPlayer, RoomIdMatches, TypeOK
  <2>2. CASE s = r
    <3>1. m_players'[s] = S /\ S \subseteq Player
      BY <2>1, <2>2 DEF TypeOK
    <3>2. view'[q] = RoomInfo(m_players'[s], camp', m_ownerID'[s], win, lose)
      BY <1>3, <2>1, <2>2, <3>1 DEF Sent
    <3>. QED BY <1>3, <1>e, <2>1, <3>2
  <2>3. CASE s # r
    <3>1. m_players'[s] = m_players[s] /\ m_ownerID'[s] = m_ownerID[s]
      BY <2>1, <2>3 DEF TypeOK
    <3>2. q \in Player /\ q \notin S
      BY <1>3, <2>1, <2>3, <3>1 DEF RoomIdMatches, TypeOK
    <3>3. view'[q] = view[q]
      BY <2>1, <3>2 DEF Sent
    <3>4. \A x \in m_players[s] : camp[x] = camp'[x]
      BY <2>1 DEF TypeOK
    <3>. QED BY <1>3, <1>d, <3>1, <3>3, <3>4
  <2>. QED BY <2>2, <2>3
<1>4. ASSUME NEW r \in Room, NEW p \in Player, Leaves(r, p), NEW s \in Room, NEW q \in m_players'[s]
      PROVE  Fits(q, s)'
  <2>. DEFINE S == m_players[r] \ {p}
              owner == NextOwner(r, S, p)
  <2>1. /\ m_players' = [m_players EXCEPT ![r] = S]
        /\ camp' = [camp EXCEPT ![p] = 0]
        /\ m_ownerID' = [m_ownerID EXCEPT ![r] = owner]
        /\ view' = [Sent(view, S, RoomInfo(S, camp', owner, win, lose')) EXCEPT ![p] = {}]
        /\ UNCHANGED win
        /\ \A x \in Room \ {r} : p \notin m_players[x]
    BY <1>4 DEF Leaves, RemovePlayer, RoomIdMatches
  <2>2. CASE s = r
    <3>1. m_players'[s] = S /\ S \subseteq Player /\ m_ownerID'[s] = owner
      BY <2>1, <2>2 DEF TypeOK
    <3>2. view'[q] = RoomInfo(m_players'[s], camp', m_ownerID'[s], win, lose')
      BY <1>4, <2>1, <2>2, <3>1 DEF Sent
    <3>. QED BY <1>4, <1>e, <2>1, <3>2
  <2>3. CASE s # r
    <3>1. m_players'[s] = m_players[s] /\ m_ownerID'[s] = m_ownerID[s]
      BY <2>1, <2>3 DEF TypeOK
    <3>2. q \in Player /\ q \notin S /\ q # p
      BY <1>4, <2>1, <2>3, <3>1 DEF RoomIdMatches, TypeOK
    <3>3. view'[q] = view[q]
      BY <2>1, <3>2 DEF Sent
    <3>4. \A x \in m_players[s] : camp[x] = camp'[x]
      BY <2>1, <2>3 DEF TypeOK
    <3>. QED BY <1>4, <1>d, <3>1, <3>3, <3>4
  <2>. QED BY <2>2, <2>3
<1>5. ASSUME NEW r \in Room, Remove(r) \/ Tick(r)
      PROVE  UNCHANGED <<m_players, camp, m_ownerID, view>>
  BY <1>5 DEF Remove, Destroy, Tick, Update, FinishBattle, playerVars, clientVars
<1>6. ASSUME NEW r \in Room, NEW p \in Player, Starts(r, p) \/ Notifies(r, p)
      PROVE  UNCHANGED <<m_players, camp, m_ownerID, view>>
  BY <1>6 DEF Starts, StartBattle, Notifies, roomVars
<1>7. UNCHANGED vars => UNCHANGED <<m_players, camp, m_ownerID, view>>
  BY DEF vars, roomVars, playerVars, clientVars
<1>. QED BY <1>1, <1>2, <1>3, <1>4, <1>5, <1>6, <1>7, Steps

LEMMA BattleViewsStep ==
  ASSUME TypeOK, NotStartedYet, RoomIdMatches, BattleViewsAgree, [RoomsNext]_vars
  PROVE  BattleViewsAgree'
<1>. USE DEF BattleViewsAgree, Fighting
<1>1. CASE UNCHANGED <<m_players, m_status, notice>>
  BY <1>1
<1>2. ASSUME NEW r \in Room, Create(r) PROVE BattleViewsAgree'
  BY <1>2 DEF Create, NotStartedYet, clientVars, TypeOK
<1>3. ASSUME NEW r \in Room, Tick(r) PROVE BattleViewsAgree'
  <2>1. /\ m_players' = m_players
        /\ m_status' = [m_status EXCEPT ![r] = "Preparing"]
        /\ notice' = Sent(notice, m_players[r], "MsgBattleResult")
    BY <1>3 DEF Tick, Update, FinishBattle
  <2>2. \A s \in Room \ {r} : m_players[s] \cap m_players[r] = {}
    BY DEF RoomIdMatches, TypeOK
  <2>. QED BY <2>1, <2>2 DEF Sent, InBattle, TypeOK
<1>4. ASSUME NEW r \in Room, NEW p \in Player, Joins(r, p) PROVE BattleViewsAgree'
  <2>1. /\ m_players' = [m_players EXCEPT ![r] = m_players[r] \cup {p}]
        /\ m_status' = m_status
        /\ notice' = [notice EXCEPT ![p] = "none"]
        /\ m_status[r] # "Fighting"
        /\ \A s \in Room : p \notin m_players[s]
    BY <1>4, RoomAssumption DEF Joins, AddPlayer, CanAdd, RoomIdMatches, TypeOK
  <2>. QED BY <2>1 DEF InBattle, TypeOK
<1>5. ASSUME NEW r \in Room, NEW p \in Player, Leaves(r, p) PROVE BattleViewsAgree'
  <2>. DEFINE S == m_players[r] \ {p}
              told == IF Fighting(r) THEN Sent(notice, S, "MsgLeaveBattle") ELSE notice
  <2>1. /\ m_players' = [m_players EXCEPT ![r] = S]
        /\ m_status' = m_status
        /\ notice' = [told EXCEPT ![p] = "none"]
        /\ \A s \in Room \ {r} : m_players[s] \cap m_players[r] = {}
        /\ p \in m_players[r]
    BY <1>5 DEF Leaves, RemovePlayer, RoomIdMatches, TypeOK
  <2>2. told \in [Player -> InBattle \cup {"none", "MsgBattleResult"}]
    BY DEF Sent, InBattle, TypeOK
  <2>3. \A q \in Player : told[q] = IF Fighting(r) /\ q \in S THEN "MsgLeaveBattle" ELSE notice[q]
    BY DEF Sent, TypeOK
  <2>. HIDE DEF told
  <2>4. \A q \in Player \ {p} : notice'[q] = told[q]
    BY <2>1, <2>2
  <2>5. ASSUME NEW s \in Room, NEW q \in m_players'[s]
        PROVE  Fighting(s)' <=> notice'[q] \in InBattle
    <3>1. q \in m_players[s] /\ q \in Player /\ q # p
      BY <2>1 DEF TypeOK
    <3>2. s = r => q \in S
      BY <3>1
    <3>3. s # r => q \notin S
      BY <2>1, <3>1
    <3>. QED BY <2>1, <2>3, <2>4, <3>1, <3>2, <3>3 DEF InBattle
  <2>. QED BY <2>5
<1>6. ASSUME NEW r \in Room, NEW p \in Player, Starts(r, p) PROVE BattleViewsAgree'
  <2>1. /\ m_players' = m_players
        /\ m_status' = [m_status EXCEPT ![r] = "Fighting"]
        /\ notice' = Sent(notice, m_players[r], "MsgEnterBattle")
    BY <1>6 DEF Starts, StartBattle
  <2>2. \A s \in Room \ {r} : m_players[s] \cap m_players[r] = {}
    BY DEF RoomIdMatches, TypeOK
  <2>. QED BY <2>1, <2>2 DEF Sent, InBattle, TypeOK
<1>7. ASSUME NEW r \in Room, NEW p \in Player, Notifies(r, p) PROVE BattleViewsAgree'
  <2>1. PICK msg \in InBattle : notice' = Sent(notice, m_players[r], msg)
    BY <1>7 DEF Notifies
  <2>2. \A s \in Room \ {r} : m_players[s] \cap m_players[r] = {}
    BY DEF RoomIdMatches, TypeOK
  <2>. QED BY <1>7, <2>1, <2>2 DEF Notifies, roomVars, Sent, TypeOK
<1>8. ASSUME NEW r \in Room, Remove(r) PROVE UNCHANGED <<m_players, m_status, notice>>
  BY <1>8 DEF Remove, Destroy, clientVars
<1>9. UNCHANGED vars => UNCHANGED <<m_players, m_status, notice>>
  BY DEF vars, roomVars, clientVars
<1>. QED BY <1>1, <1>2, <1>3, <1>4, <1>5, <1>6, <1>7, <1>8, <1>9, Steps

-----------------------------------------------------------------------------
(* Battles *)

\* Two players of a camp have different birth indexes, and every index is in the table.
LEMMA BirthIndexesDiffer ==
  ASSUME NEW S, S \subseteq Player, \A q \in S : camp[q] \in Camps,
         NEW p \in S, NEW q \in S, p < q, camp[p] = camp[q]
  PROVE  BirthIndex(S, p) # BirthIndex(S, q)
<1>. DEFINE A == {s \in S : s < p /\ (camp[s] = 1 <=> camp[p] = 1)}
            B == {s \in S : s < q /\ (camp[s] = 1 <=> camp[q] = 1)}
<1>1. p \in Nat /\ q \in Nat /\ \A s \in S : s \in Nat
  BY PlayerAssumption
<1>2. A \subseteq B
  <2>1. ASSUME NEW s \in S, s < p PROVE s < q
    BY <1>1, <2>1
  <2>. QED BY <2>1
<1>3. p \in B /\ p \notin A
  <2>1. ~(p < p)
    BY <1>1
  <2>. QED BY <2>1
<1>4. IsFiniteSet(B)
  <2>1. B \subseteq Player
    OBVIOUS
  <2>. QED BY <2>1, FinitePlayers
<1>5. Cardinality(A) # Cardinality(B)
  BY <1>2, <1>3, <1>4, FS_Subset
<1>. QED BY <1>5 DEF BirthIndex

LEMMA BirthIndexInTable ==
  ASSUME NEW S, S \subseteq Player, \A q \in S : camp[q] \in Camps,
         \A c \in Camps : Cardinality(InCamp(S, camp, c)) <= BirthSlots,
         NEW p \in S
  PROVE  BirthIndex(S, p) \in 0..BirthSlots - 1
<1>. DEFINE A == {s \in S : s < p /\ (camp[s] = 1 <=> camp[p] = 1)}
            C == InCamp(S, camp, camp[p])
<1>1. p \in Nat /\ \A s \in S : s \in Nat
  BY PlayerAssumption
<1>2. /\ A \subseteq C
      /\ p \in C /\ p \notin A
      /\ C \subseteq Player /\ A \subseteq Player
  <2>1. \A s \in S : (camp[s] = 1 <=> camp[p] = 1) => camp[s] = camp[p]
    BY DEF Camps
  <2>2. ~(p < p)
    BY <1>1
  <2>. QED BY <2>1, <2>2 DEF InCamp
<1>3. IsFiniteSet(C) /\ Cardinality(C) \in Nat /\ Cardinality(A) \in Nat
  BY <1>2, FinitePlayers
<1>4. A \in SUBSET C /\ A # C
  BY <1>2
<1>5. Cardinality(A) <= Cardinality(C) /\ Cardinality(A) # Cardinality(C)
  BY <1>3, <1>4, FS_Subset
<1>6. Cardinality(C) <= BirthSlots
  OBVIOUS
<1>. HIDE DEF A, C
<1>7. Cardinality(A) \in 0..BirthSlots - 1
  BY <1>3, <1>5, <1>6, TableAssumption
<1>. QED BY <1>7 DEF BirthIndex, A

LEMMA BirthStep ==
  ASSUME TypeOK, RoomIdMatches, CampsFit, BirthPositions, [RoomsNext]_vars
  PROVE  BirthPositions'
<1>. USE DEF BirthPositions, Fighting
<1>1. CASE UNCHANGED <<m_players, m_status, pos>>
  BY <1>1
<1>2. ASSUME NEW r \in Room, Create(r) \/ Tick(r) PROVE BirthPositions'
  <2>1. /\ UNCHANGED <<m_players, pos>>
        /\ m_status' = [m_status EXCEPT ![r] = "Preparing"]
    BY <1>2 DEF Create, Tick, Update, FinishBattle, playerVars
  <2>. QED BY <2>1 DEF TypeOK
<1>3. ASSUME NEW r \in Room, NEW p \in Player, Joins(r, p) PROVE BirthPositions'
  BY <1>3 DEF Joins, CanAdd, AddPlayer, TypeOK
<1>4. ASSUME NEW r \in Room, NEW p \in Player, Leaves(r, p) PROVE BirthPositions'
  <2>1. \A s \in Room : m_players'[s] \subseteq m_players[s]
    BY <1>4 DEF Leaves, RemovePlayer, TypeOK
  <2>. QED BY <1>4, <2>1 DEF Leaves, RemovePlayer
<1>5. ASSUME NEW r \in Room, NEW p \in Player, Starts(r, p) PROVE BirthPositions'
  <2>. DEFINE S == m_players[r]
  <2>1. /\ m_players' = m_players
        /\ m_status' = [m_status EXCEPT ![r] = "Fighting"]
        /\ pos' = [q \in Player |-> IF q \in S THEN <<camp[q], BirthIndex(S, q)>> ELSE pos[q]]
    BY <1>5 DEF Starts, StartBattle
  <2>2. S \subseteq Player /\ \A q \in S : camp[q] \in Camps
    BY DEF CampsFit, TypeOK
  <2>3. \A q \in S : BirthIndex(S, q) \in 0..BirthSlots - 1
    BY <2>2, BirthIndexInTable DEF CampsFit
  <2>4. \A p1, p2 \in S : camp[p1] = camp[p2] /\ BirthIndex(S, p1) = BirthIndex(S, p2) => p1 = p2
    <3>1. \A s \in S : s \in Nat
      BY <2>2, PlayerAssumption
    <3>2. \A p1, p2 \in S : p1 < p2 /\ camp[p1] = camp[p2] => BirthIndex(S, p1) # BirthIndex(S, p2)
      BY <2>2, BirthIndexesDiffer
    <3>. HIDE DEF S
    <3>. QED BY <3>1, <3>2
  <2>5. \A q \in S : pos'[q] = <<camp[q], BirthIndex(S, q)>>
    BY <2>1, <2>2
  <2>6. \A s \in Room \ {r} : \A q \in m_players[s] : pos'[q] = pos[q]
    BY <2>1 DEF RoomIdMatches, TypeOK
  <2>7. ASSUME NEW p1 \in S, NEW p2 \in S
        PROVE  /\ pos'[p1] \in Camps \X (0..BirthSlots - 1)
               /\ pos'[p1] = pos'[p2] => p1 = p2
    <3>1. /\ pos'[p1] = <<camp[p1], BirthIndex(S, p1)>>
          /\ pos'[p2] = <<camp[p2], BirthIndex(S, p2)>>
      BY <2>5
    <3>2. camp[p1] \in Camps /\ BirthIndex(S, p1) \in 0..BirthSlots - 1
      BY <2>2, <2>3
    <3>3. camp[p1] = camp[p2] /\ BirthIndex(S, p1) = BirthIndex(S, p2) => p1 = p2
      BY <2>4
    <3>. QED BY <3>1, <3>2, <3>3
  <2>8. ASSUME NEW s \in Room \ {r}, Fighting(s)',
               NEW p1 \in m_players'[s], NEW p2 \in m_players'[s], pos'[p1] # Moved
        PROVE  /\ pos'[p1] \in Camps \X (0..BirthSlots - 1)
               /\ pos'[p1] = pos'[p2] => p1 = p2
    <3>1. m_players'[s] = m_players[s] /\ Fighting(s)
      BY <2>1, <2>8 DEF TypeOK
    <3>2. p1 \in m_players[s] /\ p2 \in m_players[s]
      BY <3>1
    <3>3. pos'[p1] = pos[p1] /\ pos'[p2] = pos[p2]
      BY <2>6, <3>2
    <3>. QED BY <2>8, <3>1, <3>2, <3>3
  <2>. QED BY <2>1, <2>7, <2>8 DEF Moved
<1>6. ASSUME NEW r \in Room, NEW p \in Player, Notifies(r, p) PROVE BirthPositions'
  <2>1. /\ UNCHANGED <<m_players, m_status>>
        /\ pos' = pos \/ pos' = [pos EXCEPT ![p] = Moved]
    BY <1>6 DEF Notifies, roomVars
  <2>. QED BY <2>1 DEF TypeOK
<1>7. ASSUME NEW r \in Room, Remove(r) PROVE UNCHANGED <<m_players, m_status, pos>>
  BY <1>7 DEF Remove, Destroy, playerVars
<1>8. UNCHANGED vars => UNCHANGED <<m_players, m_status, pos>>
  BY DEF vars, roomVars, playerVars
<1>. QED BY <1>1, <1>2, <1>3, <1>4, <1>5, <1>6, <1>7, <1>8, Steps

InFight(p) == \E r \in Room : Fighting(r) /\ p \in m_players[r]

\* A battle counts for its players when it starts, and is settled when it ends or is left.
LEMMA OneResultStep ==
  ASSUME TypeOK, NotStartedYet, RoomIdMatches, OneResultPerBattle, [RoomsNext]_vars
  PROVE  OneResultPerBattle'
<1>. DEFINE Settled(p) == fought[p] = win[p] + lose[p] + (IF InFight(p) THEN 1 ELSE 0)
<1>0. /\ \A p \in Player : Settled(p)
      /\ (\A p \in Player : Settled(p)') => OneResultPerBattle'
  BY DEF OneResultPerBattle, InFight
<1>. SUFFICES \A p \in Player : Settled(p)'
  BY <1>0
<1>a. \A p \in Player : fought[p] \in Nat /\ win[p] \in Nat /\ lose[p] \in Nat
  BY DEF TypeOK
<1>1. ASSUME UNCHANGED <<fought, win, lose>>, \A p \in Player : InFight(p)' <=> InFight(p)
      PROVE  \A p \in Player : Settled(p)'
  BY <1>0, <1>1
<1>2. ASSUME NEW r \in Room, Create(r) PROVE \A p \in Player : Settled(p)'
  <2>1. /\ UNCHANGED <<fought, win, lose, m_players>>
        /\ m_status' = [m_status EXCEPT ![r] = "Preparing"]
        /\ ~Fighting(r)
    BY <1>2 DEF Create, NotStartedYet, playerVars, clientVars
  <2>2. \A p \in Player : InFight(p)' <=> InFight(p)
    BY <2>1 DEF InFight, Fighting, TypeOK
  <2>. QED BY <1>1, <2>1, <2>2
<1>3. ASSUME NEW r \in Room, Remove(r) PROVE \A p \in Player : Settled(p)'
  BY <1>1, <1>3 DEF Remove, Destroy, InFight, Fighting, playerVars, clientVars
<1>4. ASSUME NEW r \in Room, Tick(r) PROVE \A p \in Player : Settled(p)'
  <2>. DEFINE S == m_players[r]
              won == InCamp(S, camp, JudgeWin(r))
  <2>1. /\ Fighting(r)
        /\ UNCHANGED <<m_players, fought>>
        /\ m_status' = [m_status EXCEPT ![r] = "Preparing"]
        /\ win' = [q \in Player |-> IF q \in won THEN win[q] + 1 ELSE win[q]]
        /\ lose' = [q \in Player |-> IF q \in S \ won THEN lose[q] + 1 ELSE lose[q]]
    BY <1>4 DEF Tick, Update, FinishBattle
  <2>2. ASSUME NEW p \in S PROVE Settled(p)'
    <3>1. p \in Player /\ InFight(p)
      BY <2>1 DEF InFight, TypeOK
    <3>2. ~InFight(p)'
      BY <2>1 DEF InFight, Fighting, RoomIdMatches, TypeOK
    <3>3. win'[p] + lose'[p] = win[p] + lose[p] + 1
      <4>1. CASE p \in won
        BY <1>a, <2>1, <3>1, <4>1
      <4>2. CASE p \notin won
        BY <1>a, <2>1, <3>1, <4>2
      <4>. QED BY <4>1, <4>2
    <3>4. fought'[p] = fought[p]
      BY <2>1
    <3>5. Settled(p)
      BY <1>0, <3>1
    <3>. QED BY <1>a, <3>1, <3>2, <3>3, <3>4, <3>5
  <2>3. ASSUME NEW p \in Player \ S PROVE Settled(p)'
    <3>1. UNCHANGED <<win[p], lose[p], fought[p]>>
      BY <2>1 DEF InCamp
    <3>2. InFight(p)' <=> InFight(p)
      BY <2>1 DEF InFight, Fighting, TypeOK
    <3>. QED BY <1>0, <3>1, <3>2
  <2>. QED BY <2>2, <2>3
<1>5. ASSUME NEW r \in Room, NEW p \in Player, Joins(r, p) PROVE \A q \in Player : Settled(q)'
  <2>1. /\ UNCHANGED <<fought, win, lose, m_status>>
        /\ m_players' = [m_players EXCEPT ![r] = m_players[r] \cup {p}]
        /\ ~Fighting(r)
    BY <1>5 DEF Joins, CanAdd, AddPlayer
  <2>2. \A q \in Player : InFight(q)' <=> InFight(q)
    BY <2>1 DEF InFight, Fighting, TypeOK
  <2>. QED BY <1>1, <2>1, <2>2
<1>6. ASSUME NEW r \in Room, NEW p \in Player, Leaves(r, p) PROVE \A q \in Player : Settled(q)'
  <2>1. /\ UNCHANGED <<fought, win, m_status>>
        /\ p \in m_players[r]
        /\ m_players' = [m_players EXCEPT ![r] = m_players[r] \ {p}]
        /\ lose' = [lose EXCEPT ![p] = IF Fighting(r) THEN lose[p] + 1 ELSE lose[p]]
    BY <1>6 DEF Leaves, RemovePlayer
  <2>2. InFight(p) <=> Fighting(r)
    BY <2>1 DEF InFight, RoomIdMatches
  <2>3. ~InFight(p)'
    BY <2>1 DEF InFight, RoomIdMatches, TypeOK
  <2>4. Settled(p)'
    <3>1. lose'[p] = IF Fighting(r) THEN lose[p] + 1 ELSE lose[p]
      BY <2>1 DEF TypeOK
    <3>2. fought'[p] = fought[p] /\ win'[p] = win[p]
      BY <2>1
    <3>3. Settled(p)
      BY <1>0
    <3>. QED BY <1>a, <2>2, <2>3, <3>1, <3>2, <3>3
  <2>5. ASSUME NEW q \in Player \ {p} PROVE Settled(q)'
    <3>1. InFight(q)' <=> InFight(q)
      BY <2>1 DEF InFight, Fighting, TypeOK
    <3>2. UNCHANGED <<lose[q], win[q], fought[q]>>
      BY <2>1 DEF TypeOK
    <3>. QED BY <1>0, <3>1, <3>2
  <2>. QED BY <2>4, <2>5
<1>7. ASSUME NEW r \in Room, NEW p \in Player, Starts(r, p) PROVE \A q \in Player : Settled(q)'
  <2>. DEFINE S == m_players[r]
  <2>1. /\ UNCHANGED <<m_players, win, lose>>
        /\ ~Fighting(r)
        /\ m_status' = [m_status EXCEPT ![r] = "Fighting"]
        /\ fought' = [q \in Player |-> IF q \in S THEN fought[q] + 1 ELSE fought[q]]
    BY <1>7 DEF Starts, CanStartBattle, StartBattle
  <2>2. ASSUME NEW q \in S PROVE Settled(q)'
    <3>1. q \in Player /\ ~InFight(q)
      BY <2>1 DEF InFight, RoomIdMatches, TypeOK
    <3>2. InFight(q)'
      BY <2>1 DEF InFight, Fighting, TypeOK
    <3>3. fought'[q] = fought[q] + 1 /\ win'[q] = win[q] /\ lose'[q] = lose[q]
      BY <2>1, <3>1
    <3>4. Settled(q)
      BY <1>0, <3>1
    <3>. QED BY <1>a, <3>1, <3>2, <3>3, <3>4
  <2>3. ASSUME NEW q \in Player \ S PROVE Settled(q)'
    <3>1. InFight(q)' <=> InFight(q)
      BY <2>1 DEF InFight, Fighting, TypeOK
    <3>2. UNCHANGED <<lose[q], win[q], fought[q]>>
      BY <2>1
    <3>. QED BY <1>0, <3>1, <3>2
  <2>. QED BY <2>2, <2>3
<1>8. ASSUME NEW r \in Room, NEW p \in Player, Notifies(r, p) PROVE \A q \in Player : Settled(q)'
  BY <1>1, <1>8 DEF Notifies, InFight, Fighting, roomVars
<1>9. CASE UNCHANGED vars
  BY <1>1, <1>9 DEF InFight, Fighting, vars, roomVars, playerVars, clientVars
<1>. QED BY <1>2, <1>3, <1>4, <1>5, <1>6, <1>7, <1>8, <1>9, Steps

-----------------------------------------------------------------------------
(* Empty rooms *)

LEMMA EmptyRoomStep ==
  ASSUME TypeOK, EmptyRoomIsBeingRemoved, [RoomsNext]_vars
  PROVE  EmptyRoomIsBeingRemoved'
<1>. USE DEF EmptyRoomIsBeingRemoved
<1>1. CASE UNCHANGED <<service, m_players, m_ownerID, removing>>
  BY <1>1
<1>2. ASSUME NEW r \in Room, Create(r) PROVE EmptyRoomIsBeingRemoved'
  BY <1>2 DEF Create, TypeOK
<1>3. ASSUME NEW r \in Room, Remove(r) PROVE EmptyRoomIsBeingRemoved'
  BY <1>3 DEF Remove, Destroy, TypeOK
<1>4. ASSUME NEW r \in Room, NEW p \in Player, Joins(r, p) PROVE EmptyRoomIsBeingRemoved'
  BY <1>4 DEF Joins, AddPlayer, TypeOK
<1>5. ASSUME NEW r \in Room, NEW p \in Player, Leaves(r, p) PROVE EmptyRoomIsBeingRemoved'
  <2>1. /\ service' = service
        /\ m_players' = [m_players EXCEPT ![r] = m_players[r] \ {p}]
        /\ removing' = [removing EXCEPT ![r] = removing[r] \/ m_players[r] \ {p} = {}]
        /\ \A s \in Room \ {r} : m_ownerID'[s] = m_ownerID[s]
    BY <1>5 DEF Leaves, RemovePlayer, LastToLeave, TypeOK
  <2>. QED BY <2>1 DEF TypeOK
<1>6. ASSUME NEW r \in Room, Tick(r)
      PROVE  UNCHANGED <<service, m_players, m_ownerID, removing>>
  BY <1>6 DEF Tick, Update, FinishBattle
<1>7. ASSUME NEW r \in Room, NEW p \in Player, Starts(r, p) \/ Notifies(r, p)
      PROVE  UNCHANGED <<service, m_players, m_ownerID, removing>>
  BY <1>7 DEF Starts, StartBattle, Notifies, roomVars
<1>8. UNCHANGED vars => UNCHANGED <<service, m_players, m_ownerID, removing>>
  BY DEF vars, roomVars
<1>. QED BY <1>1, <1>2, <1>3, <1>4, <1>5, <1>6, <1>7, <1>8, Steps

-----------------------------------------------------------------------------
(* The theorems *)

\* The runs check a part of what the theorems are about: the rooms within the bounds.
LEMMA WithinBounds == Spec => RoomsSpec
<1>1. [Next]_vars => [RoomsNext]_vars
  BY DEF Next, RoomsNext
<1>. QED BY <1>1, PTL DEF Spec, RoomsSpec

LEMMA InvInit == Init => IInv
<1>. SUFFICES ASSUME Init PROVE IInv
  OBVIOUS
<1>1. TypeOK
  BY TypeInit
<1>2. NotStartedYet /\ NoCampOutside /\ OwnerInRoom /\ ViewsAgree /\ BattleViewsAgree
  BY DEF Init, NotStartedYet, NoCampOutside, OwnerInRoom, ViewsAgree, BattleViewsAgree,
         Fighting
<1>3. RoomIdMatches
  BY RoomAssumption DEF Init, RoomIdMatches
<1>4. CampsFit
  <2>1. \A r \in Room, c \in Camps : InCamp(m_players[r], camp, c) = {}
    BY DEF Init, InCamp
  <2>2. Cardinality({}) = 0
    BY FS_EmptySet
  <2>3. 0 <= BirthSlots
    BY TableAssumption
  <2>. QED BY <2>1, <2>2, <2>3 DEF Init, CampsFit
<1>5. BirthPositions /\ OneResultPerBattle /\ EmptyRoomIsBeingRemoved
  BY DEF Init, BirthPositions, OneResultPerBattle, EmptyRoomIsBeingRemoved, Fighting
<1>. QED BY <1>1, <1>2, <1>3, <1>4, <1>5 DEF IInv

LEMMA InvStep == IInv /\ [RoomsNext]_vars => IInv'
BY TypeStep, NotStartedStep, NoCampStep, RoomIdStep, OwnerStep, CampsStep, ViewsStep,
   BattleViewsStep, BirthStep, OneResultStep, EmptyRoomStep DEF IInv

\* The inductive invariant holds in every state the rooms reach.
THEOREM Invariance == RoomsSpec => []IInv
BY InvInit, InvStep, PTL DEF RoomsSpec

\* A player is in the room the player's roomId names, and in no other.
THEOREM PlayersInOneRoom == RoomsSpec => []RoomIdMatches
BY Invariance, PTL DEF IInv

\* A room with players has one of them as its owner.
THEOREM OwnersStay == RoomsSpec => []OwnerInRoom
BY Invariance, PTL DEF IInv

\* No index into the table of birth positions is out of its bounds.
THEOREM CampsAlwaysFit == RoomsSpec => []CampsFit
BY Invariance, PTL DEF IInv

\* Every client of a room has a list of the room's present players, with their camps and the
\* owner, and with scores that may be behind but are never ahead (room.cc:99, 137-141, 398-405).
THEOREM ViewsAlwaysAgree == RoomsSpec => []ViewsAgree
BY Invariance, PTL DEF IInv

\* Every client of a room shows a battle exactly while there is one.
THEOREM BattleViewsAlwaysAgree == RoomsSpec => []BattleViewsAgree
BY Invariance, PTL DEF IInv

\* No two players are born on one spot.
THEOREM BirthPositionsDiffer == RoomsSpec => []BirthPositions
BY Invariance, PTL DEF IInv

\* Every battle a player was in gives the player exactly one result.
THEOREM ResultsAreExact == RoomsSpec => []OneResultPerBattle
BY Invariance, PTL DEF IInv

\* A room that was emptied has asked to be removed.
THEOREM EmptyRoomsGo == RoomsSpec => []EmptyRoomIsBeingRemoved
BY Invariance, PTL DEF IInv

\* The result of a battle follows who is alive when the timer judges it.
THEOREM ResultsAreRight == RoomsSpec => ResultsFollowSurvivors
<1>. DEFINE Fair == \A r \in Room : Fighting(r) /\ ~Fighting(r)' =>
       \A p, q \in m_players[r] :
         hp[q] > 0 =>
           /\ camp[q] = camp[p] => lose'[p] = lose[p]
           /\ camp[q] # camp[p] => win'[p] = win[p]
<1>1. IInv /\ [RoomsNext]_vars => [Fair]_vars
  <2>. SUFFICES ASSUME IInv, [RoomsNext]_vars, NEW r \in Room, Fighting(r), ~Fighting(r)',
                       NEW p \in m_players[r], NEW q \in m_players[r], hp[q] > 0
                PROVE  /\ camp[q] = camp[p] => lose'[p] = lose[p]
                       /\ camp[q] # camp[p] => win'[p] = win[p]
    OBVIOUS
  <2>1. ASSUME NEW s \in Room, Create(s) PROVE FALSE
    BY <2>1 DEF Create, Fighting, IInv, TypeOK, NotStartedYet
  <2>2. ASSUME NEW s \in Room, Remove(s) PROVE FALSE
    BY <2>2 DEF Remove, Destroy, Fighting
  <2>3. ASSUME NEW s \in Room, NEW t \in Player, Joins(s, t) \/ Leaves(s, t) \/ Notifies(s, t)
        PROVE  FALSE
    BY <2>3 DEF Joins, AddPlayer, Leaves, RemovePlayer, Notifies, roomVars, Fighting
  <2>4. ASSUME NEW s \in Room, NEW t \in Player, Starts(s, t) PROVE FALSE
    BY <2>4 DEF Starts, StartBattle, Fighting, IInv, TypeOK
  <2>5. ASSUME NEW s \in Room, Tick(s)
        PROVE  /\ camp[q] = camp[p] => lose'[p] = lose[p]
               /\ camp[q] # camp[p] => win'[p] = win[p]
    <3>1. s = r
      BY <2>5 DEF Tick, Update, FinishBattle, Fighting, IInv, TypeOK
    <3>2. p \in Player /\ q \in Player /\ camp[p] \in Camps /\ camp[q] \in Camps
      BY DEF IInv, TypeOK, CampsFit
    <3>3. JudgeWin(r) \in {1, 2}
      BY <2>5, <3>1, JudgeWinType DEF Tick, Update
    <3>4. camp[q] = JudgeWin(r)
      BY <3>2, <3>3 DEF JudgeWin, Camps
    <3>5. /\ win'[p] = IF camp[p] = JudgeWin(r) THEN win[p] + 1 ELSE win[p]
          /\ lose'[p] = IF camp[p] = JudgeWin(r) THEN lose[p] ELSE lose[p] + 1
      BY <2>5, <3>1, <3>2 DEF Tick, Update, FinishBattle, InCamp
    <3>. QED BY <3>4, <3>5
  <2>6. CASE UNCHANGED vars
    BY <2>6 DEF vars, roomVars, Fighting
  <2>. QED BY <2>1, <2>2, <2>3, <2>4, <2>5, <2>6, Steps
<1>2. QED BY <1>1, Invariance, PTL DEF RoomsSpec, ResultsFollowSurvivors

=============================================================================
