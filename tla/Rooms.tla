------------------------------- MODULE Rooms -------------------------------
(***************************************************************************)
(* The room services of the game server: class RoomService of              *)
(* src/src/service/room.cc, together with the Player objects it changes.   *)
(*                                                                         *)
(* No handler of RoomService makes a call, so none of them yields: each    *)
(* one is a single action here, from the message it takes to its last      *)
(* broadcast.  The messages come from the players' agents, in any order.   *)
(* One discipline is assumed of them (Enter below): an agent asks a room   *)
(* to add a player only when the player is in no room, the check of        *)
(* agent.cc:92 and agent.cc:117.  Lobby.tla models the agents and shows    *)
(* when they keep it.                                                      *)
(***************************************************************************)
EXTENDS Integers, FiniteSets

CONSTANTS
  Player,       \* the players' names; a number stands for a name's place in the order of std::map
  Room,         \* the ids of the room services (m_id)
  MaxPlayers,   \* m_maxPlayers: how many players a room holds
  BirthSlots,   \* birth positions per camp, the middle dimension of birthPos
  FullHp,       \* the hit points a battle starts with
  Damage,       \* what a hit takes
  MinHp,        \* bound of the model: nobody is hit below it
  MaxBattles    \* bound of the model: the battles a player fights

ASSUME PlayerAssumption == Player \subseteq Nat \ {0} /\ IsFiniteSet(Player)
ASSUME RoomAssumption == Room \subseteq Nat \ {0}
ASSUME TableAssumption ==
  /\ MaxPlayers \in Nat
  /\ BirthSlots \in Nat
  /\ MaxPlayers <= 2 * BirthSlots
ASSUME BattleAssumption ==
  FullHp \in Nat \ {0} /\ Damage \in Nat \ {0} /\ MinHp \in Int /\ MaxBattles \in Nat

VARIABLES
  \* RoomService, one value per room
  service,      \* "unborn", "running" or "removed" (APP.newService, APP.removeService)
  m_players,    \* the players in the room
  m_status,     \* RoomStatus
  m_ownerID,    \* the owner's name, or NoOwner for ""
  m_timeID,     \* 0, or 1 for the id of an armed timer
  removing,     \* a RemoveRoom for the room was sent to roommgr
  \* Player, one value per player
  roomId,       \* 0 before the first room, -1 after leaving one
  camp,         \* 0 outside a room
  hp,
  pos,          \* position: an entry of birthPos, or Moved
  win, lose,    \* PlayerData
  \* what the player's client was sent since it entered the room
  view,         \* the player list last broadcast to it (MsgGetRoomInfo)
  notice,       \* the protocol name of the last battle message
  \* history
  fought        \* battles that started with the player in the room

roomVars == <<service, m_players, m_status, m_ownerID, m_timeID, removing>>
playerVars == <<roomId, camp, hp, pos, win, lose>>
clientVars == <<view, notice, fought>>
vars == <<roomVars, playerVars, clientVars>>

NoOwner == 0
Camps == {1, 2}
NoPos == <<0, 0>>   \* before the first battle
Moved == <<0, 1>>   \* coordinates the client reported
Entry == [id : Player, camp : 0..2, win : Nat, lost : Nat, isOwner : BOOLEAN]

\* Battle messages after which a client shows a battle.
InBattle == {"MsgEnterBattle", "MsgSyncTank", "MsgFire", "MsgHit", "MsgLeaveBattle"}

TypeOK ==
  /\ service \in [Room -> {"unborn", "running", "removed"}]
  /\ m_players \in [Room -> SUBSET Player]
  /\ m_status \in [Room -> {"Preparing", "Fighting"}]
  /\ m_ownerID \in [Room -> Player \cup {NoOwner}]
  /\ m_timeID \in [Room -> 0..1]
  /\ removing \in [Room -> BOOLEAN]
  /\ roomId \in [Player -> Room \cup {0, -1}]
  /\ camp \in [Player -> 0..2]
  /\ hp \in [Player -> Int]
  /\ pos \in [Player -> (0..2) \X Nat]
  /\ win \in [Player -> Nat]
  /\ lose \in [Player -> Nat]
  /\ view \in [Player -> SUBSET Entry]
  /\ notice \in [Player -> InBattle \cup {"none", "MsgBattleResult"}]
  /\ fought \in [Player -> Nat]

-----------------------------------------------------------------------------
(* Helpers of RoomService *)

Fighting(r) == m_status[r] = "Fighting"

\* What a message broadcast to S leaves in a per-client variable.
Sent(clients, S, msg) == [p \in Player |-> IF p \in S THEN msg ELSE clients[p]]

InCamp(S, cmp, c) == {q \in S : cmp[q] = c}

\* Mutants of SwitchCamp: the players are counted and no camps compared; the comparison is
\* turned round.
SwitchCamp_Counts(S) == Cardinality({q \in S : camp[q] # 0}) + 1
SwitchCamp_Larger(S) ==
  IF Cardinality(InCamp(S, camp, 1)) < Cardinality(InCamp(S, camp, 2)) THEN 2 ELSE 1

\* The camp of a player who has just joined S: the smaller one, the first on a tie.
\* It runs over S with the joining player in it, whose camp field is still the old one.
SwitchCamp(S) ==
  IF Cardinality(InCamp(S, camp, 1)) > Cardinality(InCamp(S, camp, 2)) THEN 2 ELSE 1

\* The first name of the map.
SwitchOwner(S) == CHOOSE q \in S : \A s \in S : q <= s

\* The owner once p has left S behind.  Mutant: nobody takes over.
NextOwner_Keep(r, S, p) == m_ownerID[r]
NextOwner(r, S, p) ==
  IF S # {} /\ m_ownerID[r] = p THEN SwitchOwner(S) ELSE m_ownerID[r]

\* p is the last player of the room.  Mutant: asked before the player is erased.
LastToLeave_Before(r, p) == m_players[r] = {}
LastToLeave(r, p) == m_players[r] \ {p} = {}

\* Mutant of RoomInfo: the list is made before the camps are set.
RoomInfo_Early(S, cmp, owner, wins, defeats) ==
  {[id |-> q, camp |-> camp[q], win |-> wins[q], lost |-> defeats[q], isOwner |-> q = owner] :
     q \in S}

\* node["players"] of MsgGetRoomInfo.
RoomInfo(S, cmp, owner, wins, defeats) ==
  {[id |-> q, camp |-> cmp[q], win |-> wins[q], lost |-> defeats[q], isOwner |-> q = owner] :
     q \in S}

\* Mutant of BirthIndex: one counter for both camps.
BirthIndex_Shared(S, p) == Cardinality({q \in S : q < p})

\* resetPlayers numbers the players of camp 1 and the others apart, in the map's order.
BirthIndex(S, p) == Cardinality({q \in S : q < p /\ (camp[q] = 1 <=> camp[p] = 1)})

\* Mutant of JudgeWin: the camp that was wiped out wins.
JudgeWin_Loser(r) ==
  LET Alive == {q \in m_players[r] : hp[q] > 0}
  IN  IF \A q \in Alive : camp[q] # 1 THEN 1
      ELSE IF \A q \in Alive : camp[q] = 1 THEN 2
      ELSE 0

\* Mutant of JudgeWin: the camp that is not wiped out wins at once.
JudgeWin_Early(r) == IF \A q \in m_players[r] : hp[q] > 0 => camp[q] # 1 THEN 2 ELSE 1

\* 2 when nobody of camp 1 is alive, even if nobody at all is; 0 while the battle is open.
JudgeWin(r) ==
  LET Alive == {q \in m_players[r] : hp[q] > 0}
  IN  IF \A q \in Alive : camp[q] # 1 THEN 2
      ELSE IF \A q \in Alive : camp[q] = 1 THEN 1
      ELSE 0

\* Mutants: the capacity, or the room's status, is not looked at.
CanAdd_Unlimited(r, p) == p \notin m_players[r] /\ ~Fighting(r)
CanAdd_Anytime(r, p) == Cardinality(m_players[r]) < MaxPlayers /\ p \notin m_players[r]

CanAdd(r, p) ==
  /\ Cardinality(m_players[r]) < MaxPlayers
  /\ p \notin m_players[r]
  /\ ~Fighting(r)

\* Mutant: the owner may start a battle during a battle.
CanStartBattle_Again(r, p) == p = m_ownerID[r] /\ Cardinality(m_players[r]) >= 2

CanStartBattle(r, p) ==
  /\ p = m_ownerID[r]
  /\ ~Fighting(r)
  /\ Cardinality(m_players[r]) >= 2

-----------------------------------------------------------------------------
(* The life of a room service *)

\* RoomMgr starts the service and the service's init runs.
Create(r) ==
  /\ service[r] = "unborn"
  /\ service' = [service EXCEPT ![r] = "running"]
  /\ m_status' = [m_status EXCEPT ![r] = "Preparing"]
  /\ m_ownerID' = [m_ownerID EXCEPT ![r] = NoOwner]
  /\ m_timeID' = [m_timeID EXCEPT ![r] = 0]
  /\ UNCHANGED <<m_players, removing, playerVars, clientVars>>

\* RoomMgr removes the service, whose destructor disarms the timer.
Destroy(r) ==
  /\ service[r] = "running"
  /\ service' = [service EXCEPT ![r] = "removed"]
  /\ m_timeID' = [m_timeID EXCEPT ![r] = 0]
  /\ UNCHANGED <<m_players, m_status, m_ownerID, removing, playerVars, clientVars>>

-----------------------------------------------------------------------------
(* The handlers; each is enabled whatever the message says, and leaves the state alone
   when it refuses the message *)

AddPlayer(r, p) ==
  LET S == m_players[r] \cup {p}
  IN  /\ m_players' = [m_players EXCEPT ![r] = S]
      /\ camp' = [camp EXCEPT ![p] = SwitchCamp(S)]
      /\ roomId' = [roomId EXCEPT ![p] = r]
      /\ m_ownerID' = [m_ownerID EXCEPT ![r] = IF S = {p} THEN p ELSE @]
      /\ view' = Sent(view, S, RoomInfo(S, camp', m_ownerID'[r], win, lose))
      /\ notice' = [notice EXCEPT ![p] = "none"]
      /\ UNCHANGED <<service, m_status, m_timeID, removing, hp, pos, win, lose, fought>>

HandleAddPlayer(r, p) ==
  IF CanAdd(r, p) THEN AddPlayer(r, p) ELSE UNCHANGED vars

\* The last player to leave asks roommgr to remove the room; otherwise the room may get a
\* new owner and tells everyone left.
RemovePlayer(r, p) ==
  LET S == m_players[r] \ {p}
      told == IF Fighting(r) THEN Sent(notice, S, "MsgLeaveBattle") ELSE notice
      owner == NextOwner(r, S, p)
  IN  /\ m_players' = [m_players EXCEPT ![r] = S]
      /\ roomId' = [roomId EXCEPT ![p] = -1]
      /\ camp' = [camp EXCEPT ![p] = 0]
      /\ lose' = [lose EXCEPT ![p] = IF Fighting(r) THEN @ + 1 ELSE @]
      /\ removing' = [removing EXCEPT ![r] = @ \/ LastToLeave(r, p)]
      /\ m_ownerID' = [m_ownerID EXCEPT ![r] = owner]
      /\ view' = [Sent(view, S, RoomInfo(S, camp', owner, win, lose')) EXCEPT ![p] = {}]
      /\ notice' = [told EXCEPT ![p] = "none"]
      /\ UNCHANGED <<service, m_status, m_timeID, hp, pos, win, fought>>

\* Mutant: a player of another room is removed as well.
HandleRemovePlayer_Anyone(r, p) == RemovePlayer(r, p)

HandleRemovePlayer(r, p) ==
  IF p \in m_players[r] THEN RemovePlayer(r, p) ELSE UNCHANGED vars

StartBattle(r) ==
  LET S == m_players[r]
  IN  /\ m_status' = [m_status EXCEPT ![r] = "Fighting"]
      /\ hp' = [q \in Player |-> IF q \in S THEN FullHp ELSE hp[q]]
      /\ pos' = [q \in Player |-> IF q \in S THEN <<camp[q], BirthIndex(S, q)>> ELSE pos[q]]
      /\ m_timeID' = [m_timeID EXCEPT ![r] = 1]
      /\ notice' = Sent(notice, S, "MsgEnterBattle")
      /\ fought' = [q \in Player |-> IF q \in S THEN fought[q] + 1 ELSE fought[q]]
      /\ UNCHANGED <<service, m_players, m_ownerID, removing, roomId, camp, win, lose, view>>

HandleStartBattle(r, p) ==
  IF CanStartBattle(r, p) THEN StartBattle(r) ELSE UNCHANGED vars

HandleSyncTank(r, p) ==
  IF Fighting(r) /\ p \in m_players[r]
  THEN /\ pos' = [pos EXCEPT ![p] = Moved]
       /\ notice' = Sent(notice, m_players[r], "MsgSyncTank")
       /\ UNCHANGED <<roomVars, roomId, camp, hp, win, lose, view, fought>>
  ELSE UNCHANGED vars

HandleFire(r, p) ==
  IF Fighting(r) /\ p \in m_players[r]
  THEN /\ notice' = Sent(notice, m_players[r], "MsgFire")
       /\ UNCHANGED <<roomVars, playerVars, view, fought>>
  ELSE UNCHANGED vars

\* A hit counts whoever is hit, the shooter, a companion or the dead included.
HandleHit(r, p, target) ==
  IF Fighting(r) /\ p \in m_players[r] /\ target \in m_players[r]
  THEN /\ hp' = [hp EXCEPT ![target] = @ - Damage]
       /\ notice' = Sent(notice, m_players[r], "MsgHit")
       /\ UNCHANGED <<roomVars, roomId, camp, pos, win, lose, view, fought>>
  ELSE UNCHANGED vars

\* The battle is over: everyone still in the room gets a win or a defeat.
FinishBattle(r, winner) ==
  LET S == m_players[r]
      won == InCamp(S, camp, winner)
  IN  /\ m_timeID' = [m_timeID EXCEPT ![r] = 0]
      /\ m_status' = [m_status EXCEPT ![r] = "Preparing"]
      /\ win' = [q \in Player |-> IF q \in won THEN win[q] + 1 ELSE win[q]]
      /\ lose' = [q \in Player |-> IF q \in S \ won THEN lose[q] + 1 ELSE lose[q]]
      /\ notice' = Sent(notice, S, "MsgBattleResult")
      /\ UNCHANGED <<service, m_players, m_ownerID, removing, roomId, camp, hp, pos, view, fought>>

\* Mutant: an empty room is not judged.
Update_NotEmpty(r) ==
  /\ m_timeID[r] # 0
  /\ Fighting(r)
  /\ m_players[r] # {}
  /\ JudgeWin(r) # 0
  /\ FinishBattle(r, JudgeWin(r))

\* The timer's callback.
Update(r) ==
  /\ m_timeID[r] # 0
  /\ Fighting(r)
  /\ JudgeWin(r) # 0
  /\ FinishBattle(r, JudgeWin(r))

-----------------------------------------------------------------------------
Init ==
  /\ service = [r \in Room |-> "unborn"]
  /\ m_players = [r \in Room |-> {}]
  /\ m_status = [r \in Room |-> "Preparing"]
  /\ m_ownerID = [r \in Room |-> NoOwner]
  /\ m_timeID = [r \in Room |-> 0]
  /\ removing = [r \in Room |-> FALSE]
  /\ roomId = [p \in Player |-> 0]
  /\ camp = [p \in Player |-> 0]
  /\ hp = [p \in Player |-> 0]
  /\ pos = [p \in Player |-> NoPos]
  /\ win = [p \in Player |-> 0]
  /\ lose = [p \in Player |-> 0]
  /\ view = [p \in Player |-> {}]
  /\ notice = [p \in Player |-> "none"]
  /\ fought = [p \in Player |-> 0]

\* The messages a running room takes.
Enter(r, p) == service[r] = "running" /\ roomId[p] <= 0 /\ HandleAddPlayer(r, p)

Leave(r, p) == service[r] = "running" /\ HandleRemovePlayer(r, p)

Start(r, p) == service[r] = "running" /\ HandleStartBattle(r, p)

Sync(r, p) == service[r] = "running" /\ HandleSyncTank(r, p)

Fire(r, p) == service[r] = "running" /\ HandleFire(r, p)

Hit(r, p, target) == service[r] = "running" /\ HandleHit(r, p, target)

Tick(r) == service[r] = "running" /\ Update(r)

Remove(r) == removing[r] /\ Destroy(r)

\* What may happen at any time: nothing that counts battles or hit points.
Always(r) ==
  \/ Create(r)
  \/ Remove(r)
  \/ Tick(r)
  \/ \E p \in Player : Enter(r, p) \/ Leave(r, p) \/ Sync(r, p) \/ Fire(r, p)

\* The rooms as they are.
RoomsNext ==
  \E r \in Room :
    \/ Always(r)
    \/ \E p \in Player :
         \/ Start(r, p)
         \/ \E target \in Player : Hit(r, p, target)

RoomsSpec == Init /\ [][RoomsNext]_vars

\* The rooms with the bounds of the model, for the runs.
MayStart(r) == \A q \in m_players[r] : fought[q] < MaxBattles
MayHit(target) == hp[target] - Damage >= MinHp

Next ==
  \E r \in Room :
    \/ Always(r)
    \/ \E p \in Player :
         \/ MayStart(r) /\ Start(r, p)
         \/ \E target \in Player : MayHit(target) /\ Hit(r, p, target)

Spec == Init /\ [][Next]_vars

\* A timer that is armed ticks (timeWheel.h), and a service with a message is scheduled.
FairSpec == Spec /\ \A r \in Room : WF_vars(Tick(r))

-----------------------------------------------------------------------------
(* Properties *)

\* A player carries the id of a room exactly when the room lists the player; so a player is in
\* one room at most (roomId and m_players are written apart, room.cc:88-92 and 117-118).
RoomIdMatches == \A r \in Room, p \in Player : roomId[p] = r <=> p \in m_players[r]

\* A room with players has one of them as its owner, through joins, departures in any order
\* and re-entries into a room that had become empty (room.cc:94, 127-139).
OwnerInRoom == \A r \in Room : m_players[r] # {} => m_ownerID[r] \in m_players[r]

\* Every player in a room has a camp, and neither camp outgrows the birth position table
\* birthPos[2][3], whatever the order of joins and departures (room.cc:253-270, 371-385).
CampsFit ==
  \A r \in Room :
    /\ \A p \in m_players[r] : camp[p] \in Camps
    /\ \A c \in Camps : Cardinality(InCamp(m_players[r], camp, c)) <= BirthSlots

\* A player list without its scores.
Members(list) == {[id |-> e.id, camp |-> e.camp, isOwner |-> e.isOwner] : e \in list}

\* The players, camps and owner in the list last broadcast to a client are the room's: no join,
\* departure or change of owner is broadcast before it is complete, or not at all (room.cc:99,
\* 137-141).  The scores in it are those of that moment: update counts the results of a battle
\* without a new list (room.cc:398-405), so they may be behind, and are never ahead.
ViewsAgree ==
  \A r \in Room : \A p \in m_players[r] :
    /\ Members(view[p]) = Members(RoomInfo(m_players[r], camp, m_ownerID[r], win, lose))
    /\ \A e \in view[p] : e.win <= win[e.id] /\ e.lost <= lose[e.id]

\* The clients of a room show a battle exactly while the room is fighting (room.cc:205, 248, 405).
BattleViewsAgree ==
  \A r \in Room : \A p \in m_players[r] : Fighting(r) <=> notice[p] \in InBattle

\* In a battle, the players who have not moved yet stand on different entries of the birth
\* position table (room.cc:361-385).
BirthPositions ==
  \A r \in Room : Fighting(r) =>
    \A p, q \in m_players[r] :
      pos[p] # Moved =>
        /\ pos[p] \in Camps \X (0..BirthSlots - 1)
        /\ pos[p] = pos[q] => p = q

\* Every battle a player started gives the player one win or one defeat, no more and no less,
\* whether the player stays to the end or leaves (room.cc:122, 398-404).
OneResultPerBattle ==
  \A p \in Player :
    fought[p] = win[p] + lose[p]
                + (IF \E r \in Room : Fighting(r) /\ p \in m_players[r] THEN 1 ELSE 0)

\* A running room that was entered and is empty has asked roommgr to remove it (room.cc:127-135).
EmptyRoomIsBeingRemoved ==
  \A r \in Room :
    service[r] = "running" /\ m_players[r] = {} /\ m_ownerID[r] # NoOwner => removing[r]

\* What the invariants rest on: a room that was never started has no players and no battle, and
\* a player in no room has no camp, so that switchCamp, which runs over the joining player too,
\* counts the others only (room.cc:88-90, 119).
NotStartedYet == \A r \in Room : service[r] = "unborn" => m_players[r] = {} /\ ~Fighting(r)

NoCampOutside == \A p \in Player : roomId[p] \notin Room => camp[p] = 0

\* The inductive invariant of the rooms: all the properties above and the two facts they rest on.
IInv ==
  /\ TypeOK
  /\ NotStartedYet
  /\ NoCampOutside
  /\ RoomIdMatches
  /\ OwnerInRoom
  /\ CampsFit
  /\ ViewsAgree
  /\ BattleViewsAgree
  /\ BirthPositions
  /\ OneResultPerBattle
  /\ EmptyRoomIsBeingRemoved

\* A player who stays to the end of a battle loses it only if nobody of the player's camp is
\* alive, and wins it only if nobody of the other camp is (room.cc:387-429).
ResultsFollowSurvivors ==
  [][\A r \in Room : Fighting(r) /\ ~Fighting(r)' =>
       \A p, q \in m_players[r] :
         hp[q] > 0 =>
           /\ camp[q] = camp[p] => lose'[p] = lose[p]
           /\ camp[q] # camp[p] => win'[p] = win[p]]_vars

\* The state of module Match that a state of the rooms stands for.
At == [p \in Player |-> IF roomId[p] > 0 THEN roomId[p] ELSE 0]
Standing == [p \in Player |-> hp[p] > 0]
Playing == {r \in Room : Fighting(r)}

Game ==
  INSTANCE Match WITH
    TeamSize <- BirthSlots, at <- At, team <- camp, alive <- Standing, playing <- Playing,
    won <- win, lost <- lose

\* The rooms (room.cc) are what players take them for: module Match, in which a name is in one room
\* at a time, teams stay even, nobody joins a battle, and each battle gives each of its players the
\* result that the survivors decide.
ImplementsMatch == Game!Spec

\* A battle that one camp has lost ends, unless the room is removed first: the timer of the
\* room is armed whenever a battle is on (room.cc:247, 391-397).
DecidedBattleEnds ==
  \A r \in Room :
    (service[r] = "running" /\ Fighting(r) /\ JudgeWin(r) # 0)
      ~> (~Fighting(r) \/ service[r] = "removed")
=============================================================================
