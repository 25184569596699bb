------------------------------ MODULE LobbyInv ------------------------------
(***************************************************************************)
(* The inductive invariant of Lobby, for clients that wait for each answer *)
(* and one player who creates rooms: which messages can be on their way    *)
(* for which suspended handler, and what the agents know of the rooms.     *)
(***************************************************************************)
EXTENDS Lobby

\* What the clients have to keep to; lobby_pipelined and lobby_create_race show why.
OneByOne == MaxPending = 1 /\ \A p, q \in Creators : p = q

Born(r) == r \in Room /\ service[r] # "unborn"

JoinCalls == {"CreateRoom", "EnterRoom"}
LeaveCalls == {"LeaveRoom", "Kick"}

-----------------------------------------------------------------------------
(* Handlers and messages *)

\* A handler waits for roommgr or for a room that there is, as its kind has it.
JobFits(c) ==
  /\ job[c] # NoJob => (job[c].op = "Kick" <=> c[2] = 0)
  /\ job[c].op = "CreateRoom" => c[1] \in Creators
  /\ job[c].at = "roommgr" => job[c].room = 0 /\ job[c].op \in JoinCalls \cup {"GetRoomList"}
  /\ job[c].at = "room" => job[c].op # "GetRoomList" /\ Born(job[c].room)

\* A message to roommgr belongs to a handler of the kind that sends it, or is a room's own.
MgrMail(m) ==
  /\ m.type = "RemoveRoom" => m.from = NoCaller /\ m.id \in Room /\ removing[m.id]
  /\ m.type # "RemoveRoom" => m.from \in Caller /\ job[m.from].at = "roommgr"
  /\ m.type \in {"CreateRoom", "Inited"} => job[m.from].op = "CreateRoom"
  /\ m.type = "CreateRoom" => m.id = 0
  /\ m.type = "GetRoom" => job[m.from].op = "EnterRoom" /\ m.id \in Room
  /\ m.type \in {"GetRoomList", "RoomInfo"} => job[m.from].op = "GetRoomList"
  /\ m.type = "RoomInfo" => listing[m.from] \in Room
  /\ m.type = "Inited" =>
       m.id = roomID /\ m.id \in Room /\ service[m.id] = "running" /\ m_rooms[m.id] = 0

\* An answer is for a handler that waits; what roommgr names is no room that is yet to come.
AgentMail(p, x) ==
  /\ job[<<p, x.slot>>] # NoJob
  /\ job[<<p, x.slot>>].at = "roommgr" /\ job[<<p, x.slot>>].op \in JoinCalls =>
       x.val = 0 \/ Born(x.val)

\* A call in the queue of room r is that of a handler that called r, or roommgr's own for it.
RoomMail(r, m) ==
  /\ service[r] = "unborn" => m.type = "INIT"
  /\ m.type = "INIT" =>
       /\ job[m.from].op = "CreateRoom" /\ job[m.from].at = "roommgr"
       /\ r = roomID /\ m_rooms[r] = 0
  /\ m.type = "ReqRoomInfo" => job[m.from].op = "GetRoomList" /\ listing[m.from] = r
  /\ m.type \in {"AddPlayer", "RemovePlayer", "StartBattle", "GetRoomInfo"} =>
       job[m.from].at = "room" /\ job[m.from].room = r
  /\ m.type = "AddPlayer" => job[m.from].op \in JoinCalls
  /\ m.type = "RemovePlayer" => job[m.from].op \in LeaveCalls
  /\ m.type \in {"StartBattle", "GetRoomInfo"} => job[m.from].op = m.type
  /\ m.type = "Hit" => m.target \in Player

\* The queues hold one message of a call at most.
AtMostOne(mgr, agents, rooms) ==
  \A c \in Caller :
    /\ HowMany(mgr, ToMgrFor(c)) + HowMany(agents[c[1]], ToAgentFor(c)) <= 1
    /\ \A r \in Room :
         HowMany(mgr, ToMgrFor(c)) + HowMany(agents[c[1]], ToAgentFor(c))
         + HowMany(rooms[r], ToRoomFor(c)) <= 1

\* A call is lost with a removed room only.
NotLost(c) ==
  job[c] # NoJob =>
    \/ \E m \in In(mgrBox) : m.from = c
    \/ \E x \in In(inbox[c[1]]) : x.slot = c[2]
    \/ \E r \in Room : \E m \in In(box[r]) : m.from = c /\ m.type \in RoomCalls
    \/ CalledRoom(c) # 0 /\ service[CalledRoom(c)] = "removed"

\* roommgr's entries stand for the rooms of their ids, which run; the rooms are numbered as they
\* are created.
Table ==
  /\ \A k \in Room : m_rooms[k] # 0 => m_rooms[k] = k /\ service[k] = "running"
  /\ \A k \in Room : k > roomID => m_rooms[k] = 0 /\ service[k] = "unborn"
  /\ roomID + HowMany(mgrBox, Creations) <= Cardinality(Room)
  /\ \A p \in Player : m_room[p] # 0 => Born(m_room[p])

-----------------------------------------------------------------------------
(* Players *)

\* The agent of p has asked room r to add p, and the room has not looked yet.
Added(p, r) == \E m \in In(box[r]) : m.type = "AddPlayer" /\ m.from = <<p, 1>>

\* The agent of p is joining a room.
OnItsWay(p) ==
  \/ job[<<p, 1>>].op \in JoinCalls /\ job[<<p, 1>>].at = "roommgr"
  \/ \E r \in Room : Added(p, r)

\* A player who joins is in no room; the agent knows the room it asked, and is not kicked
\* meanwhile, unless its client was replaced.
JoinsFromOutside(p) ==
  /\ OnItsWay(p) => roomId[p] <= 0
  /\ kicked[p] # "replaced" =>
       /\ OnItsWay(p) => job[<<p, 0>>] = NoJob
       /\ \A r \in Room : Added(p, r) => m_room[p] = r

\* The agent knows the room its player is in, asks that one to remove the player, and has no
\* answer as long as the player is there.
KnowsRoom(p) ==
  kicked[p] # "replaced" =>
    \A r \in Room : p \in m_players[r] =>
      /\ m_room[p] = r
      /\ \A i \in {0, 1} : job[<<p, i>>].op \in LeaveCalls =>
           job[<<p, i>>].room = r /\ \A x \in In(inbox[p]) : x.slot # i

\* A kicked player who was not joining a room then will not be in one.
StaysOut(p) ==
  /\ job[<<p, 0>>] # NoJob => kicked[p] # "no"
  /\ kicked[p] = "closed" => job[<<p, 1>>].op \notin JoinCalls
  /\ kicked[p] = "closed" /\ job[<<p, 0>>] = NoJob => \A r \in Room : p \notin m_players[r]

\* The answer that says whether the player was added is still true.
TrueAnswers(p) ==
  \A x \in In(inbox[p]) :
    x.slot = 1 /\ job[<<p, 1>>].op = "EnterRoom" /\ job[<<p, 1>>].at = "room" /\ kicked[p] = "no" =>
      (x.val = 1 <=> p \in m_players[job[<<p, 1>>].room])

PlayerFits(p) == JoinsFromOutside(p) /\ KnowsRoom(p) /\ StaysOut(p) /\ TrueAnswers(p)

LobbyInvariant ==
  /\ OneByOne
  /\ ServicesTypeOK
  /\ IInv
  /\ \A c \in Caller : JobFits(c) /\ NotLost(c)
  /\ \A m \in In(mgrBox) : MgrMail(m)
  /\ \A p \in Player : \A x \in In(inbox[p]) : AgentMail(p, x)
  /\ \A r \in Room : \A m \in In(box[r]) : RoomMail(r, m)
  /\ AtMostOne(mgrBox, inbox, box)
  /\ Table
  /\ \A p \in Player : PlayerFits(p)
=============================================================================
