------------------------------- MODULE Lobby -------------------------------
(***************************************************************************)
(* The lobby: the agents of the players (src/src/service/agent.cc), the    *)
(* room manager (roomMgr.cc), the rooms of module Rooms, and the messages  *)
(* between them.                                                           *)
(*                                                                         *)
(* A service takes the messages of its queue one by one.  A handler that   *)
(* makes a call is suspended until the answer comes, and meanwhile the     *)
(* service takes other messages (serviceContext.h, m_suspendingPool).  So  *)
(* a handler with calls is several actions here, cut at its calls, and its *)
(* local state is kept in job (agents) or in the message (roommgr).        *)
(* Handlers without calls are single actions.                              *)
(*                                                                         *)
(* An agent's handler that refuses a client's message answers it at once   *)
(* and changes nothing: no action stands for that.                         *)
(* The clients send the messages of the protocol; what else they may name  *)
(* to an agent (agent.cc:10-13) is in module Session.                      *)
(*                                                                         *)
(* agentmgr kicks an agent when the client's connection is closed, or when *)
(* another client logs in under the name (module Session).  A kick comes   *)
(* at any time, also between two parts of another handler.                 *)
(***************************************************************************)
EXTENDS Rooms, Queues

CONSTANTS
  Requests,     \* the messages the agents get, of those below and "Kick"
  Creators,     \* the players who create rooms
  MaxPending,   \* how many requests of a client are open at once; 1: it waits for each answer
  MaxRequests   \* bound of the model: the messages an agent gets

ASSUME LobbyAssumption ==
  /\ Cardinality(Room) \in Nat
  /\ Room = 1..Cardinality(Room)
  /\ Creators \subseteq Player
  /\ MaxPending \in Nat \ {0}
  /\ MaxRequests \in Nat

VARIABLES
  \* agents
  m_room,    \* the service id of the player's room, 0 for none
  job,       \* the suspended handlers
  inbox,     \* the answers to their calls
  asked,     \* how many messages the agent got from outside
  kicked,    \* history: how the agent was kicked (Kicks)
  \* roommgr
  m_rooms,   \* room id -> service id, 0 for no entry
  roomID,    \* the static counter of handleCreateRoom
  listing,   \* where the iterator of a suspended handleGetRoomList is
  mgrBox,    \* the queue of roommgr
  \* rooms
  box,       \* the queues of the rooms
  down       \* the process has crashed

agentVars == <<m_room, job, inbox, asked, kicked>>
mgrVars == <<m_rooms, roomID, listing, mgrBox>>
lobbyVars == <<vars, agentVars, mgrVars, box, down>>

\* A suspended handler of an agent; the number tells the handlers of one agent apart, 0 is
\* handleKick.
Caller == Player \X (0..MaxPending)

NoCaller == <<0, 0>>
NoJob == [op |-> "none", at |-> "none", room |-> 0]
Plays == {"SyncTank", "Fire", "Hit"}

\* No kick; the client is gone; it went while its agent was joining a room; it goes on for a
\* while, as another one has its name.
Kicks == {"no", "closed", "closedJoining", "replaced"}

Job ==
  [op : {"CreateRoom", "EnterRoom", "LeaveRoom", "StartBattle", "GetRoomInfo", "GetRoomList",
         "Kick"},
   at : {"roommgr", "room"}, room : Room \cup {0}] \cup {NoJob}

MgrMsg ==
  [type : {"CreateRoom", "GetRoom", "GetRoomList", "RemoveRoom", "Inited", "RoomInfo"},
   from : Caller \cup {NoCaller}, id : Room \cup {0}]

AgentMsg == [slot : 0..MaxPending, val : Room \cup {0, 1}]

\* What belongs to a call; nobody waits for what is sent of Plays.
RoomCalls == {"INIT", "AddPlayer", "RemovePlayer", "StartBattle", "GetRoomInfo", "ReqRoomInfo"}

RoomMsg == [type : RoomCalls \cup Plays, from : Caller, target : Player \cup {0}]

ServicesTypeOK ==
  /\ TypeOK
  /\ m_room \in [Player -> Room \cup {0}]
  /\ job \in [Caller -> Job]
  /\ inbox \in [Player -> Seq(AgentMsg)]
  /\ asked \in [Player -> 0..MaxRequests]
  /\ kicked \in [Player -> Kicks]
  /\ m_rooms \in [Room -> Room \cup {0}]
  /\ roomID \in Room \cup {0}
  /\ listing \in [Caller -> Room \cup {0}]
  /\ mgrBox \in Seq(MgrMsg)
  /\ box \in [Room -> Seq(RoomMsg)]

LobbyTypeOK == ServicesTypeOK /\ down \in BOOLEAN

-----------------------------------------------------------------------------
(* Messages *)

ToMgr(type, c, id) == mgrBox' = Append(mgrBox, [type |-> type, from |-> c, id |-> id])

\* What is sent to a service that was removed is lost.
ToRoom(r, type, c, target) ==
  box' = IF service[r] = "removed" THEN box
         ELSE [box EXCEPT ![r] = Append(@, [type |-> type, from |-> c, target |-> target])]

Answered(c, val) == [inbox EXCEPT ![c[1]] = Append(@, [slot |-> c[2], val |-> val])]

Answer(c, val) == inbox' = Answered(c, val)

-----------------------------------------------------------------------------
(* The agents: the first part of each handler *)

\* The agent of p gets a message of this kind; nothing more comes from a client that is gone.
Gets(p, request) ==
  /\ request \in Requests
  /\ asked[p] < MaxRequests
  /\ kicked[p] \in {"no", "replaced"}
  /\ asked' = [asked EXCEPT ![p] = @ + 1]

\* The client of p sends a request, which handler c of its agent takes.
Asks(p, c, request) ==
  /\ Gets(p, request)
  /\ c[1] = p
  /\ c[2] # 0
  /\ job[c] = NoJob
  /\ \A k \in 1..c[2] - 1 : job[<<p, k>>] # NoJob

\* Mutant: nobody looks whether the player is in a room.
NotInRoom_Unchecked(p) == TRUE

NotInRoom(p) == roomId[p] <= 0

\* As many creations as there are rooms in the model.
Creations == [type : {"CreateRoom"}, from : Caller, id : {0}]
RoomsLeft == roomID + HowMany(mgrBox, Creations) < Cardinality(Room)

MsgCreateRoom(p, c) ==
  /\ p \in Creators
  /\ RoomsLeft
  /\ Asks(p, c, "CreateRoom")
  /\ NotInRoom(p)
  /\ job' = [job EXCEPT ![c] = [op |-> "CreateRoom", at |-> "roommgr", room |-> 0]]
  /\ ToMgr("CreateRoom", c, 0)
  /\ UNCHANGED <<vars, m_room, inbox, kicked, m_rooms, roomID, listing, box>>

MsgEnterRoom(p, c, id) ==
  /\ Asks(p, c, "EnterRoom")
  /\ NotInRoom(p)
  /\ job' = [job EXCEPT ![c] = [op |-> "EnterRoom", at |-> "roommgr", room |-> 0]]
  /\ ToMgr("GetRoom", c, id)
  /\ UNCHANGED <<vars, m_room, inbox, kicked, m_rooms, roomID, listing, box>>

MsgGetRoomList(p, c) ==
  /\ Asks(p, c, "GetRoomList")
  /\ job' = [job EXCEPT ![c] = [op |-> "GetRoomList", at |-> "roommgr", room |-> 0]]
  /\ ToMgr("GetRoomList", c, 0)
  /\ UNCHANGED <<vars, m_room, inbox, kicked, m_rooms, roomID, listing, box>>

\* LeaveRoom, StartBattle and GetRoomInfo call the agent's room.
AsksRoom(p, c, request, type) ==
  /\ Asks(p, c, request)
  /\ m_room[p] # 0
  /\ job' = [job EXCEPT ![c] = [op |-> request, at |-> "room", room |-> m_room[p]]]
  /\ ToRoom(m_room[p], type, c, 0)
  /\ UNCHANGED <<vars, m_room, inbox, kicked, mgrVars>>

MsgLeaveRoom(p, c) == AsksRoom(p, c, "LeaveRoom", "RemovePlayer")

MsgStartBattle(p, c) == AsksRoom(p, c, "StartBattle", "StartBattle")

MsgGetRoomInfo(p, c) == AsksRoom(p, c, "GetRoomInfo", "GetRoomInfo")

\* SyncTank, Fire and Hit are sent on; nobody waits.
MsgPlay(p, type, target) ==
  /\ Gets(p, type)
  /\ (target = 0) <=> (type # "Hit")
  /\ m_room[p] # 0
  /\ ToRoom(m_room[p], type, <<p, 1>>, target)
  /\ UNCHANGED <<vars, m_room, job, inbox, kicked, mgrVars>>

\* Mutant: the agent forgets its room, and the room is not told.
HandleKick_Silent(p) ==
  LET joins == \E c \in Caller : c[1] = p /\ job[c].op \in {"CreateRoom", "EnterRoom"}
  IN  /\ Gets(p, "Kick")
      /\ \A q \in Player : kicked[q] = "no"
      /\ \E how \in {IF joins THEN "closedJoining" ELSE "closed", "replaced"} :
           kicked' = [kicked EXCEPT ![p] = how]
      /\ m_room' = [m_room EXCEPT ![p] = 0]
      /\ UNCHANGED <<vars, job, inbox, mgrVars, box>>

\* agentmgr kicks an agent, one in the model.  A player in no room is not looked at.
HandleKick(p) ==
  LET joins == \E c \in Caller : c[1] = p /\ job[c].op \in {"CreateRoom", "EnterRoom"}
  IN  /\ Gets(p, "Kick")
      /\ \A q \in Player : kicked[q] = "no"
      /\ \E how \in {IF joins THEN "closedJoining" ELSE "closed", "replaced"} :
           kicked' = [kicked EXCEPT ![p] = how]
      /\ IF ~NotInRoom(p) /\ m_room[p] # 0
         THEN /\ job' = [job EXCEPT ![<<p, 0>>] = [op |-> "Kick", at |-> "room", room |-> m_room[p]]]
              /\ ToRoom(m_room[p], "RemovePlayer", <<p, 0>>, 0)
         ELSE UNCHANGED <<job, box>>
      /\ UNCHANGED <<vars, m_room, inbox, mgrVars>>

-----------------------------------------------------------------------------
(* The agents: after an answer *)

\* The agent of p takes an answer, which is for handler c.
Resumes(p, c) ==
  /\ inbox[p] # <<>>
  /\ c = <<p, Head(inbox[p]).slot>>
  /\ inbox' = [inbox EXCEPT ![p] = Tail(@)]
  /\ UNCHANGED <<vars, asked, kicked, mgrVars>>

Done(c) == job' = [job EXCEPT ![c] = NoJob]

\* roommgr named the room; the agent asks it to add the player, or gives up.
JoinRoom(p, c) ==
  /\ Resumes(p, c)
  /\ job[c].op \in {"CreateRoom", "EnterRoom"}
  /\ job[c].at = "roommgr"
  /\ LET r == Head(inbox[p]).val
     IN  /\ m_room' = [m_room EXCEPT ![p] = r]
         /\ IF r = 0
            THEN Done(c) /\ UNCHANGED box
            ELSE /\ job' = [job EXCEPT ![c] = [op |-> @.op, at |-> "room", room |-> r]]
                 /\ ToRoom(r, "AddPlayer", c, 0)

\* The last part of every other handler.  m_room is kept when the room refuses the player.
Finish(p, c) ==
  /\ Resumes(p, c)
  /\ job[c].at = "room" \/ job[c].op = "GetRoomList"
  /\ m_room' = [m_room EXCEPT ![p] = IF job[c].op \in {"LeaveRoom", "Kick"} THEN 0 ELSE @]
  /\ Done(c)
  /\ UNCHANGED box

-----------------------------------------------------------------------------
(* roommgr *)

\* roommgr takes a message of this type.
MgrTakes(type) ==
  /\ mgrBox # <<>>
  /\ Head(mgrBox).type = type

\* Its queue afterwards, when the handler sends nothing to roommgr itself.
MgrTook == mgrBox' = Tail(mgrBox)

\* newService: the room's first message is INIT, and the handler waits for its answer.
CreateRoom ==
  /\ MgrTakes("CreateRoom")
  /\ roomID' = roomID + 1
  /\ ToRoom(roomID + 1, "INIT", Head(mgrBox).from, 0)
  /\ MgrTook
  /\ UNCHANGED <<vars, agentVars, m_rooms, listing>>

\* The rest of handleCreateRoom: the entry is made under the counter's present value.
RoomCreated ==
  /\ MgrTakes("Inited")
  /\ m_rooms' = [m_rooms EXCEPT ![roomID] = Head(mgrBox).id]
  /\ Answer(Head(mgrBox).from, Head(mgrBox).id)
  /\ MgrTook
  /\ UNCHANGED <<vars, m_room, job, asked, kicked, roomID, listing, box>>

\* m_rooms without room id.  Mutant: the entry is forgotten.
Erased_Kept(id) == m_rooms
Erased(id) == [m_rooms EXCEPT ![id] = 0]

RemoveRoom ==
  /\ MgrTakes("RemoveRoom")
  /\ LET id == Head(mgrBox).id
         r == m_rooms[id]
     IN  IF r = 0
         THEN UNCHANGED <<vars, m_rooms, box>>
         ELSE /\ Destroy(r)
              /\ m_rooms' = Erased(id)
              /\ box' = [box EXCEPT ![r] = <<>>]
  /\ MgrTook
  /\ UNCHANGED <<agentVars, roomID, listing>>

GetRoom ==
  /\ MgrTakes("GetRoom")
  /\ Answer(Head(mgrBox).from, m_rooms[Head(mgrBox).id])
  /\ MgrTook
  /\ UNCHANGED <<vars, m_room, job, asked, kicked, m_rooms, roomID, listing, box>>

\* The loop of handleGetRoomList at room id k, 0 for its end.
ListFrom(c, k) ==
  /\ listing' = [listing EXCEPT ![c] = k]
  /\ IF k = 0
     THEN Answer(c, 1) /\ UNCHANGED box
     ELSE ToRoom(m_rooms[k], "ReqRoomInfo", c, 0) /\ UNCHANGED inbox
  /\ MgrTook
  /\ UNCHANGED <<vars, m_room, job, asked, kicked, m_rooms, roomID>>

\* The first entry of m_rooms after k.  Mutant: it may be k's.
EntryAfter_Same(k) ==
  LET after == {i \in Room : i >= k /\ m_rooms[i] # 0}
  IN  IF after = {} THEN 0 ELSE CHOOSE i \in after : \A j \in after : i <= j

EntryAfter(k) ==
  LET after == {i \in Room : i > k /\ m_rooms[i] # 0}
  IN  IF after = {} THEN 0 ELSE CHOOSE i \in after : \A j \in after : i <= j

GetRoomList == MgrTakes("GetRoomList") /\ ListFrom(Head(mgrBox).from, EntryAfter(0))

\* One more room has answered.  If its entry is gone, the iterator is dangling: it may go
\* on anywhere, or crash the process.
NextInList ==
  /\ MgrTakes("RoomInfo")
  /\ LET c == Head(mgrBox).from
         at == listing[c]
     IN  \E k \in {i \in Room : m_rooms[i] # 0} \cup {0} :
           /\ m_rooms[at] # 0 => k = EntryAfter(at)
           /\ ListFrom(c, k)

ListCrashes ==
  /\ MgrTakes("RoomInfo")
  /\ m_rooms[listing[Head(mgrBox).from]] = 0
  /\ down' = TRUE
  /\ UNCHANGED <<vars, agentVars, mgrVars, box>>

-----------------------------------------------------------------------------
(* The rooms *)

\* A room that is running takes a message of this type; INIT makes it run.
Takes(r, type) ==
  /\ service[r] # "removed"
  /\ box[r] # <<>>
  /\ Head(box[r]).type = type

Took(r) == box' = [box EXCEPT ![r] = Tail(@)]

From(r) == Head(box[r]).from

\* The result of a request.  Mutant: an error code.
Bit_Code(b) == IF b THEN 0 ELSE -1
Bit(b) == IF b THEN 1 ELSE 0

RoomInit(r) ==
  /\ Takes(r, "INIT")
  /\ Create(r)
  /\ ToMgr("Inited", From(r), r)
  /\ Took(r)
  /\ UNCHANGED <<agentVars, m_rooms, roomID, listing>>

RoomAddPlayer(r) ==
  LET p == From(r)[1]
  IN  /\ Takes(r, "AddPlayer")
      /\ HandleAddPlayer(r, p)
      /\ Answer(From(r), Bit(CanAdd(r, p)))
      /\ Took(r)
      /\ UNCHANGED <<m_room, job, asked, kicked, mgrVars>>

\* The room asks for its own removal.  Mutant: it goes with its owner.
AsksRemoval_Owner(r, p) == p \in m_players[r] /\ p = m_ownerID[r]
AsksRemoval(r, p) == p \in m_players[r] /\ LastToLeave(r, p)

RoomRemovePlayer(r) ==
  LET p == From(r)[1]
  IN  /\ Takes(r, "RemovePlayer")
      /\ HandleRemovePlayer(r, p)
      /\ IF AsksRemoval(r, p)
         THEN ToMgr("RemoveRoom", NoCaller, r)
         ELSE UNCHANGED mgrBox
      /\ Answer(From(r), Bit(p \in m_players[r]))
      /\ Took(r)
      /\ UNCHANGED <<m_room, job, asked, kicked, m_rooms, roomID, listing>>

\* Mutant of RoomStartBattle: who is refused is not answered.
RoomStartBattle_Mute(r) ==
  LET p == From(r)[1]
  IN  /\ Takes(r, "StartBattle")
      /\ HandleStartBattle(r, p)
      /\ IF CanStartBattle(r, p) THEN Answer(From(r), 1) ELSE UNCHANGED inbox
      /\ Took(r)
      /\ UNCHANGED <<m_room, job, asked, kicked, mgrVars>>

RoomStartBattle(r) ==
  LET p == From(r)[1]
  IN  /\ Takes(r, "StartBattle")
      /\ HandleStartBattle(r, p)
      /\ Answer(From(r), Bit(CanStartBattle(r, p)))
      /\ Took(r)
      /\ UNCHANGED <<m_room, job, asked, kicked, mgrVars>>

RoomGetRoomInfo(r) ==
  /\ Takes(r, "GetRoomInfo")
  /\ Answer(From(r), 1)
  /\ Took(r)
  /\ UNCHANGED <<vars, m_room, job, asked, kicked, mgrVars>>

RoomReqRoomInfo(r) ==
  /\ Takes(r, "ReqRoomInfo")
  /\ ToMgr("RoomInfo", From(r), 0)
  /\ Took(r)
  /\ UNCHANGED <<vars, agentVars, m_rooms, roomID, listing>>

RoomPlay(r) ==
  /\ \/ Takes(r, "SyncTank") /\ HandleSyncTank(r, From(r)[1])
     \/ Takes(r, "Fire") /\ HandleFire(r, From(r)[1])
     \/ Takes(r, "Hit") /\ HandleHit(r, From(r)[1], Head(box[r]).target)
  /\ Took(r)
  /\ UNCHANGED <<agentVars, mgrVars>>

RoomTick(r) == Tick(r) /\ UNCHANGED <<agentVars, mgrVars, box>>

-----------------------------------------------------------------------------
LobbyInit ==
  /\ Init
  /\ m_room = [p \in Player |-> 0]
  /\ job = [c \in Caller |-> NoJob]
  /\ inbox = [p \in Player |-> <<>>]
  /\ asked = [p \in Player |-> 0]
  /\ kicked = [p \in Player |-> "no"]
  /\ m_rooms = [r \in Room |-> 0]
  /\ roomID = 0
  /\ listing = [c \in Caller |-> 0]
  /\ mgrBox = <<>>
  /\ box = [r \in Room |-> <<>>]
  /\ down = FALSE

Client(p) ==
  \/ \E c \in Caller :
       \/ MsgCreateRoom(p, c)
       \/ \E id \in Room : MsgEnterRoom(p, c, id)
       \/ MsgLeaveRoom(p, c)
       \/ MsgStartBattle(p, c)
       \/ MsgGetRoomInfo(p, c)
       \/ MsgGetRoomList(p, c)
  \/ \E type \in Plays, target \in Player \cup {0} : MsgPlay(p, type, target)
  \/ HandleKick(p)

Agent(p) == \E c \in Caller : JoinRoom(p, c) \/ Finish(p, c)

RoomMgr ==
  CreateRoom \/ RoomCreated \/ RemoveRoom \/ GetRoom \/ GetRoomList \/ NextInList

RoomService(r) ==
  \/ RoomInit(r)
  \/ RoomAddPlayer(r)
  \/ RoomRemovePlayer(r)
  \/ RoomStartBattle(r)
  \/ RoomGetRoomInfo(r)
  \/ RoomReqRoomInfo(r)
  \/ RoomPlay(r)

\* Nothing happens after a crash.
LobbyNext ==
  /\ ~down
  /\ \/ /\ \/ \E p \in Player : Client(p) \/ Agent(p)
           \/ RoomMgr
           \/ \E r \in Room : RoomService(r) \/ RoomTick(r)
        /\ UNCHANGED down
     \/ ListCrashes

\* A service whose queue is not empty is in the global queue, and a worker gets to it (queue.h).
LobbySpec ==
  /\ LobbyInit
  /\ [][LobbyNext]_lobbyVars
  /\ \A p \in Player : WF_lobbyVars(Agent(p) /\ ~down /\ UNCHANGED down)
  /\ WF_lobbyVars(RoomMgr /\ ~down /\ UNCHANGED down)
  /\ \A r \in Room :
       /\ WF_lobbyVars(RoomService(r) /\ ~down /\ UNCHANGED down)
       /\ WF_lobbyVars(RoomTick(r) /\ ~down /\ UNCHANGED down)

-----------------------------------------------------------------------------
(* Properties *)

\* The agent of a player who is in a room has the room's service id, so that its messages, and a
\* kick, go there: m_room is written apart from the room's own lists, before AddPlayer is sent and
\* after RemovePlayer is answered (agent.cc:56, 104, 131, 189).  A client that goes on after the
\* kick may join a room before handleKick sets m_room to 0.
AgentKnowsRoom ==
  \A r \in Room : \A p \in m_players[r] : m_room[p] = r \/ kicked[p] = "replaced"

\* When a client is gone and its agent was kicked, its player is in no room, unless the agent was
\* joining one (agent.cc:44-61): no request that is still on its way brings the player back.
KickedPlayersLeave ==
  \A p \in Player :
    kicked[p] = "closed" /\ job[<<p, 0>>] = NoJob => \A r \in Room : p \notin m_players[r]

\* A player whose client was told that it entered a room is in the room then, and one who was
\* refused is not, though the answer passed two queues since the room looked (agent.cc:143-155);
\* a kick meanwhile excepted.
EnterAnswersAreTrue ==
  [][\A c \in Caller, r \in Room :
       LET p == c[1] IN
       job[c].op = "EnterRoom" /\ job[c].room = r /\ job'[c] = NoJob /\ kicked[p] = "no" =>
         (Head(inbox[p]).val = 1 <=> p \in m_players[r])]_lobbyVars

\* roommgr has no entry for a service that is not running, even though rooms ask for their
\* removal on their own and creations are cut by an await (roomMgr.cc:22-23, 31-33).
TableLive == \A k \in Room : m_rooms[k] # 0 => service[m_rooms[k]] = "running"

\* The messages that belong to the call handler c is waiting for.
ToMgrFor(c) == [type : {"CreateRoom", "GetRoom", "GetRoomList", "Inited", "RoomInfo"}, from : {c},
                id : Room \cup {0}]
ToAgentFor(c) == [slot : {c[2]}, val : Room \cup {0, 1}]
ToRoomFor(c) == [type : RoomCalls, from : {c}, target : Player \cup {0}]

InBoxes(c) ==
  Cardinality({ri \in UNION {{r} \X DOMAIN box[r] : r \in Room} :
                 box[ri[1]][ri[2]] \in ToRoomFor(c)})

InFlight(c) ==
  HowMany(mgrBox, ToMgrFor(c)) + HowMany(inbox[c[1]], ToAgentFor(c)) + InBoxes(c)

\* The room that has c's call, directly or for roommgr's list.
CalledRoom(c) == IF job[c].at = "room" THEN job[c].room ELSE listing[c]

\* A call is with one party at a time: either its request is queued, once, or its answer is, or
\* roommgr has a request of its own open for it.  Only a room that was removed loses it.  (A
\* handler that is resumed twice takes another call's answer for its own.)
OneMessagePerCall ==
  \A c \in Caller :
    IF job[c] = NoJob THEN InFlight(c) = 0
    ELSE \/ InFlight(c) = 1
         \/ InFlight(c) = 0 /\ CalledRoom(c) # 0 /\ service[CalledRoom(c)] = "removed"

\* A request is answered, unless a room loses its call or the process has crashed: no handler
\* waits for another one that waits for it, or is passed over for ever (agent.cc:84-208,
\* roomMgr.cc:22, 59).
RequestsAnswered ==
  \A c \in Caller : job[c] # NoJob ~> job[c] = NoJob \/ InFlight(c) = 0 \/ down

\* The rooms, driven by the agents and roommgr, do what module Rooms says: an agent asks a room
\* to add its player only while the player is in no room, though it looked before two awaits
\* (agent.cc:92-108, 117-143), and roommgr removes only a room that asked for it.
ImplementsRooms == RoomsSpec

\* A room is removed only when nobody is in it.
RemovedRoomsAreEmpty == \A r \in Room : service[r] = "removed" => m_players[r] = {}

\* The service roommgr names for a room id is the room of that id.
EntriesMatch == \A k \in Room : m_rooms[k] \in {0, k}
=============================================================================
