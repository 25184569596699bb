---------------------------- MODULE LobbyProofs ----------------------------
(***************************************************************************)
(* What TLAPS proves of Lobby, for every set of players and rooms and      *)
(* every number of requests, if clients wait for their answers and one     *)
(* player creates rooms: the lobby drives the rooms as module Rooms says,  *)
(* the agents know where their players are, and no call is answered twice  *)
(* or lost with a room that is there.                                      *)
(***************************************************************************)
EXTENDS LobbyCalls, MatchProofs

-----------------------------------------------------------------------------
(* The parts of the invariant *)

LEMMA Parts ==
  ASSUME LobbyInvariant
  PROVE  /\ OneByOne /\ CallsFit /\ IInv /\ Table
         /\ \A c \in Caller : JobFits(c) /\ NotLost(c)
         /\ \A m \in In(mgrBox) : MgrMail(m)
         /\ \A p \in Player : \A x \in In(inbox[p]) : AgentMail(p, x)
         /\ \A r \in Room : \A m \in In(box[r]) : RoomMail(r, m)
         /\ \A p \in Player : PlayerFits(p)
         /\ EntriesRun
BY InvariantCalls DEF LobbyInvariant, Table, EntriesRun

LEMMA Types ==
  ASSUME LobbyInvariant
  PROVE  /\ TypeOK
         /\ service \in [Room -> {"unborn", "running", "removed"}]
         /\ m_players \in [Room -> SUBSET Player]
         /\ removing \in [Room -> BOOLEAN]
         /\ roomId \in [Player -> Room \cup {0, -1}]
         /\ m_room \in [Player -> Room \cup {0}]
         /\ job \in [Caller -> Job]
         /\ asked \in [Player -> 0..MaxRequests]
         /\ kicked \in [Player -> Kicks]
         /\ m_rooms \in [Room -> Room \cup {0}]
         /\ roomID \in Room \cup {0}
         /\ listing \in [Caller -> Room \cup {0}]
BY DEF LobbyInvariant, ServicesTypeOK, TypeOK

LEMMA Together ==
  ASSUME LobbyInvariant, CallsFit', [RoomsNext]_vars, Table', \A p \in Player : PlayerFits(p)',
         m_room' \in [Player -> Room \cup {0}],
         asked' \in [Player -> 0..MaxRequests],
         kicked' \in [Player -> Kicks],
         m_rooms' \in [Room -> Room \cup {0}],
         roomID' \in Room \cup {0}
  PROVE  LobbyInvariant'
<1>1. IInv'
  BY Parts, InvStep
<1>2. /\ OneByOne' /\ job' \in [Caller -> Job] /\ listing' \in [Caller -> Room \cup {0}]
      /\ QueuesOK(mgrBox', inbox', box') /\ AtMostOne(mgrBox', inbox', box')
      /\ Mails' /\ \A c \in Caller : JobFits(c)' /\ NotLost(c)'
  BY DEF CallsFit
<1>3. ServicesTypeOK'
  <2>1. TypeOK'
    BY <1>1 DEF IInv
  <2>. QED BY <1>2, <2>1 DEF ServicesTypeOK, QueuesOK
<1>4. /\ \A m \in In(mgrBox') : MgrMail(m)'
      /\ \A p \in Player : \A x \in In(inbox'[p]) : AgentMail(p, x)'
      /\ \A r \in Room : \A m \in In(box'[r]) : RoomMail(r, m)'
  BY <1>2 DEF Mails
<1>. QED BY <1>1, <1>2, <1>3, <1>4, Zenon DEF LobbyInvariant

\* Who carries no room's id is in no room.
LEMMA Outside ==
  ASSUME LobbyInvariant, NEW p \in Player, roomId[p] <= 0
  PROVE  \A r \in Room : p \notin m_players[r]
<1>1. RoomIdMatches
  BY Parts DEF IInv
<1>2. ASSUME NEW r \in Room, p \in m_players[r] PROVE FALSE
  <2>1. roomId[p] = r
    BY <1>1, <1>2 DEF RoomIdMatches
  <2>2. r \in Nat \ {0}
    BY RoomAssumption
  <2>. QED BY <2>1, <2>2
<1>. QED BY <1>2

-----------------------------------------------------------------------------
(* The table of roommgr *)

\* roommgr's table and the number of creations are left alone, and no agent gets another room
\* than one that was created.
LEMMA SameTable ==
  ASSUME Table, roomID \in Room \cup {0}, UNCHANGED <<service, m_rooms, roomID>>,
         HowMany(mgrBox, Creations) \in Nat, HowMany(mgrBox', Creations) \in Nat, NoNewCreation,
         \A p \in Player : m_room'[p] = m_room[p] \/ m_room'[p] = 0 \/ Born(m_room'[p])
  PROVE  Table'
<1>1. roomID \in Nat /\ Cardinality(Room) \in Nat
  BY RoomAssumption, LobbyAssumption
<1>2. roomID' + HowMany(mgrBox', Creations) <= Cardinality(Room)
  BY <1>1 DEF Table, NoNewCreation
<1>3. \A p \in Player : m_room'[p] # 0 => m_room'[p] \in Room /\ service[m_room'[p]] # "unborn"
  BY DEF Table, Born
<1>4. /\ \A k \in Room : m_rooms[k] # 0 => m_rooms[k] = k /\ service[k] = "running"
      /\ \A k \in Room : k > roomID => m_rooms[k] = 0 /\ service[k] = "unborn"
  BY DEF Table
<1>. QED BY <1>2, <1>3, <1>4 DEF Table, Born

LEMMA CreationsCounted ==
  ASSUME LobbyInvariant
  PROVE  HowMany(mgrBox, Creations) \in Nat
<1>1. mgrBox \in Seq(MgrMsg)
  BY Parts DEF CallsFit, QueuesOK
<1>. QED BY <1>1, HowManyType

-----------------------------------------------------------------------------
(* Players a step has little to do with *)

\* What a step sends is of no interest to p: no room is asked to add p, and p's agent gets no
\* answer that says where p is.
QuietFor(p) ==
  /\ \A r \in Room : Added(p, r)' => Added(p, r)
  /\ \A x \in In(inbox'[p]) :
       \/ x \in In(inbox[p])
       \/ /\ job[<<p, x.slot>>].op \notin LeaveCalls
          /\ job[<<p, x.slot>>].op = "EnterRoom" => job[<<p, x.slot>>].at # "room"

\* A step that leaves p and the room of p alone, or ends a handler of p's agent, or starts one
\* that does not bring p into a room or out of it.
LEMMA PlayerFrame ==
  ASSUME LobbyInvariant, NEW p \in Player,
         roomId'[p] = roomId[p], kicked'[p] = kicked[p],
         \A r \in Room : p \in m_players'[r] <=> p \in m_players[r],
         \/ job'[<<p, 1>>] = job[<<p, 1>>]
         \/ job'[<<p, 1>>].op \notin JoinCalls \cup LeaveCalls,
         \/ job'[<<p, 0>>] = job[<<p, 0>>]
         \/ /\ job'[<<p, 0>>] = NoJob
            /\ kicked[p] = "closed" => \A r \in Room : p \notin m_players[r],
         \/ m_room'[p] = m_room[p]
         \/ kicked[p] = "replaced"
         \/ \A r \in Room : p \notin m_players[r] /\ ~Added(p, r),
         QuietFor(p)
  PROVE  PlayerFits(p)'
<1>1. /\ JoinsFromOutside(p) /\ KnowsRoom(p) /\ StaysOut(p) /\ TrueAnswers(p)
      /\ JobFits(<<p, 0>>) /\ JobFits(<<p, 1>>)
  BY Parts, Callers DEF PlayerFits
<1>2. /\ NoJob.op \notin JoinCalls \cup LeaveCalls
      /\ "EnterRoom" \in JoinCalls
  BY DEF NoJob, JoinCalls, LeaveCalls
<1>q. /\ \A r \in Room : Added(p, r)' => Added(p, r)
      /\ \A x \in In(inbox'[p]) :
           \/ x \in In(inbox[p])
           \/ /\ job[<<p, x.slot>>].op \notin LeaveCalls
              /\ job[<<p, x.slot>>].op = "EnterRoom" => job[<<p, x.slot>>].at # "room"
  BY DEF QuietFor
<1>3. OnItsWay(p)' => OnItsWay(p)
  BY <1>q DEF OnItsWay
<1>4. JoinsFromOutside(p)'
  BY <1>1, <1>3, <1>q DEF JoinsFromOutside
<1>5. KnowsRoom(p)'
  <2>. SUFFICES ASSUME kicked[p] # "replaced", NEW r \in Room, p \in m_players[r]
                PROVE  /\ m_room'[p] = r
                       /\ \A i \in {0, 1} : job'[<<p, i>>].op \in LeaveCalls =>
                            job'[<<p, i>>].room = r /\ \A x \in In(inbox'[p]) : x.slot # i
    BY DEF KnowsRoom
  <2>1. /\ m_room[p] = r
        /\ \A i \in {0, 1} : job[<<p, i>>].op \in LeaveCalls =>
             job[<<p, i>>].room = r /\ \A x \in In(inbox[p]) : x.slot # i
    BY <1>1 DEF KnowsRoom
  <2>2. m_room'[p] = r
    BY <2>1
  <2>3. ASSUME NEW i \in {0, 1}, job'[<<p, i>>].op \in LeaveCalls
        PROVE  job'[<<p, i>>].room = r /\ \A x \in In(inbox'[p]) : x.slot # i
    <3>1. job'[<<p, i>>] = job[<<p, i>>]
      BY <1>2, <2>3
    <3>. QED BY <1>q, <2>1, <2>3, <3>1
  <2>. QED BY <2>2, <2>3
<1>6. StaysOut(p)'
  BY <1>1 DEF StaysOut
<1>7. TrueAnswers(p)'
  <2>. SUFFICES ASSUME NEW x \in In(inbox'[p]), x.slot = 1, job'[<<p, 1>>].op = "EnterRoom",
                       job'[<<p, 1>>].at = "room", kicked[p] = "no"
                PROVE  x.val = 1 <=> p \in m_players'[job'[<<p, 1>>].room]
    BY DEF TrueAnswers
  <2>1. job'[<<p, 1>>] = job[<<p, 1>>]
    BY <1>2
  <2>2. x \in In(inbox[p])
    BY <1>q, <2>1
  <2>3. job[<<p, 1>>].room \in Room
    BY <1>1, <2>1 DEF JobFits, Born
  <2>. QED BY <1>1, <2>1, <2>2, <2>3 DEF TrueAnswers
<1>. QED BY <1>4, <1>5, <1>6, <1>7 DEF PlayerFits

\* Messages of no interest to p: those of other players, those of calls that wait for roommgr, and
\* the calls of rooms other than AddPlayer.
LEMMA QuietIf ==
  ASSUME LobbyInvariant, NEW p \in Player, NEW c \in Caller \cup {NoCaller}, NEW xs, NEW ms,
         OnlyNew(c, xs, ms),
         \A rm \in ms : rm[2].type # "AddPlayer" \/ rm[2].from[1] # p,
         \/ xs = {}
         \/ c[1] # p
         \/ /\ \A x \in xs : x.slot = c[2]
            /\ job[c].at = "roommgr" \/ job[c].op \in {"StartBattle", "GetRoomInfo"}
  PROVE  QuietFor(p)
<1>1. /\ \A x \in In(inbox'[p]) : x \in In(inbox[p]) \/ (p = c[1] /\ x \in xs)
      /\ \A r \in Room : \A m \in In(box'[r]) : m \in In(box[r]) \/ <<r, m>> \in ms
  BY DEF OnlyNew
<1>2. \A r \in Room : Added(p, r)' => Added(p, r)
  <2>. SUFFICES ASSUME NEW r \in Room, NEW m \in In(box'[r]), m.type = "AddPlayer", m.from = <<p, 1>>
                PROVE  m \in In(box[r])
    BY DEF Added
  <2>1. <<r, m>> \notin ms
    OBVIOUS
  <2>. QED BY <1>1, <2>1
<1>3. ASSUME NEW x \in In(inbox'[p]), x \notin In(inbox[p])
      PROVE  /\ job[<<p, x.slot>>].op \notin LeaveCalls
             /\ job[<<p, x.slot>>].op = "EnterRoom" => job[<<p, x.slot>>].at # "room"
  <2>1. p = c[1] /\ x \in xs
    BY <1>1, <1>3
  <2>2. x.slot = c[2] /\ (job[c].at = "roommgr" \/ job[c].op \in {"StartBattle", "GetRoomInfo"})
    BY <2>1
  <2>3. c # NoCaller
    <3>1. NoCaller[1] = 0
      BY DEF NoCaller
    <3>. QED BY <2>1, <3>1, Callers, Parts
  <2>4. c \in Caller /\ c = <<p, x.slot>> /\ JobFits(c)
    BY <2>1, <2>2, <2>3, Callers, Parts
  <2>. QED BY <2>2, <2>4 DEF JobFits, JoinCalls, LeaveCalls
<1>. QED BY <1>2, <1>3 DEF QuietFor

\* A player whom a step leaves alone.
LEMMA Bystander ==
  ASSUME LobbyInvariant, NEW p \in Player, QuietFor(p),
         roomId'[p] = roomId[p], kicked'[p] = kicked[p], m_room'[p] = m_room[p],
         \A r \in Room : p \in m_players'[r] <=> p \in m_players[r],
         job'[<<p, 0>>] = job[<<p, 0>>], job'[<<p, 1>>] = job[<<p, 1>>]
  PROVE  PlayerFits(p)'
BY PlayerFrame

\* A step of roommgr, or of a room in which nobody comes or goes.
LEMMA ServiceStep ==
  ASSUME LobbyInvariant, CallsFit', [RoomsNext]_vars, Table', \A p \in Player : QuietFor(p),
         UNCHANGED <<m_players, roomId, m_room, job, asked, kicked>>,
         m_rooms' \in [Room -> Room \cup {0}], roomID' \in Room \cup {0}
  PROVE  LobbyInvariant'
<1>1. \A p \in Player : PlayerFits(p)'
  BY Bystander
<1>. QED BY <1>1, Types, Together

-----------------------------------------------------------------------------
(* The steps of roommgr *)

LEMMA TableKept ==
  ASSUME LobbyInvariant, CallsFit', NoNewCreation, UNCHANGED <<service, m_rooms, roomID>>,
         \A p \in Player : m_room'[p] = m_room[p] \/ m_room'[p] = 0 \/ Born(m_room'[p])
  PROVE  Table'
<1>1. mgrBox' \in Seq(MgrMsg)
  BY DEF CallsFit, QueuesOK
<1>2. HowMany(mgrBox', Creations) \in Nat
  BY <1>1, HowManyType
<1>. QED BY <1>2, Parts, Types, CreationsCounted, SameTable

LEMMA AnswersQuiet ==
  ASSUME LobbyInvariant, AnswersOnly, NEW p \in Player
  PROVE  QuietFor(p)
<1>1. PICK c \in Caller, x \in AgentMsg : job[c].at = "roommgr" /\ x.slot = c[2] /\ OnlyNew(c, {x}, {})
  BY DEF AnswersOnly
<1>. QED BY <1>1, QuietIf

LEMMA GetRoomStep ==
  ASSUME LobbyInvariant, GetRoom
  PROVE  LobbyInvariant' /\ [RoomsNext]_vars
<1>1. CallsFit' /\ AnswersOnly /\ NoNewCreation
  BY GetRoomCalls, Parts, Types
<1>2. UNCHANGED <<vars, m_room, job, asked, kicked, m_rooms, roomID>>
  BY DEF GetRoom
<1>3. UNCHANGED <<service, m_players, roomId>>
  BY <1>2 DEF vars, roomVars, playerVars
<1>4. Table'
  BY <1>1, <1>2, <1>3, TableKept
<1>. QED BY <1>1, <1>2, <1>3, <1>4, AnswersQuiet, Types, ServiceStep

LEMMA GetRoomListStep ==
  ASSUME LobbyInvariant, GetRoomList \/ NextInList
  PROVE  LobbyInvariant' /\ [RoomsNext]_vars
<1>1. /\ CallsFit' /\ NoNewCreation
      /\ \/ AnswersOnly
         \/ \E c \in Caller : \E r \in Room : \E m : m.type = "ReqRoomInfo" /\ OnlyNew(c, {}, {<<r, m>>})
  BY GetRoomListCalls, Parts
<1>2. UNCHANGED <<vars, m_room, job, asked, kicked, m_rooms, roomID>>
  BY DEF GetRoomList, NextInList, ListFrom
<1>3. UNCHANGED <<service, m_players, roomId>>
  BY <1>2 DEF vars, roomVars, playerVars
<1>4. Table'
  BY <1>1, <1>2, <1>3, TableKept
<1>5. ASSUME NEW p \in Player PROVE QuietFor(p)
  <2>1. CASE AnswersOnly
    BY <2>1, AnswersQuiet
  <2>2. ASSUME NEW c \in Caller, NEW r \in Room, NEW m, m.type = "ReqRoomInfo", OnlyNew(c, {}, {<<r, m>>})
        PROVE  QuietFor(p)
    BY <2>2, QuietIf
  <2>. QED BY <1>1, <2>1, <2>2
<1>. QED BY <1>1, <1>2, <1>3, <1>4, <1>5, Types, ServiceStep

LEMMA CreateRoomStep ==
  ASSUME LobbyInvariant, CreateRoom
  PROVE  LobbyInvariant' /\ [RoomsNext]_vars
<1>1. /\ mgrBox # <<>> /\ Head(mgrBox).type = "CreateRoom" /\ mgrBox' = Tail(mgrBox)
      /\ roomID' = roomID + 1
      /\ UNCHANGED <<vars, m_room, job, asked, kicked, m_rooms>>
  BY DEF CreateRoom, MgrTakes, MgrTook, agentVars
<1>2. UNCHANGED <<service, m_players, roomId>>
  BY <1>1 DEF vars, roomVars, playerVars
<1>3. mgrBox \in Seq(MgrMsg) /\ \A m \in In(mgrBox) : MgrMail(m)
  BY Parts DEF CallsFit, QueuesOK
<1>4. Head(mgrBox) \in Creations
  <2>1. Head(mgrBox) \in MgrMsg /\ Head(mgrBox) \in In(mgrBox)
    BY <1>1, <1>3, QueueTaken
  <2>2. MgrMail(Head(mgrBox))
    BY <1>3, <2>1
  <2>. QED BY <1>1, <2>1, <2>2 DEF MgrMail, MgrMsg, Creations
<1>5. /\ HowMany(mgrBox, Creations) \in Nat /\ HowMany(Tail(mgrBox), Creations) \in Nat
      /\ HowMany(mgrBox, Creations) = HowMany(Tail(mgrBox), Creations) + 1
  BY <1>1, <1>3, <1>4, HowManyTaken, QueueTaken
<1>6. /\ roomID \in Nat /\ Cardinality(Room) \in Nat /\ Room = 1..Cardinality(Room)
      /\ roomID + HowMany(mgrBox, Creations) <= Cardinality(Room)
  BY Types, Parts, RoomAssumption, LobbyAssumption DEF Table
<1>7. roomID + 1 \in Room /\ roomID + 1 > roomID
  BY <1>5, <1>6
<1>8. m_rooms[roomID + 1] = 0 /\ service[roomID + 1] = "unborn"
  BY <1>7, Parts DEF Table
<1>9. CallsFit' /\ \E c \in Caller : \E m : m.type = "INIT" /\ OnlyNew(c, {}, {<<roomID + 1, m>>})
  BY <1>7, <1>8, Parts, CreateRoomCalls
<1>10. ASSUME NEW p \in Player PROVE QuietFor(p)
  <2>1. PICK c \in Caller : \E m : m.type = "INIT" /\ OnlyNew(c, {}, {<<roomID + 1, m>>})
    BY <1>9
  <2>2. PICK m : m.type = "INIT" /\ OnlyNew(c, {}, {<<roomID + 1, m>>})
    BY <2>1
  <2>. QED BY <2>2, QuietIf
<1>11. Table'
  <2>1. /\ \A k \in Room : m_rooms[k] # 0 => m_rooms[k] = k /\ service[k] = "running"
        /\ \A k \in Room : k > roomID => m_rooms[k] = 0 /\ service[k] = "unborn"
        /\ \A p \in Player : m_room[p] # 0 => m_room[p] \in Room /\ service[m_room[p]] # "unborn"
    BY Parts DEF Table, Born
  <2>2. \A k \in Room : k > roomID' => k > roomID
    BY <1>1, <1>6, RoomAssumption
  <2>3. roomID' + HowMany(mgrBox', Creations) <= Cardinality(Room)
    BY <1>1, <1>5, <1>6
  <2>. QED BY <1>1, <1>2, <2>1, <2>2, <2>3 DEF Table, Born
<1>. QED BY <1>1, <1>2, <1>7, <1>9, <1>10, <1>11, Types, ServiceStep

LEMMA RoomCreatedStep ==
  ASSUME LobbyInvariant, RoomCreated
  PROVE  LobbyInvariant' /\ [RoomsNext]_vars
<1>1. CallsFit' /\ AnswersOnly /\ NoNewCreation
  BY RoomCreatedCalls, Parts, Types
<1>2. PICK r : r = Head(mgrBox).id
  OBVIOUS
<1>3. /\ UNCHANGED <<vars, m_room, job, asked, kicked, roomID>>
      /\ m_rooms' = [m_rooms EXCEPT ![roomID] = r]
      /\ mgrBox # <<>> /\ Head(mgrBox).type = "Inited"
  BY <1>2 DEF RoomCreated, MgrTakes
<1>4. UNCHANGED <<service, m_players, roomId>>
  BY <1>3 DEF vars, roomVars, playerVars
<1>5. r = roomID /\ r \in Room /\ service[r] = "running" /\ m_rooms[r] = 0
  <2>1. mgrBox \in Seq(MgrMsg) /\ \A m \in In(mgrBox) : MgrMail(m)
    BY Parts DEF CallsFit, QueuesOK
  <2>2. Head(mgrBox) \in In(mgrBox)
    BY <1>3, <2>1, QueueTaken
  <2>3. MgrMail(Head(mgrBox))
    BY <2>1, <2>2
  <2>. QED BY <1>2, <1>3, <2>3 DEF MgrMail
<1>6. Table'
  <2>1. /\ \A k \in Room : m_rooms[k] # 0 => m_rooms[k] = k /\ service[k] = "running"
        /\ \A k \in Room : k > roomID => m_rooms[k] = 0 /\ service[k] = "unborn"
        /\ \A p \in Player : m_room[p] # 0 => m_room[p] \in Room /\ service[m_room[p]] # "unborn"
        /\ roomID + HowMany(mgrBox, Creations) <= Cardinality(Room)
    BY Parts DEF Table, Born
  <2>2. \A k \in Room : k > roomID => m_rooms'[k] = 0
    BY <1>3, <1>5, <2>1, Types, RoomAssumption
  <2>3. \A k \in Room : m_rooms'[k] # 0 => m_rooms'[k] = k /\ service[k] = "running"
    BY <1>3, <1>5, <2>1, Types
  <2>4. roomID' + HowMany(mgrBox', Creations) <= Cardinality(Room)
    <3>1. mgrBox' \in Seq(MgrMsg)
      BY <1>1 DEF CallsFit, QueuesOK
    <3>2. HowMany(mgrBox', Creations) \in Nat /\ HowMany(mgrBox, Creations) \in Nat
      BY <3>1, HowManyType, CreationsCounted
    <3>3. HowMany(mgrBox', Creations) <= HowMany(mgrBox, Creations)
      BY <1>1 DEF NoNewCreation
    <3>4. roomID \in Nat /\ Cardinality(Room) \in Nat
      BY <1>5, RoomAssumption, LobbyAssumption
    <3>. QED BY <1>3, <2>1, <3>2, <3>3, <3>4
  <2>. QED BY <1>3, <1>4, <2>1, <2>2, <2>3, <2>4 DEF Table, Born
<1>7. m_rooms' \in [Room -> Room \cup {0}]
  BY <1>3, <1>5, Types
<1>. QED BY <1>1, <1>3, <1>4, <1>6, <1>7, AnswersQuiet, Types, ServiceStep

LEMMA RemoveRoomStep ==
  ASSUME LobbyInvariant, RemoveRoom
  PROVE  LobbyInvariant' /\ [RoomsNext]_vars
<1>1. CallsFit' /\ NoNewCreation /\ OnlyNew(NoCaller, {}, {})
  BY RemoveRoomCalls, Parts, Types
<1>2. \A p \in Player : QuietFor(p)
  BY <1>1, QuietIf
<1>3. PICK id, r : id = Head(mgrBox).id /\ r = m_rooms[id]
  OBVIOUS
<1>4. /\ UNCHANGED <<m_room, job, asked, kicked, roomID>>
      /\ mgrBox # <<>> /\ Head(mgrBox).type = "RemoveRoom"
      /\ \/ r = 0 /\ UNCHANGED <<vars, m_rooms>>
         \/ r # 0 /\ Destroy(r) /\ m_rooms' = [m_rooms EXCEPT ![id] = 0]
  BY <1>3 DEF RemoveRoom, MgrTakes, agentVars, Erased
<1>5. id \in Room /\ removing[id]
  <2>1. mgrBox \in Seq(MgrMsg) /\ \A m \in In(mgrBox) : MgrMail(m)
    BY Parts DEF CallsFit, QueuesOK
  <2>2. Head(mgrBox) \in In(mgrBox)
    BY <1>4, <2>1, QueueTaken
  <2>3. MgrMail(Head(mgrBox))
    BY <2>1, <2>2
  <2>. QED BY <1>3, <1>4, <2>3 DEF MgrMail
<1>6. CASE r = 0
  <2>1. UNCHANGED <<vars, m_rooms>>
    BY <1>4, <1>6
  <2>2. UNCHANGED <<service, m_players, roomId>>
    BY <2>1 DEF vars, roomVars, playerVars
  <2>3. Table'
    BY <1>1, <1>4, <2>1, <2>2, TableKept
  <2>. QED BY <1>1, <1>2, <1>4, <2>1, <2>2, <2>3, Types, ServiceStep
<1>7. CASE r # 0
  <2>1. Destroy(r) /\ m_rooms' = [m_rooms EXCEPT ![id] = 0]
    BY <1>4, <1>7
  <2>2. r = id /\ service[id] = "running"
    BY <1>3, <1>5, <1>7, Parts DEF EntriesRun
  <2>3. [RoomsNext]_vars
    <3>1. Remove(id)
      BY <1>5, <2>1, <2>2 DEF Remove
    <3>. QED BY <1>5, <3>1 DEF RoomsNext, Always
  <2>4. /\ UNCHANGED <<m_players, roomId>>
        /\ service' = [service EXCEPT ![id] = "removed"]
    BY <2>1, <2>2 DEF Destroy, playerVars
  <2>5. m_rooms' \in [Room -> Room \cup {0}]
    BY <2>1, Types
  <2>6. Table'
    <3>1. /\ \A k \in Room : m_rooms[k] # 0 => m_rooms[k] = k /\ service[k] = "running"
          /\ \A k \in Room : k > roomID => m_rooms[k] = 0 /\ service[k] = "unborn"
          /\ \A p \in Player : m_room[p] # 0 => m_room[p] \in Room /\ service[m_room[p]] # "unborn"
          /\ roomID + HowMany(mgrBox, Creations) <= Cardinality(Room)
      BY Parts DEF Table, Born
    <3>2. \A k \in Room : m_rooms'[k] # 0 => m_rooms'[k] = k /\ service'[k] = "running"
      BY <1>5, <2>1, <2>4, <3>1, Types
    <3>3. \A k \in Room : k > roomID => m_rooms'[k] = 0 /\ service'[k] = "unborn"
      BY <1>5, <2>1, <2>2, <2>4, <3>1, Types
    <3>4. \A p \in Player : m_room[p] # 0 => m_room[p] \in Room /\ service'[m_room[p]] # "unborn"
      BY <1>5, <2>4, <3>1, Types
    <3>5. roomID' + HowMany(mgrBox', Creations) <= Cardinality(Room)
      <4>1. mgrBox' \in Seq(MgrMsg)
        BY <1>1 DEF CallsFit, QueuesOK
      <4>2. HowMany(mgrBox', Creations) \in Nat /\ HowMany(mgrBox, Creations) \in Nat
        BY <4>1, HowManyType, CreationsCounted
      <4>3. HowMany(mgrBox', Creations) <= HowMany(mgrBox, Creations)
        BY <1>1 DEF NoNewCreation
      <4>4. roomID \in Nat /\ Cardinality(Room) \in Nat
        BY Types, RoomAssumption, LobbyAssumption
      <4>. QED BY <1>4, <3>1, <4>2, <4>3, <4>4
    <3>. QED BY <1>4, <3>2, <3>3, <3>4, <3>5 DEF Table, Born
  <2>. QED BY <1>1, <1>2, <1>4, <2>3, <2>4, <2>5, <2>6, Types, ServiceStep
<1>. QED BY <1>6, <1>7

-----------------------------------------------------------------------------
(* The steps of the rooms in which nobody comes or goes *)

LEMMA RoomInitStep ==
  ASSUME LobbyInvariant, NEW r \in Room, RoomInit(r)
  PROVE  LobbyInvariant' /\ [RoomsNext]_vars
<1>1. CallsFit' /\ NoNewCreation /\ \E c \in Caller : OnlyNew(c, {}, {})
  BY RoomInitCalls, Parts, Types
<1>2. \A p \in Player : QuietFor(p)
  BY <1>1, QuietIf
<1>3. /\ Create(r) /\ UNCHANGED <<m_room, job, asked, kicked, m_rooms, roomID>>
      /\ service[r] = "unborn" /\ service' = [service EXCEPT ![r] = "running"]
      /\ UNCHANGED <<m_players, roomId>>
      /\ box[r] # <<>> /\ Head(box[r]).type = "INIT"
  BY DEF RoomInit, agentVars, Create, playerVars, Takes
<1>4. [RoomsNext]_vars
  BY <1>3 DEF RoomsNext, Always
<1>5. r = roomID
  <2>1. box[r] \in Seq(RoomMsg) /\ \A m \in In(box[r]) : RoomMail(r, m)
    BY Parts DEF CallsFit, QueuesOK
  <2>2. Head(box[r]) \in In(box[r])
    BY <1>3, <2>1, QueueTaken
  <2>3. RoomMail(r, Head(box[r]))
    BY <2>1, <2>2
  <2>. QED BY <1>3, <2>3 DEF RoomMail
<1>6. Table'
  <2>1. /\ \A k \in Room : m_rooms[k] # 0 => m_rooms[k] = k /\ service[k] = "running"
        /\ \A k \in Room : k > roomID => m_rooms[k] = 0 /\ service[k] = "unborn"
        /\ \A p \in Player : m_room[p] # 0 => m_room[p] \in Room /\ service[m_room[p]] # "unborn"
        /\ roomID + HowMany(mgrBox, Creations) <= Cardinality(Room)
    BY Parts DEF Table, Born
  <2>2. \A k \in Room : k > roomID => k # r
    BY <1>5, RoomAssumption
  <2>3. \A k \in Room : service'[k] = IF k = r THEN "running" ELSE service[k]
    BY <1>3, Types
  <2>4. roomID' + HowMany(mgrBox', Creations) <= Cardinality(Room)
    <3>1. mgrBox' \in Seq(MgrMsg)
      BY <1>1 DEF CallsFit, QueuesOK
    <3>2. HowMany(mgrBox', Creations) \in Nat /\ HowMany(mgrBox, Creations) \in Nat
      BY <3>1, HowManyType, CreationsCounted
    <3>3. HowMany(mgrBox', Creations) <= HowMany(mgrBox, Creations)
      BY <1>1 DEF NoNewCreation
    <3>4. roomID \in Nat /\ Cardinality(Room) \in Nat
      BY Types, RoomAssumption, LobbyAssumption
    <3>. QED BY <1>3, <2>1, <3>2, <3>3, <3>4
  <2>. QED BY <1>3, <2>1, <2>2, <2>3, <2>4 DEF Table, Born
<1>. QED BY <1>1, <1>2, <1>3, <1>4, <1>6, Types, ServiceStep

LEMMA RoomReqRoomInfoStep ==
  ASSUME LobbyInvariant, NEW r \in Room, RoomReqRoomInfo(r)
  PROVE  LobbyInvariant' /\ [RoomsNext]_vars
<1>1. CallsFit' /\ NoNewCreation /\ \E c \in Caller : OnlyNew(c, {}, {})
  BY RoomReqRoomInfoCalls, Parts
<1>2. \A p \in Player : QuietFor(p)
  BY <1>1, QuietIf
<1>3. UNCHANGED <<vars, m_room, job, asked, kicked, m_rooms, roomID>>
  BY DEF RoomReqRoomInfo, agentVars
<1>4. UNCHANGED <<service, m_players, roomId>>
  BY <1>3 DEF vars, roomVars, playerVars
<1>5. Table'
  BY <1>1, <1>3, <1>4, TableKept
<1>. QED BY <1>1, <1>2, <1>3, <1>4, <1>5, Types, ServiceStep

\* A room that takes a message other than INIT runs, and its caller waits for it.
LEMMA RoomTakes ==
  ASSUME LobbyInvariant, NEW r \in Room, NEW type, type # "INIT", Takes(r, type)
  PROVE  /\ service[r] = "running"
         /\ box[r] # <<>> /\ Head(box[r]) \in In(box[r]) /\ Head(box[r]) \in RoomMsg
         /\ Head(box[r]).type = type
         /\ RoomMail(r, Head(box[r]))
         /\ From(r) \in Caller /\ From(r)[1] \in Player /\ JobFits(From(r))
<1>1. service[r] # "removed" /\ box[r] # <<>> /\ Head(box[r]).type = type
  BY DEF Takes
<1>2. box[r] \in Seq(RoomMsg) /\ \A m \in In(box[r]) : RoomMail(r, m)
  BY Parts DEF CallsFit, QueuesOK
<1>3. Head(box[r]) \in In(box[r]) /\ Head(box[r]) \in RoomMsg
  BY <1>1, <1>2, QueueTaken
<1>4. RoomMail(r, Head(box[r]))
  BY <1>2, <1>3
<1>5. service[r] \in {"unborn", "running", "removed"} /\ service[r] # "unborn"
  BY <1>1, <1>4, Types DEF RoomMail
<1>6. From(r) \in Caller
  BY <1>3 DEF RoomMsg, From
<1>. QED BY <1>1, <1>3, <1>4, <1>5, <1>6, Callers, Parts

LEMMA BitType == \A b \in BOOLEAN : Bit(b) \in {0, 1} /\ (Bit(b) = 1 <=> b)
BY DEF Bit

LEMMA RoomStartBattleStep ==
  ASSUME LobbyInvariant, NEW r \in Room, RoomStartBattle(r)
  PROVE  LobbyInvariant' /\ [RoomsNext]_vars
<1>1. /\ Takes(r, "StartBattle") /\ HandleStartBattle(r, From(r)[1]) /\ Took(r)
      /\ UNCHANGED <<m_room, job, asked, kicked, m_rooms, roomID, listing, mgrBox>>
      /\ Answer(From(r), Bit(CanStartBattle(r, From(r)[1])))
  BY DEF RoomStartBattle, mgrVars
<1>2. PICK val \in {0, 1} : Answer(From(r), val)
  <2>1. CanStartBattle(r, From(r)[1]) \in BOOLEAN
    BY DEF CanStartBattle
  <2>. QED BY <1>1, <2>1, BitType
<1>3. /\ service[r] = "running" /\ RoomMail(r, Head(box[r])) /\ Head(box[r]).type = "StartBattle"
      /\ From(r) \in Caller /\ From(r)[1] \in Player
  BY <1>1, RoomTakes
<1>4. UNCHANGED <<service, m_players, roomId, removing>>
  BY <1>1 DEF HandleStartBattle, StartBattle, vars, roomVars, playerVars
<1>5. [RoomsNext]_vars
  BY <1>1, <1>3 DEF RoomsNext, Start
<1>6. /\ CallsFit' /\ NoNewCreation
      /\ OnlyNew(From(r), {[slot |-> From(r)[2], val |-> val]}, {})
  BY <1>1, <1>2, <1>4, RoomAnswers, Parts
<1>7. job[From(r)].op = "StartBattle"
  BY <1>3 DEF RoomMail, From
<1>8. ASSUME NEW p \in Player PROVE QuietFor(p)
  BY <1>3, <1>6, <1>7, QuietIf
<1>9. Table'
  BY <1>1, <1>4, <1>6, TableKept
<1>. QED BY <1>1, <1>4, <1>5, <1>6, <1>8, <1>9, Types, ServiceStep

LEMMA RoomGetRoomInfoStep ==
  ASSUME LobbyInvariant, NEW r \in Room, RoomGetRoomInfo(r)
  PROVE  LobbyInvariant' /\ [RoomsNext]_vars
<1>1. /\ Takes(r, "GetRoomInfo") /\ Took(r) /\ Answer(From(r), 1)
      /\ UNCHANGED <<vars, m_room, job, asked, kicked, m_rooms, roomID, listing, mgrBox>>
  BY DEF RoomGetRoomInfo, mgrVars
<1>3. /\ RoomMail(r, Head(box[r])) /\ Head(box[r]).type = "GetRoomInfo"
      /\ From(r) \in Caller
  BY <1>1, RoomTakes
<1>4. UNCHANGED <<service, m_players, roomId, removing>>
  BY <1>1 DEF vars, roomVars, playerVars
<1>6. /\ CallsFit' /\ NoNewCreation
      /\ OnlyNew(From(r), {[slot |-> From(r)[2], val |-> 1]}, {})
  BY <1>1, <1>4, RoomAnswers, Parts
<1>7. job[From(r)].op = "GetRoomInfo"
  BY <1>3 DEF RoomMail, From
<1>8. ASSUME NEW p \in Player PROVE QuietFor(p)
  BY <1>3, <1>6, <1>7, QuietIf
<1>9. Table'
  BY <1>1, <1>4, <1>6, TableKept
<1>. QED BY <1>1, <1>4, <1>6, <1>8, <1>9, Types, ServiceStep

LEMMA RoomPlayStep ==
  ASSUME LobbyInvariant, NEW r \in Room, RoomPlay(r)
  PROVE  LobbyInvariant' /\ [RoomsNext]_vars
<1>1. /\ Took(r) /\ UNCHANGED <<m_room, job, inbox, asked, kicked, m_rooms, roomID, listing, mgrBox>>
      /\ \/ Takes(r, "SyncTank") /\ HandleSyncTank(r, From(r)[1])
         \/ Takes(r, "Fire") /\ HandleFire(r, From(r)[1])
         \/ Takes(r, "Hit") /\ HandleHit(r, From(r)[1], Head(box[r]).target)
  BY DEF RoomPlay, agentVars, mgrVars
<1>2. PICK type \in Plays : Takes(r, type)
  BY <1>1 DEF Plays
<1>3. /\ service[r] = "running" /\ box[r] # <<>> /\ Head(box[r]).type = type
      /\ RoomMail(r, Head(box[r])) /\ From(r)[1] \in Player
  BY <1>2, RoomTakes DEF Plays
<1>4. UNCHANGED <<service, m_players, roomId, removing>>
  BY <1>1 DEF HandleSyncTank, HandleFire, HandleHit, vars, roomVars, playerVars
<1>5. [RoomsNext]_vars
  <2>1. CASE Takes(r, "SyncTank") /\ HandleSyncTank(r, From(r)[1])
    BY <1>3, <2>1 DEF RoomsNext, Always, Sync
  <2>2. CASE Takes(r, "Fire") /\ HandleFire(r, From(r)[1])
    BY <1>3, <2>2 DEF RoomsNext, Always, Fire
  <2>3. CASE Takes(r, "Hit") /\ HandleHit(r, From(r)[1], Head(box[r]).target)
    <3>1. Head(box[r]).target \in Player
      BY <1>3, <2>3 DEF RoomMail, Takes
    <3>2. Hit(r, From(r)[1], Head(box[r]).target)
      BY <1>3, <2>3 DEF Hit
    <3>. QED BY <1>3, <3>1, <3>2 DEF RoomsNext
  <2>. QED BY <1>1, <2>1, <2>2, <2>3
<1>6. Stays(NoCaller)
  BY <1>1, <1>4, StaysIf
<1>7. CallsFit' /\ NoNewCreation /\ OnlyNew(NoCaller, {}, {})
  BY <1>1, <1>2, <1>3, <1>6, RoomPlayCalls, Parts
<1>8. ASSUME NEW p \in Player PROVE QuietFor(p)
  BY <1>7, QuietIf
<1>9. Table'
  BY <1>1, <1>4, <1>7, TableKept
<1>. QED BY <1>1, <1>4, <1>5, <1>7, <1>8, <1>9, Types, ServiceStep

LEMMA RoomTickStep ==
  ASSUME LobbyInvariant, NEW r \in Room, RoomTick(r)
  PROVE  LobbyInvariant' /\ [RoomsNext]_vars
<1>1. /\ Tick(r)
      /\ UNCHANGED <<m_room, job, inbox, asked, kicked, m_rooms, roomID, listing, mgrBox, box>>
  BY DEF RoomTick, agentVars, mgrVars
<1>2. UNCHANGED <<service, m_players, roomId, removing>>
  BY <1>1 DEF Tick, Update, FinishBattle
<1>3. [RoomsNext]_vars
  BY <1>1 DEF RoomsNext, Always
<1>4. Stays(NoCaller)
  BY <1>1, <1>2, StaysIf
<1>5. CallsFit' /\ NoNewCreation /\ OnlyNew(NoCaller, {}, {})
  BY <1>1, <1>4, QuietCalls, Parts
<1>6. ASSUME NEW p \in Player PROVE QuietFor(p)
  BY <1>5, QuietIf
<1>7. Table'
  BY <1>1, <1>2, <1>5, TableKept
<1>. QED BY <1>1, <1>2, <1>3, <1>5, <1>6, <1>7, Types, ServiceStep

-----------------------------------------------------------------------------
(* Joining and leaving *)

\* The player who joins is in no room, and the agent knows which room it asked.
LEMMA RoomAddPlayerStep ==
  ASSUME LobbyInvariant, NEW r \in Room, RoomAddPlayer(r)
  PROVE  LobbyInvariant' /\ [RoomsNext]_vars
<1>1. PICK p : p = From(r)[1]
  OBVIOUS
<1>2. /\ Takes(r, "AddPlayer") /\ HandleAddPlayer(r, p) /\ Took(r)
      /\ UNCHANGED <<m_room, job, asked, kicked, m_rooms, roomID, listing, mgrBox>>
      /\ Answer(From(r), Bit(CanAdd(r, p)))
  BY <1>1 DEF RoomAddPlayer, mgrVars
<1>3. PICK val \in {0, 1} : val = Bit(CanAdd(r, p)) /\ (val = 1 <=> CanAdd(r, p))
  <2>1. CanAdd(r, p) \in BOOLEAN
    BY DEF CanAdd
  <2>. QED BY <2>1, BitType
<1>4. /\ service[r] = "running" /\ Head(box[r]) \in In(box[r]) /\ Head(box[r]).type = "AddPlayer"
      /\ RoomMail(r, Head(box[r])) /\ From(r) \in Caller /\ p \in Player /\ JobFits(From(r))
  BY <1>1, <1>2, RoomTakes
<1>5. /\ From(r) = <<p, 1>> /\ job[<<p, 1>>].op \in JoinCalls
      /\ job[<<p, 1>>].at = "room" /\ job[<<p, 1>>].room = r
  <2>1. job[From(r)].op \in JoinCalls /\ job[From(r)].at = "room" /\ job[From(r)].room = r
    BY <1>4 DEF RoomMail, From
  <2>2. job[From(r)] # NoJob /\ job[From(r)].op # "Kick"
    BY <2>1 DEF NoJob, JoinCalls
  <2>3. From(r)[2] # 0
    BY <1>4, <2>2 DEF JobFits
  <2>4. From(r) = <<From(r)[1], From(r)[2]>> /\ From(r)[2] \in {0, 1}
    BY <1>4, Callers, Parts
  <2>. QED BY <1>1, <2>1, <2>3, <2>4
<1>6. /\ CallsFit' /\ NoNewCreation
      /\ OnlyNew(<<p, 1>>, {[slot |-> 1, val |-> val]}, {})
  <2>1. UNCHANGED <<service, removing>>
    BY <1>2 DEF HandleAddPlayer, AddPlayer, vars, roomVars
  <2>2. Answer(From(r), val)
    BY <1>2, <1>3
  <2>3. /\ CallsFit' /\ NoNewCreation
        /\ OnlyNew(From(r), {[slot |-> From(r)[2], val |-> val]}, {})
    BY <1>2, <2>1, <2>2, RoomAnswers, Parts
  <2>4. From(r)[2] = 1
    BY <1>5
  <2>. QED BY <1>5, <2>3, <2>4
<1>7. UNCHANGED service
  BY <1>2 DEF HandleAddPlayer, AddPlayer, vars, roomVars
<1>8. Table'
  BY <1>2, <1>6, <1>7, TableKept
<1>9. Added(p, r) /\ JoinsFromOutside(p) /\ StaysOut(p) /\ roomId[p] <= 0
  <2>1. Added(p, r)
    BY <1>4, <1>5 DEF Added, From
  <2>2. JoinsFromOutside(p) /\ StaysOut(p)
    BY <1>4, Parts DEF PlayerFits
  <2>. QED BY <2>1, <2>2 DEF JoinsFromOutside, OnItsWay
<1>10. \A s \in Room : p \notin m_players[s]
  BY <1>4, <1>9, Outside
<1>11. [RoomsNext]_vars
  BY <1>2, <1>4, <1>9 DEF RoomsNext, Always, Enter
<1>12. \/ CanAdd(r, p) /\ m_players' = [m_players EXCEPT ![r] = m_players[r] \cup {p}]
                       /\ roomId' = [roomId EXCEPT ![p] = r]
       \/ ~CanAdd(r, p) /\ UNCHANGED <<m_players, roomId>>
  BY <1>2 DEF HandleAddPlayer, AddPlayer, vars, roomVars, playerVars
<1>13. ASSUME NEW q \in Player, q # p PROVE PlayerFits(q)'
  <2>1. QuietFor(q)
    BY <1>4, <1>5, <1>6, <1>13, QuietIf
  <2>2. roomId'[q] = roomId[q] /\ \A s \in Room : q \in m_players'[s] <=> q \in m_players[s]
    BY <1>12, <1>13, Types
  <2>. QED BY <1>2, <2>1, <2>2, Bystander
<1>14. PlayerFits(p)'
  <2>1. \A s \in Room : ~Added(p, s)'
    <3>1. \A s \in Room : \A m \in In(box'[s]) : m.from # <<p, 1>> \/ m.type \in Plays
      BY <1>6 DEF OnlyNew
    <3>. QED BY <3>1 DEF Added, Plays
  <2>2. \A x \in In(inbox'[p]) : x.slot = 1 => x.val = val
    <3>1. \A x \in In(inbox'[p]) :
            (x \in In(inbox[p]) /\ <<p, x.slot>> # <<p, 1>>) \/ x \in {[slot |-> 1, val |-> val]}
      BY <1>4, <1>6 DEF OnlyNew
    <3>. QED BY <3>1
  <2>3. JoinsFromOutside(p)'
    BY <1>2, <1>5, <2>1 DEF JoinsFromOutside, OnItsWay
  <2>4. \A s \in Room : p \in m_players'[s] <=> s = r /\ val = 1
    BY <1>3, <1>10, <1>12, Types
  <2>5. /\ job'[<<p, 1>>].op \notin LeaveCalls
        /\ kicked[p] # "replaced" => job'[<<p, 0>>] = NoJob /\ m_room'[p] = r
        /\ NoJob.op \notin LeaveCalls
    BY <1>2, <1>5, <1>9 DEF JoinsFromOutside, OnItsWay, JoinCalls, LeaveCalls, NoJob
  <2>6. KnowsRoom(p)'
    <3>1. \A i \in {0, 1} : kicked[p] # "replaced" => job'[<<p, i>>].op \notin LeaveCalls
      BY <2>5
    <3>. QED BY <1>2, <2>4, <2>5, <3>1 DEF KnowsRoom
  <2>7. StaysOut(p)'
    <3>1. kicked[p] # "closed" /\ (job[<<p, 0>>] # NoJob => kicked[p] # "no")
      BY <1>5, <1>9 DEF StaysOut
    <3>. QED BY <1>2, <3>1 DEF StaysOut
  <2>8. TrueAnswers(p)'
    BY <1>2, <1>5, <2>2, <2>4 DEF TrueAnswers
  <2>. QED BY <2>3, <2>6, <2>7, <2>8 DEF PlayerFits
<1>. QED BY <1>2, <1>6, <1>8, <1>11, <1>13, <1>14, Types, Together

\* The agent asks the room that its player is in.
LEMMA RoomRemovePlayerStep ==
  ASSUME LobbyInvariant, NEW r \in Room, RoomRemovePlayer(r)
  PROVE  LobbyInvariant' /\ [RoomsNext]_vars
<1>1. PICK p, c : c = From(r) /\ p = c[1]
  OBVIOUS
<1>2. /\ Takes(r, "RemovePlayer") /\ HandleRemovePlayer(r, p) /\ Took(r)
      /\ UNCHANGED <<m_room, job, asked, kicked, m_rooms, roomID, listing>>
      /\ Answer(c, Bit(p \in m_players[r]))
      /\ IF AsksRemoval(r, p) THEN ToMgr("RemoveRoom", NoCaller, r) ELSE UNCHANGED mgrBox
  BY <1>1 DEF RoomRemovePlayer
<1>3. PICK val \in {0, 1} : val = Bit(p \in m_players[r])
  BY DEF Bit
<1>4. /\ service[r] = "running"
      /\ RoomMail(r, Head(box[r])) /\ Head(box[r]).type = "RemovePlayer"
      /\ c \in Caller /\ p \in Player /\ JobFits(c)
  BY <1>1, <1>2, RoomTakes
<1>5. job[c].op \in LeaveCalls /\ job[c].room = r /\ job[c] # NoJob
  <2>1. job[c].op \in LeaveCalls /\ job[c].room = r
    BY <1>1, <1>4 DEF RoomMail, From
  <2>. QED BY <2>1 DEF NoJob, LeaveCalls
<1>6. \/ /\ p \in m_players[r] /\ m_players' = [m_players EXCEPT ![r] = m_players[r] \ {p}]
         /\ roomId' = [roomId EXCEPT ![p] = -1]
         /\ removing' = [removing EXCEPT ![r] = removing[r] \/ LastToLeave(r, p)]
         /\ UNCHANGED service
      \/ p \notin m_players[r] /\ UNCHANGED <<m_players, roomId, removing, service>>
  BY <1>2 DEF HandleRemovePlayer, RemovePlayer, vars, roomVars, playerVars
<1>7. \A s \in Room : removing[s] => removing'[s]
  BY <1>6, Types
<1>8. mgrBox' = mgrBox \/ (ToMgr("RemoveRoom", NoCaller, r) /\ removing'[r])
  BY <1>2, <1>6, Types DEF AsksRemoval
<1>9. /\ CallsFit' /\ NoNewCreation
      /\ OnlyNew(c, {[slot |-> c[2], val |-> val]}, {})
  <2>1. Answer(From(r), val) /\ UNCHANGED <<service, job, listing, m_rooms, roomID>>
    BY <1>1, <1>2, <1>3, <1>6
  <2>2. /\ CallsFit' /\ NoNewCreation
        /\ OnlyNew(From(r), {[slot |-> From(r)[2], val |-> val]}, {})
    BY <1>2, <1>7, <1>8, <2>1, RoomAnswers, Parts
  <2>. QED BY <1>1, <2>2
<1>10. Table'
  BY <1>2, <1>6, <1>9, TableKept
<1>11. [RoomsNext]_vars
  BY <1>2, <1>4 DEF RoomsNext, Always, Leave
<1>12. ASSUME NEW q \in Player, q # p PROVE PlayerFits(q)'
  <2>1. QuietFor(q)
    BY <1>1, <1>4, <1>9, <1>12, QuietIf
  <2>2. roomId'[q] = roomId[q] /\ \A s \in Room : q \in m_players'[s] <=> q \in m_players[s]
    BY <1>6, <1>12, Types
  <2>. QED BY <1>2, <2>1, <2>2, Bystander
<1>13. PlayerFits(p)'
  <2>1. /\ JoinsFromOutside(p) /\ KnowsRoom(p) /\ StaysOut(p)
        /\ job[<<p, 0>>] \in Job /\ c \in {<<p, 0>>, <<p, 1>>}
    <3>1. c[2] \in {0, 1} /\ c = <<c[1], c[2]>> /\ <<p, 0>> \in Caller
      BY <1>4, Callers, Parts
    <3>. QED BY <1>1, <1>4, <3>1, Parts, Types DEF PlayerFits
  <2>2. \A s \in Room : Added(p, s)' => Added(p, s)
    <3>1. \A s \in Room : \A m \in In(box'[s]) : m \in In(box[s])
      BY <1>9 DEF OnlyNew
    <3>. QED BY <3>1 DEF Added
  <2>3. OnItsWay(p)' => OnItsWay(p)
    BY <1>2, <2>2 DEF OnItsWay
  <2>4. JoinsFromOutside(p)'
    <3>1. roomId[p] <= 0 => roomId'[p] <= 0
      BY <1>4, <1>6, Types
    <3>. QED BY <1>2, <2>1, <2>2, <2>3, <3>1 DEF JoinsFromOutside
  <2>5. kicked[p] # "replaced" => \A s \in Room : p \notin m_players'[s]
    <3>. SUFFICES ASSUME kicked[p] # "replaced", NEW s \in Room, p \in m_players'[s] PROVE FALSE
      OBVIOUS
    <3>1. p \in m_players[s] /\ s # r
      BY <1>6, Types
    <3>2. job[c].room = s
      BY <1>5, <2>1, <3>1 DEF KnowsRoom
    <3>. QED BY <1>5, <3>1, <3>2
  <2>6. KnowsRoom(p)'
    BY <1>2, <2>5 DEF KnowsRoom
  <2>7. StaysOut(p)'
    BY <1>2, <2>1, <2>5 DEF StaysOut
  <2>8. TrueAnswers(p)'
    <3>1. job[<<p, 1>>].op # "EnterRoom" \/ kicked[p] # "no"
      BY <1>5, <2>1 DEF StaysOut, LeaveCalls
    <3>. QED BY <1>2, <3>1 DEF TrueAnswers
  <2>. QED BY <2>4, <2>6, <2>7, <2>8 DEF PlayerFits
<1>. QED BY <1>2, <1>9, <1>10, <1>11, <1>12, <1>13, Types, Together

-----------------------------------------------------------------------------
(* The steps of the agents *)

\* A handler that joins a room is not handleKick.
LEMMA JoinsAt ==
  ASSUME LobbyInvariant, NEW c \in Caller, job[c].op \in JoinCalls
  PROVE  c = <<c[1], 1>> /\ c[1] \in Player /\ job[c] # NoJob
<1>1. job[c] # NoJob /\ job[c].op # "Kick"
  BY DEF NoJob, JoinCalls
<1>. QED BY <1>1, Callers, Parts DEF JobFits

LEMMA JoinRoomStep ==
  ASSUME LobbyInvariant, NEW p \in Player, NEW c \in Caller, JoinRoom(p, c)
  PROVE  LobbyInvariant' /\ [RoomsNext]_vars
<1>1. /\ UNCHANGED <<vars, asked, kicked, m_rooms, roomID>>
      /\ job[c].op \in JoinCalls /\ job[c].at = "roommgr" /\ c[1] = p
      /\ \A d \in Caller : d # c => job'[d] = job[d]
  <2>1. /\ UNCHANGED <<vars, asked, kicked, m_rooms, roomID>>
        /\ job[c].op \in JoinCalls /\ job[c].at = "roommgr" /\ c[1] = p
    BY DEF JoinRoom, Resumes, mgrVars, JoinCalls
  <2>2. \E j : job' = [job EXCEPT ![c] = j]
    BY DEF JoinRoom, Done
  <2>. QED BY <2>1, <2>2, Types
<1>2. UNCHANGED <<service, m_players, roomId>>
  BY <1>1 DEF vars, roomVars, playerVars
<1>3. c = <<p, 1>> /\ <<p, 0>> \in Caller /\ <<p, 0>> # c
  BY <1>1, JoinsAt, Callers, Parts
<1>4. /\ CallsFit' /\ NoNewCreation
      /\ \/ m_room' = [m_room EXCEPT ![p] = 0] /\ job'[c] = NoJob /\ OnlyNew(c, {}, {})
         \/ \E r \in Room :
              /\ Born(r) /\ m_room' = [m_room EXCEPT ![p] = r]
              /\ job'[c] = [op |-> job[c].op, at |-> "room", room |-> r]
              /\ OnlyNew(c, {}, {<<r, [type |-> "AddPlayer", from |-> c, target |-> 0]>>})
  BY Parts, JoinRoomCalls
<1>5. /\ JoinsFromOutside(p) /\ StaysOut(p) /\ OnItsWay(p) /\ roomId[p] <= 0
  <2>1. JoinsFromOutside(p) /\ StaysOut(p)
    BY Parts DEF PlayerFits
  <2>2. OnItsWay(p)
    BY <1>1, <1>3 DEF OnItsWay
  <2>. QED BY <2>1, <2>2 DEF JoinsFromOutside
<1>6. \A s \in Room : p \notin m_players[s]
  BY <1>5, Outside
<1>7. \A s \in Room : ~Added(p, s)
  <2>1. \A s \in Room : \A m \in In(box[s]) : RoomMail(s, m)
    BY Parts
  <2>. QED BY <1>1, <1>3, <2>1 DEF Added, RoomMail
<1>8. CASE m_room' = [m_room EXCEPT ![p] = 0] /\ job'[c] = NoJob /\ OnlyNew(c, {}, {})
  <2>1. Table'
    BY <1>1, <1>2, <1>4, <1>8, Types, TableKept
  <2>2. \A q \in Player : QuietFor(q)
    BY <1>8, QuietIf
  <2>3. ASSUME NEW q \in Player, q # p PROVE PlayerFits(q)'
    <3>1. job'[<<q, 0>>] = job[<<q, 0>>] /\ job'[<<q, 1>>] = job[<<q, 1>>]
      BY <1>1, <1>3, <2>3, Callers, Parts
    <3>2. m_room'[q] = m_room[q]
      BY <1>8, <2>3, Types
    <3>. QED BY <1>1, <1>2, <2>2, <3>1, <3>2, Bystander
  <2>4. PlayerFits(p)'
    <3>1. job'[<<p, 1>>].op \notin JoinCalls \cup LeaveCalls
      BY <1>3, <1>8 DEF NoJob, JoinCalls, LeaveCalls
    <3>2. job'[<<p, 0>>] = job[<<p, 0>>]
      BY <1>1, <1>3
    <3>. QED BY <1>1, <1>2, <1>6, <1>7, <2>2, <3>1, <3>2, PlayerFrame
  <2>5. m_room' \in [Player -> Room \cup {0}]
    BY <1>8, Types
  <2>. QED BY <1>1, <1>4, <2>1, <2>3, <2>4, <2>5, Types, Together
<1>9. ASSUME NEW r \in Room, Born(r), m_room' = [m_room EXCEPT ![p] = r],
             job'[c] = [op |-> job[c].op, at |-> "room", room |-> r],
             OnlyNew(c, {}, {<<r, [type |-> "AddPlayer", from |-> c, target |-> 0]>>})
      PROVE  LobbyInvariant' /\ [RoomsNext]_vars
  <2>1. Table'
    <3>1. \A q \in Player : m_room'[q] = m_room[q] \/ Born(m_room'[q])
      BY <1>9, Types
    <3>. QED BY <1>1, <1>2, <1>4, <3>1, TableKept
  <2>2. ASSUME NEW q \in Player, q # p PROVE PlayerFits(q)'
    <3>1. job'[<<q, 0>>] = job[<<q, 0>>] /\ job'[<<q, 1>>] = job[<<q, 1>>]
      BY <1>1, <1>3, <2>2, Callers, Parts
    <3>2. m_room'[q] = m_room[q]
      BY <1>9, <2>2, Types
    <3>3. QuietFor(q)
      <4>1. \A rm \in {<<r, [type |-> "AddPlayer", from |-> c, target |-> 0]>>} : rm[2].from[1] # q
        BY <1>3, <2>2
      <4>. QED BY <1>9, <4>1, QuietIf
    <3>. QED BY <1>1, <1>2, <3>1, <3>2, <3>3, Bystander
  <2>3. PlayerFits(p)'
    <3>1. \A s \in Room : Added(p, s)' => s = r
      <4>1. \A s \in Room : \A m \in In(box'[s]) :
              m \in In(box[s]) \/ <<s, m>> \in {<<r, [type |-> "AddPlayer", from |-> c, target |-> 0]>>}
        BY <1>9 DEF OnlyNew
      <4>. QED BY <1>7, <4>1 DEF Added
    <3>2. \A x \in In(inbox'[p]) : x.slot # 1
      <4>1. \A x \in In(inbox'[p]) : <<p, x.slot>> # c
        BY <1>9 DEF OnlyNew
      <4>. QED BY <1>3, <4>1
    <3>3. m_room'[p] = r /\ job'[<<p, 0>>] = job[<<p, 0>>] /\ job'[<<p, 1>>].op = job[<<p, 1>>].op
      BY <1>1, <1>3, <1>9, Types
    <3>4. JoinsFromOutside(p)'
      BY <1>1, <1>2, <1>5, <3>1, <3>3 DEF JoinsFromOutside
    <3>5. KnowsRoom(p)'
      BY <1>2, <1>6 DEF KnowsRoom
    <3>6. StaysOut(p)'
      BY <1>1, <1>2, <1>5, <3>3 DEF StaysOut
    <3>7. TrueAnswers(p)'
      BY <3>2 DEF TrueAnswers
    <3>. QED BY <3>4, <3>5, <3>6, <3>7 DEF PlayerFits
  <2>4. m_room' \in [Player -> Room \cup {0}]
    BY <1>9, Types
  <2>. QED BY <1>1, <1>4, <2>1, <2>2, <2>3, <2>4, Types, Together
<1>. QED BY <1>4, <1>8, <1>9

\* A player whose agent has the answer to LeaveRoom, or of its kick, is in no room, unless its
\* client goes on after the kick.
LEMMA FinishStep ==
  ASSUME LobbyInvariant, NEW p \in Player, NEW c \in Caller, Finish(p, c)
  PROVE  LobbyInvariant' /\ [RoomsNext]_vars
<1>1. /\ CallsFit' /\ OnlyNew(c, {}, {}) /\ NoNewCreation /\ job'[c] = NoJob
  BY Parts, FinishCalls
<1>2. /\ UNCHANGED <<vars, asked, kicked, m_rooms, roomID>> /\ c[1] = p
      /\ job' = [job EXCEPT ![c] = NoJob]
      /\ m_room' = [m_room EXCEPT ![p] = IF job[c].op \in LeaveCalls THEN 0 ELSE m_room[p]]
  BY DEF Finish, Resumes, mgrVars, Done, LeaveCalls
<1>3. UNCHANGED <<service, m_players, roomId>>
  BY <1>2 DEF vars, roomVars, playerVars
<1>4. /\ job[c] # NoJob /\ Head(inbox[p]).slot = c[2] /\ Head(inbox[p]) \in In(inbox[p])
      /\ JobFits(c) /\ c = <<p, c[2]>> /\ c[2] \in {0, 1}
  <2>1. /\ job[c] # NoJob /\ Head(inbox[p]).slot = c[2] /\ Head(inbox[p]) \in In(inbox[p])
    BY Parts, ResumesRest DEF Finish
  <2>. QED BY <1>2, <2>1, Callers, Parts
<1>5. \A d \in Caller : d # c => job'[d] = job[d]
  BY <1>2, Types
<1>6. m_room' \in [Player -> Room \cup {0}] /\ \A q \in Player : m_room'[q] = m_room[q] \/ m_room'[q] = 0
  BY <1>2, Types
<1>7. Table'
  BY <1>1, <1>2, <1>3, <1>6, TableKept
<1>8. \A q \in Player : QuietFor(q)
  BY <1>1, QuietIf
<1>9. ASSUME NEW q \in Player, q # p PROVE PlayerFits(q)'
  <2>1. job'[<<q, 0>>] = job[<<q, 0>>] /\ job'[<<q, 1>>] = job[<<q, 1>>]
    BY <1>4, <1>5, <1>9, Callers, Parts
  <2>2. m_room'[q] = m_room[q]
    BY <1>2, <1>9, Types
  <2>. QED BY <1>2, <1>3, <1>8, <2>1, <2>2, Bystander
<1>10. PlayerFits(p)'
  <2>1. JoinsFromOutside(p) /\ KnowsRoom(p) /\ <<p, 0>> \in Caller /\ <<p, 1>> \in Caller
    BY Callers, Parts DEF PlayerFits
  <2>2. ASSUME job[c].op \in LeaveCalls, kicked[p] # "replaced"
        PROVE  \A r \in Room : p \notin m_players[r]
    <3>1. job[<<p, c[2]>>].op \in LeaveCalls
      BY <1>4, <2>2
    <3>. QED BY <1>4, <2>1, <2>2, <3>1 DEF KnowsRoom
  <2>3. ASSUME job[c].op \in LeaveCalls, kicked[p] # "replaced"
        PROVE  \A r \in Room : ~Added(p, r)
    <3>. SUFFICES ASSUME NEW r \in Room, Added(p, r) PROVE FALSE
      OBVIOUS
    <3>1. job[<<p, 1>>].op \in JoinCalls
      <4>1. \A m \in In(box[r]) : RoomMail(r, m)
        BY Parts
      <4>. QED BY <4>1 DEF Added, RoomMail
    <3>2. job[<<p, 0>>] = NoJob
      BY <2>1, <2>3 DEF JoinsFromOutside, OnItsWay
    <3>3. c = <<p, 1>>
      BY <1>4, <3>2
    <3>. QED BY <2>3, <3>1, <3>3 DEF JoinCalls, LeaveCalls
  <2>4. \/ m_room'[p] = m_room[p]
        \/ kicked[p] = "replaced"
        \/ \A r \in Room : p \notin m_players[r] /\ ~Added(p, r)
    <3>1. m_room'[p] = m_room[p] \/ job[c].op \in LeaveCalls
      BY <1>2, Types
    <3>. QED BY <2>2, <2>3, <3>1
  <2>5. \/ job'[<<p, 1>>] = job[<<p, 1>>]
        \/ job'[<<p, 1>>].op \notin JoinCalls \cup LeaveCalls
    BY <1>1, <1>5, <2>1 DEF NoJob, JoinCalls, LeaveCalls
  <2>6. \/ job'[<<p, 0>>] = job[<<p, 0>>]
        \/ /\ job'[<<p, 0>>] = NoJob
           /\ kicked[p] = "closed" => \A r \in Room : p \notin m_players[r]
    <3>1. CASE c = <<p, 0>>
      <4>1. job[c].op \in LeaveCalls
        BY <1>4, <3>1 DEF JobFits, LeaveCalls
      <4>. QED BY <1>1, <2>2, <3>1, <4>1
    <3>2. CASE c # <<p, 0>>
      BY <1>5, <2>1, <3>2
    <3>. QED BY <3>1, <3>2
  <2>. QED BY <1>2, <1>3, <1>8, <2>4, <2>5, <2>6, PlayerFrame
<1>. QED BY <1>1, <1>2, <1>6, <1>7, <1>9, <1>10, Types, Together

-----------------------------------------------------------------------------
(* The messages of the clients *)

LEMMA GetsFacts ==
  ASSUME LobbyInvariant, NEW p \in Player, NEW request, Gets(p, request)
  PROVE  /\ asked' \in [Player -> 0..MaxRequests]
         /\ kicked[p] \in {"no", "replaced"}
<1>1. asked \in [Player -> 0..MaxRequests] /\ asked[p] < MaxRequests /\ asked' = [asked EXCEPT ![p] = @ + 1]
  BY Types DEF Gets
<1>2. MaxRequests \in Nat
  BY LobbyAssumption
<1>3. asked[p] + 1 \in 0..MaxRequests
  BY <1>1, <1>2
<1>. QED BY <1>1, <1>3 DEF Gets

\* The handler that takes a request is new: nothing of an earlier one is left.
LEMMA AsksFacts ==
  ASSUME LobbyInvariant, NEW p \in Player, NEW c \in Caller, NEW request, Asks(p, c, request)
  PROVE  /\ asked' \in [Player -> 0..MaxRequests]
         /\ kicked[p] \in {"no", "replaced"}
         /\ c = <<p, 1>> /\ c[2] # 0 /\ c[1] = p /\ job[c] = NoJob
         /\ \A x \in In(inbox[p]) : x.slot # 1
         /\ \A r \in Room : ~Added(p, r)
<1>1. Gets(p, request) /\ c[1] = p /\ c[2] # 0 /\ job[c] = NoJob
  BY DEF Asks
<1>2. c = <<p, 1>>
  BY <1>1, Callers, Parts
<1>3. \A x \in In(inbox[p]) : x.slot # 1
  BY <1>1, <1>2, Parts DEF AgentMail
<1>4. \A r \in Room : ~Added(p, r)
  <2>1. \A s \in Room : \A m \in In(box[s]) : RoomMail(s, m)
    BY Parts
  <2>. QED BY <1>1, <1>2, <2>1 DEF Added, RoomMail, NoJob, JoinCalls
<1>. QED BY <1>1, <1>2, <1>3, <1>4, GetsFacts

\* Other players do not notice.
LEMMA OthersFit ==
  ASSUME LobbyInvariant, NEW p \in Player, NEW c \in Caller \cup {NoCaller}, NEW ms, OnlyNew(c, {}, ms),
         \A rm \in ms : rm[2].from[1] = p \/ rm[2].type # "AddPlayer",
         UNCHANGED <<vars, m_room>>,
         \A q \in Player : q # p => kicked'[q] = kicked[q],
         \A d \in Caller : d[1] # p => job'[d] = job[d],
         NEW q \in Player, q # p
  PROVE  PlayerFits(q)'
<1>1. roomId'[q] = roomId[q] /\ \A r \in Room : q \in m_players'[r] <=> q \in m_players[r]
  BY DEF vars, roomVars, playerVars
<1>2. QuietFor(q)
  <2>1. \A rm \in ms : rm[2].type # "AddPlayer" \/ rm[2].from[1] # q
    OBVIOUS
  <2>. QED BY <2>1, QuietIf
<1>3. job'[<<q, 0>>] = job[<<q, 0>>] /\ job'[<<q, 1>>] = job[<<q, 1>>]
  <2>1. <<q, 0>> \in Caller /\ <<q, 1>> \in Caller
    BY Callers, Parts
  <2>. QED BY <2>1
<1>. QED BY <1>1, <1>2, <1>3, Bystander

\* A player who asks to join is in no room.
LEMMA JoinerFits ==
  ASSUME LobbyInvariant, NEW p \in Player, NotInRoom(p), kicked[p] \in {"no", "replaced"},
         UNCHANGED <<vars, m_room, kicked>>, job'[<<p, 0>>] = job[<<p, 0>>],
         job'[<<p, 1>>].at = "roommgr",
         NEW c \in Caller, OnlyNew(c, {}, {}), \A r \in Room : ~Added(p, r)
  PROVE  PlayerFits(p)'
<1>1. JoinsFromOutside(p) /\ StaysOut(p)
  BY Parts DEF PlayerFits
<1>2. UNCHANGED <<roomId, m_players>>
  BY DEF vars, roomVars, playerVars
<1>3. roomId[p] <= 0 /\ \A r \in Room : p \notin m_players[r]
  BY Outside DEF NotInRoom
<1>4. \A r \in Room : ~Added(p, r)'
  <2>1. QuietFor(p)
    BY QuietIf
  <2>. QED BY <2>1 DEF QuietFor
<1>5. JoinsFromOutside(p)'
  BY <1>1, <1>2, <1>3, <1>4 DEF JoinsFromOutside, StaysOut
<1>6. KnowsRoom(p)'
  BY <1>2, <1>3 DEF KnowsRoom
<1>7. StaysOut(p)'
  BY <1>1, <1>2 DEF StaysOut
<1>8. TrueAnswers(p)'
  BY DEF TrueAnswers
<1>. QED BY <1>5, <1>6, <1>7, <1>8 DEF PlayerFits

LEMMA MsgCreateRoomStep ==
  ASSUME LobbyInvariant, NEW p \in Player, NEW c \in Caller, MsgCreateRoom(p, c)
  PROVE  LobbyInvariant' /\ [RoomsNext]_vars
<1>1. /\ p \in Creators /\ RoomsLeft /\ Asks(p, c, "CreateRoom") /\ NotInRoom(p)
      /\ job' = [job EXCEPT ![c] = [op |-> "CreateRoom", at |-> "roommgr", room |-> 0]]
      /\ ToMgr("CreateRoom", c, 0)
      /\ UNCHANGED <<vars, m_room, inbox, kicked, m_rooms, roomID, listing, box>>
  BY DEF MsgCreateRoom
<1>2. /\ asked' \in [Player -> 0..MaxRequests] /\ kicked[p] \in {"no", "replaced"}
      /\ c = <<p, 1>> /\ c[2] # 0 /\ c[1] = p /\ job[c] = NoJob
      /\ \A r \in Room : ~Added(p, r)
  BY <1>1, AsksFacts
<1>3. CallsFit' /\ OnlyNew(c, {}, {})
  BY <1>1, <1>2, Parts, AsksMgrCalls
<1>4. /\ \A d \in Caller : d # c => job'[d] = job[d]
      /\ job'[c].at = "roommgr"
  BY <1>1, Types
<1>5. Table'
  <2>1. /\ \A k \in Room : m_rooms[k] # 0 => m_rooms[k] = k /\ service[k] = "running"
        /\ \A k \in Room : k > roomID => m_rooms[k] = 0 /\ service[k] = "unborn"
        /\ \A q \in Player : m_room[q] # 0 => m_room[q] \in Room /\ service[m_room[q]] # "unborn"
    BY Parts DEF Table, Born
  <2>2. roomID' + HowMany(mgrBox', Creations) <= Cardinality(Room)
    <3>1. PICK m : m = [type |-> "CreateRoom", from |-> c, id |-> 0] /\ mgrBox' = Append(mgrBox, m)
      BY <1>1 DEF ToMgr
    <3>2. m \in MgrMsg /\ mgrBox \in Seq(MgrMsg)
      BY <3>1, Parts DEF MgrMsg, CallsFit, QueuesOK
    <3>3. m \in Creations
      BY <3>1 DEF Creations
    <3>4. HowMany(mgrBox', Creations) = HowMany(mgrBox, Creations) + 1
      BY <3>1, <3>2, <3>3, HowManyAppended
    <3>5. /\ roomID \in Nat /\ Cardinality(Room) \in Nat /\ HowMany(mgrBox, Creations) \in Nat
          /\ roomID + HowMany(mgrBox, Creations) < Cardinality(Room)
      BY <1>1, Types, CreationsCounted, RoomAssumption, LobbyAssumption DEF RoomsLeft
    <3>. QED BY <1>1, <3>4, <3>5
  <2>3. UNCHANGED service
    BY <1>1 DEF vars, roomVars
  <2>. QED BY <1>1, <2>1, <2>2, <2>3 DEF Table, Born
<1>6. ASSUME NEW q \in Player, q # p PROVE PlayerFits(q)'
  BY <1>1, <1>2, <1>3, <1>4, <1>6, OthersFit
<1>7. PlayerFits(p)'
  <2>1. job'[<<p, 0>>] = job[<<p, 0>>]
    BY <1>2, <1>4, Callers, Parts
  <2>. QED BY <1>1, <1>2, <1>3, <1>4, <2>1, JoinerFits
<1>. QED BY <1>1, <1>2, <1>3, <1>5, <1>6, <1>7, Types, Together

LEMMA MsgEnterRoomStep ==
  ASSUME LobbyInvariant, NEW p \in Player, NEW c \in Caller, NEW id \in Room, MsgEnterRoom(p, c, id)
  PROVE  LobbyInvariant' /\ [RoomsNext]_vars
<1>1. /\ Asks(p, c, "EnterRoom") /\ NotInRoom(p)
      /\ job' = [job EXCEPT ![c] = [op |-> "EnterRoom", at |-> "roommgr", room |-> 0]]
      /\ ToMgr("GetRoom", c, id)
      /\ UNCHANGED <<vars, m_room, inbox, kicked, m_rooms, roomID, listing, box>>
  BY DEF MsgEnterRoom
<1>2. /\ asked' \in [Player -> 0..MaxRequests] /\ kicked[p] \in {"no", "replaced"}
      /\ c = <<p, 1>> /\ c[2] # 0 /\ c[1] = p /\ job[c] = NoJob
      /\ \A r \in Room : ~Added(p, r)
  BY <1>1, AsksFacts
<1>3. CallsFit' /\ OnlyNew(c, {}, {}) /\ NoNewCreation
  <2>1. /\ CallsFit' /\ OnlyNew(c, {}, {})
        /\ "GetRoom" # "CreateRoom" => NoNewCreation
    BY <1>1, <1>2, Parts, AsksMgrCalls
  <2>. QED BY <2>1
<1>4. /\ \A d \in Caller : d # c => job'[d] = job[d]
      /\ job'[c].at = "roommgr"
  BY <1>1, Types
<1>5. Table'
  BY <1>1, <1>3, TableKept DEF vars, roomVars
<1>6. ASSUME NEW q \in Player, q # p PROVE PlayerFits(q)'
  BY <1>1, <1>2, <1>3, <1>4, <1>6, OthersFit
<1>7. PlayerFits(p)'
  <2>1. job'[<<p, 0>>] = job[<<p, 0>>]
    BY <1>2, <1>4, Callers, Parts
  <2>. QED BY <1>1, <1>2, <1>3, <1>4, <2>1, JoinerFits
<1>. QED BY <1>1, <1>2, <1>3, <1>5, <1>6, <1>7, Types, Together

LEMMA MsgGetRoomListStep ==
  ASSUME LobbyInvariant, NEW p \in Player, NEW c \in Caller, MsgGetRoomList(p, c)
  PROVE  LobbyInvariant' /\ [RoomsNext]_vars
<1>1. /\ Asks(p, c, "GetRoomList")
      /\ job' = [job EXCEPT ![c] = [op |-> "GetRoomList", at |-> "roommgr", room |-> 0]]
      /\ ToMgr("GetRoomList", c, 0)
      /\ UNCHANGED <<vars, m_room, inbox, kicked, m_rooms, roomID, listing, box>>
  BY DEF MsgGetRoomList
<1>2. /\ asked' \in [Player -> 0..MaxRequests]
      /\ c = <<p, 1>> /\ c[2] # 0 /\ c[1] = p /\ job[c] = NoJob
  BY <1>1, AsksFacts
<1>3. CallsFit' /\ OnlyNew(c, {}, {}) /\ NoNewCreation
  <2>1. /\ CallsFit' /\ OnlyNew(c, {}, {})
        /\ "GetRoomList" # "CreateRoom" => NoNewCreation
    <3>1. PICK op, type, id : op = "GetRoomList" /\ type = "GetRoomList" /\ id = 0
      OBVIOUS
    <3>2. /\ job' = [job EXCEPT ![c] = [op |-> op, at |-> "roommgr", room |-> 0]]
          /\ ToMgr(type, c, id)
      BY <1>1, <3>1
    <3>3. CallsFit /\ UNCHANGED <<vars, inbox, m_rooms, roomID, listing, box>>
      BY <1>1, Parts
    <3>4. job[c] = NoJob /\ c[2] # 0
      BY <1>2
    <3>5. /\ CallsFit' /\ OnlyNew(c, {}, {})
          /\ type # "CreateRoom" => NoNewCreation
      <4>1. \/ op = "CreateRoom" /\ type = "CreateRoom" /\ id = 0 /\ c[1] \in Creators
            \/ op = "EnterRoom" /\ type = "GetRoom" /\ id \in Room
            \/ op = "GetRoomList" /\ type = "GetRoomList" /\ id = 0
        BY <3>1
      <4>. QED BY <3>2, <3>3, <3>4, <4>1, AsksMgrCalls
    <3>. QED BY <3>1, <3>5
  <2>. QED BY <2>1
<1>4. /\ \A d \in Caller : d # c => job'[d] = job[d]
      /\ job'[c].op = "GetRoomList"
  BY <1>1, Types
<1>5. Table'
  BY <1>1, <1>3, TableKept DEF vars, roomVars
<1>6. ASSUME NEW q \in Player, q # p PROVE PlayerFits(q)'
  BY <1>1, <1>2, <1>3, <1>4, <1>6, OthersFit
<1>7. PlayerFits(p)'
  <2>1. job'[<<p, 0>>] = job[<<p, 0>>]
    BY <1>2, <1>4, Callers, Parts
  <2>2. job'[<<p, 1>>].op \notin JoinCalls \cup LeaveCalls
    BY <1>2, <1>4 DEF JoinCalls, LeaveCalls
  <2>3. QuietFor(p)
    BY <1>3, QuietIf
  <2>4. UNCHANGED <<roomId, m_players>>
    BY <1>1 DEF vars, roomVars, playerVars
  <2>. QED BY <1>1, <2>1, <2>2, <2>3, <2>4, PlayerFrame
<1>. QED BY <1>1, <1>2, <1>3, <1>5, <1>6, <1>7, Types, Together

\* What the handlers that call the agent's room have in common.
LEMMA AsksRoomFacts ==
  ASSUME LobbyInvariant, NEW p \in Player, NEW c \in Caller,
         NEW op, NEW type, AsksRoom(p, c, op, type),
         \/ op = "LeaveRoom" /\ type = "RemovePlayer"
         \/ op \in {"StartBattle", "GetRoomInfo"} /\ type = op
  PROVE  /\ CallsFit' /\ Table' /\ UNCHANGED <<vars, m_room, inbox, kicked, mgrVars>>
         /\ asked' \in [Player -> 0..MaxRequests] /\ c = <<p, 1>>
         /\ \A x \in In(inbox[p]) : x.slot # 1
         /\ \A r \in Room : ~Added(p, r)
         /\ job'[<<p, 0>>] = job[<<p, 0>>]
         /\ job'[<<p, 1>>] = [op |-> op, at |-> "room", room |-> m_room[p]]
         /\ QuietFor(p)
         /\ \A q \in Player : q # p => PlayerFits(q)'
<1>1. PICK r : r = m_room[p]
  OBVIOUS
<1>2. /\ Asks(p, c, op) /\ r # 0
      /\ job' = [job EXCEPT ![c] = [op |-> op, at |-> "room", room |-> r]]
      /\ ToRoom(r, type, c, 0)
      /\ UNCHANGED <<vars, m_room, inbox, kicked, mgrVars>>
  BY <1>1 DEF AsksRoom
<1>3. /\ asked' \in [Player -> 0..MaxRequests]
      /\ c = <<p, 1>> /\ c[2] # 0 /\ c[1] = p /\ job[c] = NoJob
      /\ \A x \in In(inbox[p]) : x.slot # 1
      /\ \A s \in Room : ~Added(p, s)
  BY <1>2, AsksFacts
<1>4. Born(r)
  BY <1>1, <1>2, Parts DEF Table
<1>5. CallsFit' /\ OnlyNew(c, {}, {<<r, [type |-> type, from |-> c, target |-> 0]>>}) /\ NoNewCreation
  <2>1. \/ op \in {"LeaveRoom", "Kick"} /\ type = "RemovePlayer"
        \/ op \in {"StartBattle", "GetRoomInfo"} /\ type = op
    OBVIOUS
  <2>2. op = "Kick" <=> c[2] = 0
    BY <1>3
  <2>3. CallsFit /\ job[c] = NoJob
    BY <1>3, Parts
  <2>. QED BY <1>2, <1>4, <2>1, <2>2, <2>3, AsksRoomCalls
<1>6. Table'
  <2>1. UNCHANGED <<service, m_rooms, roomID>>
    BY <1>2 DEF vars, roomVars, mgrVars
  <2>. QED BY <1>2, <1>5, <2>1, TableKept
<1>7. /\ \A d \in Caller : d # c => job'[d] = job[d]
      /\ job'[c] = [op |-> op, at |-> "room", room |-> r]
  BY <1>2, Types
<1>8. type # "AddPlayer"
  OBVIOUS
<1>9. PICK m : m = [type |-> type, from |-> c, target |-> 0]
  OBVIOUS
<1>10. OnlyNew(c, {}, {<<r, m>>}) /\ m.type # "AddPlayer"
  BY <1>5, <1>8, <1>9
<1>11. QuietFor(p)
  BY <1>10, QuietIf
<1>12. ASSUME NEW q \in Player, q # p PROVE PlayerFits(q)'
  <2>1. /\ \A rm \in {<<r, m>>} : rm[2].from[1] = p \/ rm[2].type # "AddPlayer"
    BY <1>10
  <2>2. \A d \in Caller : d[1] # p => job'[d] = job[d]
    BY <1>3, <1>7
  <2>. QED BY <1>2, <1>10, <1>12, <2>1, <2>2, OthersFit
<1>13. job'[<<p, 0>>] = job[<<p, 0>>]
  BY <1>3, <1>7, Callers, Parts
<1>. QED BY <1>1, <1>2, <1>3, <1>5, <1>6, <1>7, <1>11, <1>12, <1>13

LEMMA MsgRoomStep ==
  ASSUME LobbyInvariant, NEW p \in Player, NEW c \in Caller, MsgStartBattle(p, c) \/ MsgGetRoomInfo(p, c)
  PROVE  LobbyInvariant' /\ [RoomsNext]_vars
<1>1. PICK op \in {"StartBattle", "GetRoomInfo"} : AsksRoom(p, c, op, op)
  BY DEF MsgStartBattle, MsgGetRoomInfo
<1>2. /\ CallsFit' /\ Table' /\ UNCHANGED <<vars, m_room, inbox, kicked, mgrVars>>
      /\ asked' \in [Player -> 0..MaxRequests]
      /\ job'[<<p, 0>>] = job[<<p, 0>>]
      /\ job'[<<p, 1>>] = [op |-> op, at |-> "room", room |-> m_room[p]]
      /\ QuietFor(p)
      /\ \A q \in Player : q # p => PlayerFits(q)'
  BY <1>1, AsksRoomFacts
<1>3. UNCHANGED <<roomId, m_players, m_rooms, roomID>>
  BY <1>2 DEF vars, roomVars, playerVars, mgrVars
<1>4. PlayerFits(p)'
  <2>1. job'[<<p, 1>>].op \notin JoinCalls \cup LeaveCalls
    BY <1>2 DEF JoinCalls, LeaveCalls
  <2>. QED BY <1>2, <1>3, <2>1, PlayerFrame
<1>. QED BY <1>2, <1>3, <1>4, Types, Together

LEMMA MsgLeaveRoomStep ==
  ASSUME LobbyInvariant, NEW p \in Player, NEW c \in Caller, MsgLeaveRoom(p, c)
  PROVE  LobbyInvariant' /\ [RoomsNext]_vars
<1>1. AsksRoom(p, c, "LeaveRoom", "RemovePlayer")
  BY DEF MsgLeaveRoom
<1>2. /\ CallsFit' /\ Table' /\ UNCHANGED <<vars, m_room, inbox, kicked, mgrVars>>
      /\ asked' \in [Player -> 0..MaxRequests]
      /\ \A x \in In(inbox[p]) : x.slot # 1
      /\ \A r \in Room : ~Added(p, r)
      /\ job'[<<p, 0>>] = job[<<p, 0>>]
      /\ job'[<<p, 1>>] = [op |-> "LeaveRoom", at |-> "room", room |-> m_room[p]]
      /\ QuietFor(p)
      /\ \A q \in Player : q # p => PlayerFits(q)'
  BY <1>1, AsksRoomFacts
<1>3. UNCHANGED <<roomId, m_players, m_rooms, roomID>>
  BY <1>2 DEF vars, roomVars, playerVars, mgrVars
<1>4. PlayerFits(p)'
  <2>1. KnowsRoom(p) /\ StaysOut(p)
    BY Parts DEF PlayerFits
  <2>2. JoinsFromOutside(p)'
    <3>1. \A r \in Room : ~Added(p, r)'
      BY <1>2 DEF QuietFor
    <3>. QED BY <1>2, <3>1 DEF JoinsFromOutside, OnItsWay
  <2>3. KnowsRoom(p)'
    <3>. SUFFICES ASSUME kicked[p] # "replaced", NEW r \in Room, p \in m_players[r]
                  PROVE  /\ m_room[p] = r
                         /\ \A i \in {0, 1} : job'[<<p, i>>].op \in LeaveCalls =>
                              job'[<<p, i>>].room = r /\ \A x \in In(inbox[p]) : x.slot # i
      BY <1>2, <1>3 DEF KnowsRoom
    <3>1. /\ m_room[p] = r
          /\ \A i \in {0, 1} : job[<<p, i>>].op \in LeaveCalls =>
               job[<<p, i>>].room = r /\ \A x \in In(inbox[p]) : x.slot # i
      BY <2>1 DEF KnowsRoom
    <3>. QED BY <1>2, <3>1
  <2>4. StaysOut(p)'
    BY <1>2, <1>3, <2>1 DEF StaysOut, JoinCalls
  <2>5. TrueAnswers(p)'
    BY <1>2 DEF TrueAnswers
  <2>. QED BY <2>2, <2>3, <2>4, <2>5 DEF PlayerFits
<1>. QED BY <1>2, <1>3, <1>4, Types, Together

LEMMA MsgPlayStep ==
  ASSUME LobbyInvariant, NEW p \in Player, NEW type \in Plays, NEW target \in Player \cup {0},
         MsgPlay(p, type, target)
  PROVE  LobbyInvariant' /\ [RoomsNext]_vars
<1>1. PICK r : r = m_room[p]
  OBVIOUS
<1>2. /\ Gets(p, type) /\ (target = 0 <=> type # "Hit") /\ r # 0
      /\ ToRoom(r, type, <<p, 1>>, target)
      /\ UNCHANGED <<vars, m_room, job, inbox, kicked, mgrVars>>
  BY <1>1 DEF MsgPlay
<1>3. asked' \in [Player -> 0..MaxRequests]
  BY <1>2, GetsFacts
<1>4. Born(r)
  BY <1>1, <1>2, Parts DEF Table
<1>5. PICK m : m = [type |-> type, from |-> <<p, 1>>, target |-> target]
  OBVIOUS
<1>6. CallsFit' /\ NoNewCreation /\ OnlyNew(NoCaller, {}, {<<r, m>>})
  BY <1>2, <1>4, <1>5, Parts, MsgPlayCalls
<1>7. UNCHANGED <<service, m_players, roomId, m_rooms, roomID>>
  BY <1>2 DEF vars, roomVars, playerVars, mgrVars
<1>8. Table'
  BY <1>2, <1>6, <1>7, TableKept
<1>9. ASSUME NEW q \in Player PROVE PlayerFits(q)'
  <2>1. QuietFor(q)
    <3>1. m.type # "AddPlayer"
      BY <1>5 DEF Plays
    <3>. QED BY <1>6, <3>1, QuietIf
  <2>. QED BY <1>2, <1>7, <2>1, Bystander
<1>. QED BY <1>2, <1>3, <1>6, <1>7, <1>8, <1>9, Types, Together

\* An agent that is kicked while its player is in a room asks the room to remove the player; one
\* that is not joining a room either has nothing left to do.
LEMMA HandleKickStep ==
  ASSUME LobbyInvariant, NEW p \in Player, HandleKick(p)
  PROVE  LobbyInvariant' /\ [RoomsNext]_vars
<1>1. PICK r : r = m_room[p]
  OBVIOUS
<1>2. PICK how \in Kicks \ {"no"} :
        /\ kicked' = [kicked EXCEPT ![p] = how]
        /\ how = "closed" => \A c \in Caller : c[1] = p => job[c].op \notin JoinCalls
  BY DEF HandleKick, Kicks, JoinCalls
<1>3. /\ Gets(p, "Kick") /\ \A q \in Player : kicked[q] = "no"
      /\ \/ /\ ~NotInRoom(p) /\ r # 0
            /\ job' = [job EXCEPT ![<<p, 0>>] = [op |-> "Kick", at |-> "room", room |-> r]]
            /\ ToRoom(r, "RemovePlayer", <<p, 0>>, 0)
         \/ (NotInRoom(p) \/ r = 0) /\ UNCHANGED <<job, box>>
      /\ UNCHANGED <<vars, m_room, inbox, mgrVars>>
  BY <1>1 DEF HandleKick
<1>4. /\ JoinsFromOutside(p) /\ KnowsRoom(p) /\ StaysOut(p) /\ kicked[p] = "no"
      /\ job[<<p, 0>>] = NoJob /\ <<p, 0>> \in Caller /\ <<p, 1>> \in Caller
      /\ <<p, 0>>[1] = p /\ <<p, 0>>[2] = 0
  <2>1. JoinsFromOutside(p) /\ KnowsRoom(p) /\ StaysOut(p) /\ kicked[p] = "no"
    BY <1>3, Parts DEF PlayerFits
  <2>. QED BY <2>1, Callers, Parts DEF StaysOut
<1>5. /\ asked' \in [Player -> 0..MaxRequests] /\ kicked' \in [Player -> Kicks] /\ kicked'[p] = how
      /\ \A q \in Player : q # p => kicked'[q] = kicked[q]
  BY <1>2, <1>3, GetsFacts, Types
<1>6. UNCHANGED <<service, removing, m_players, roomId, m_rooms, roomID, listing, mgrBox>>
  BY <1>3 DEF vars, roomVars, playerVars, mgrVars
<1>7. how = "closed" => job[<<p, 1>>].op \notin JoinCalls
  BY <1>2, <1>4
<1>8. CASE /\ ~NotInRoom(p) /\ r # 0
           /\ job' = [job EXCEPT ![<<p, 0>>] = [op |-> "Kick", at |-> "room", room |-> r]]
           /\ ToRoom(r, "RemovePlayer", <<p, 0>>, 0)
  <2>1. PICK m : m = [type |-> "RemovePlayer", from |-> <<p, 0>>, target |-> 0]
    OBVIOUS
  <2>2. CallsFit' /\ OnlyNew(<<p, 0>>, {}, {<<r, m>>}) /\ NoNewCreation
    <3>1. Born(r)
      BY <1>1, <1>8, Parts DEF Table
    <3>2. CallsFit /\ UNCHANGED <<vars, inbox, mgrVars>>
      BY <1>3, Parts
    <3>3. PICK c \in Caller : c = <<p, 0>> /\ c[2] = 0 /\ job[c] = NoJob
      BY <1>4
    <3>4. PICK op, type : op = "Kick" /\ type = "RemovePlayer"
      OBVIOUS
    <3>5. /\ job' = [job EXCEPT ![c] = [op |-> op, at |-> "room", room |-> r]]
          /\ ToRoom(r, type, c, 0)
      BY <1>8, <3>3, <3>4
    <3>6. CallsFit' /\ OnlyNew(c, {}, {<<r, [type |-> type, from |-> c, target |-> 0]>>}) /\ NoNewCreation
      <4>1. \/ op \in {"LeaveRoom", "Kick"} /\ type = "RemovePlayer"
            \/ op \in {"StartBattle", "GetRoomInfo"} /\ type = op
        BY <3>4
      <4>2. op = "Kick" <=> c[2] = 0
        BY <3>3, <3>4
      <4>. QED BY <3>1, <3>2, <3>3, <3>5, <4>1, <4>2, AsksRoomCalls
    <3>. QED BY <2>1, <3>3, <3>4, <3>6
  <2>3. Table'
    BY <1>3, <1>6, <2>2, TableKept
  <2>4. ASSUME NEW q \in Player, q # p PROVE PlayerFits(q)'
    <3>1. \A d \in Caller : d[1] # p => job'[d] = job[d]
      BY <1>4, <1>8, Types
    <3>2. \A rm \in {<<r, m>>} : rm[2].from[1] = p \/ rm[2].type # "AddPlayer"
      BY <2>1
    <3>. QED BY <1>3, <1>4, <1>5, <2>2, <2>4, <3>1, <3>2, OthersFit
  <2>5. PlayerFits(p)'
    <3>1. /\ job'[<<p, 1>>] = job[<<p, 1>>]
          /\ job'[<<p, 0>>] = [op |-> "Kick", at |-> "room", room |-> r]
      BY <1>4, <1>8, Types
    <3>2. ~OnItsWay(p) /\ \A s \in Room : ~Added(p, s)
      BY <1>4, <1>8 DEF JoinsFromOutside, NotInRoom, OnItsWay
    <3>3. \A s \in Room : ~Added(p, s)'
      <4>1. QuietFor(p)
        <5>1. m.type # "AddPlayer"
          BY <2>1
        <5>. QED BY <1>4, <2>2, <5>1, QuietIf
      <4>. QED BY <3>2, <4>1 DEF QuietFor
    <3>4. JoinsFromOutside(p)'
      BY <3>1, <3>2, <3>3 DEF JoinsFromOutside, OnItsWay
    <3>5. \A x \in In(inbox[p]) : x.slot # 0
      BY <1>4, Parts DEF AgentMail
    <3>6. KnowsRoom(p)'
      <4>. SUFFICES ASSUME NEW s \in Room, p \in m_players[s]
                    PROVE  /\ m_room[p] = s
                           /\ \A i \in {0, 1} : job'[<<p, i>>].op \in LeaveCalls =>
                                job'[<<p, i>>].room = s /\ \A x \in In(inbox[p]) : x.slot # i
        BY <1>3, <1>6 DEF KnowsRoom
      <4>1. /\ m_room[p] = s
            /\ \A i \in {0, 1} : job[<<p, i>>].op \in LeaveCalls =>
                 job[<<p, i>>].room = s /\ \A x \in In(inbox[p]) : x.slot # i
        BY <1>4 DEF KnowsRoom
      <4>. QED BY <1>1, <3>1, <3>5, <4>1
    <3>7. StaysOut(p)'
      <4>1. job'[<<p, 0>>] # NoJob
        BY <3>1 DEF NoJob
      <4>. QED BY <1>5, <1>7, <3>1, <4>1 DEF StaysOut
    <3>8. TrueAnswers(p)'
      BY <1>5 DEF TrueAnswers
    <3>. QED BY <3>4, <3>6, <3>7, <3>8 DEF PlayerFits
  <2>. QED BY <1>3, <1>5, <1>6, <2>2, <2>3, <2>4, <2>5, Types, Together
<1>9. CASE (NotInRoom(p) \/ r = 0) /\ UNCHANGED <<job, box>>
  <2>1. Stays(NoCaller)
    BY <1>6, <1>9, StaysIf
  <2>2. CallsFit' /\ OnlyNew(NoCaller, {}, {}) /\ NoNewCreation
    BY <1>3, <1>6, <1>9, <2>1, Parts, QuietCalls
  <2>3. Table'
    BY <1>3, <1>6, <2>2, TableKept
  <2>4. ASSUME NEW q \in Player, q # p PROVE PlayerFits(q)'
    <3>1. NoCaller \in Caller \cup {NoCaller} /\ \A rm \in {} : rm[2].from[1] = p \/ rm[2].type # "AddPlayer"
      OBVIOUS
    <3>2. \A d \in Caller : d[1] # p => job'[d] = job[d]
      BY <1>9
    <3>. QED BY <1>3, <1>5, <2>2, <2>4, <3>1, <3>2, OthersFit
  <2>5. PlayerFits(p)'
    <3>1. \A s \in Room : p \notin m_players[s]
      <4>1. CASE NotInRoom(p)
        BY <4>1, Outside DEF NotInRoom
      <4>2. CASE r = 0
        <5>1. 0 \notin Room
          BY RoomAssumption
        <5>. QED BY <1>1, <1>4, <4>2, <5>1 DEF KnowsRoom
      <4>. QED BY <1>9, <4>1, <4>2
    <3>2. \A s \in Room : Added(p, s)' <=> Added(p, s)
      BY <1>9 DEF Added
    <3>3. OnItsWay(p)' <=> OnItsWay(p)
      BY <1>9, <3>2 DEF OnItsWay
    <3>4. JoinsFromOutside(p)'
      BY <1>3, <1>4, <1>6, <1>9, <3>2, <3>3 DEF JoinsFromOutside
    <3>5. KnowsRoom(p)'
      BY <1>6, <3>1 DEF KnowsRoom
    <3>6. StaysOut(p)'
      BY <1>4, <1>5, <1>6, <1>7, <1>9, <3>1 DEF StaysOut
    <3>7. TrueAnswers(p)'
      BY <1>5 DEF TrueAnswers
    <3>. QED BY <3>4, <3>5, <3>6, <3>7 DEF PlayerFits
  <2>. QED BY <1>3, <1>5, <1>6, <2>2, <2>3, <2>4, <2>5, Types, Together
<1>. QED BY <1>3, <1>8, <1>9

-----------------------------------------------------------------------------
(* The invariant *)

LEMMA LobbyBegins ==
  ASSUME OneByOne, LobbyInit
  PROVE  LobbyInvariant
<1>1. /\ Init /\ m_room = [p \in Player |-> 0] /\ job = [c \in Caller |-> NoJob]
      /\ inbox = [p \in Player |-> <<>>] /\ asked = [p \in Player |-> 0]
      /\ kicked = [p \in Player |-> "no"] /\ m_rooms = [r \in Room |-> 0] /\ roomID = 0
      /\ listing = [c \in Caller |-> 0] /\ mgrBox = <<>> /\ box = [r \in Room |-> <<>>]
  BY DEF LobbyInit
<1>2. IInv /\ TypeOK
  BY <1>1, InvInit DEF IInv
<1>3. ServicesTypeOK
  <2>1. /\ m_room \in [Player -> Room \cup {0}] /\ job \in [Caller -> Job]
        /\ kicked \in [Player -> Kicks] /\ m_rooms \in [Room -> Room \cup {0}]
        /\ roomID \in Room \cup {0} /\ listing \in [Caller -> Room \cup {0}]
    BY <1>1 DEF Job, Kicks
  <2>2. asked \in [Player -> 0..MaxRequests]
    BY <1>1, LobbyAssumption
  <2>3. inbox \in [Player -> Seq(AgentMsg)] /\ mgrBox \in Seq(MgrMsg) /\ box \in [Room -> Seq(RoomMsg)]
    BY <1>1
  <2>. QED BY <1>2, <2>1, <2>2, <2>3 DEF ServicesTypeOK
<1>4. \A c \in Caller : JobFits(c) /\ NotLost(c)
  BY <1>1 DEF JobFits, NotLost, NoJob
<1>5. /\ \A m \in In(mgrBox) : MgrMail(m)
      /\ \A p \in Player : \A x \in In(inbox[p]) : AgentMail(p, x)
      /\ \A r \in Room : \A m \in In(box[r]) : RoomMail(r, m)
  BY <1>1, EmptyQueue
<1>6. AtMostOne(mgrBox, inbox, box)
  <2>1. \A c \in Caller : c[1] \in Player
    BY Callers
  <2>2. \A T : HowMany(mgrBox, T) = 0 /\ (\A p \in Player : HowMany(inbox[p], T) = 0)
               /\ (\A r \in Room : HowMany(box[r], T) = 0)
    BY <1>1, EmptyQueue
  <2>. QED BY <2>1, <2>2 DEF AtMostOne
<1>7. Table
  <2>1. HowMany(mgrBox, Creations) = 0
    BY <1>1, EmptyQueue
  <2>2. roomID + HowMany(mgrBox, Creations) <= Cardinality(Room)
    BY <1>1, <2>1, LobbyAssumption
  <2>3. \A r \in Room : service[r] = "unborn"
    BY <1>1 DEF Init
  <2>. QED BY <1>1, <2>2, <2>3 DEF Table
<1>8. ASSUME NEW p \in Player PROVE PlayerFits(p)
  <2>1. /\ roomId[p] = 0 /\ \A r \in Room : m_players[r] = {}
    BY <1>1 DEF Init
  <2>2. /\ kicked[p] = "no" /\ In(inbox[p]) = {} /\ \A r \in Room : In(box[r]) = {}
    BY <1>1, EmptyQueue
  <2>3. job[<<p, 0>>] = NoJob /\ job[<<p, 1>>] = NoJob
    BY <1>1, Callers
  <2>4. NoJob.op \notin JoinCalls
    BY DEF NoJob, JoinCalls
  <2>5. JoinsFromOutside(p)
    BY <2>1, <2>2, <2>3 DEF JoinsFromOutside, Added
  <2>6. KnowsRoom(p) /\ StaysOut(p) /\ TrueAnswers(p)
    BY <2>1, <2>2, <2>3, <2>4 DEF KnowsRoom, StaysOut, TrueAnswers
  <2>. QED BY <2>5, <2>6 DEF PlayerFits
<1>. QED BY <1>2, <1>3, <1>4, <1>5, <1>6, <1>7, <1>8 DEF LobbyInvariant

LEMMA NothingHappens ==
  ASSUME LobbyInvariant, UNCHANGED <<vars, agentVars, mgrVars, box>>
  PROVE  LobbyInvariant' /\ [RoomsNext]_vars
<1>1. UNCHANGED <<vars, m_room, job, inbox, asked, kicked, m_rooms, roomID, listing, mgrBox, box>>
  BY DEF agentVars, mgrVars
<1>2. UNCHANGED <<service, removing, m_players, roomId>>
  BY <1>1 DEF vars, roomVars, playerVars
<1>3. Stays(NoCaller)
  BY <1>1, <1>2, StaysIf
<1>4. CallsFit' /\ OnlyNew(NoCaller, {}, {}) /\ NoNewCreation
  BY <1>1, <1>3, Parts, QuietCalls
<1>5. \A p \in Player : QuietFor(p)
  BY <1>4, QuietIf
<1>6. Table'
  BY <1>1, <1>2, <1>4, TableKept
<1>. QED BY <1>1, <1>2, <1>4, <1>5, <1>6, Types, ServiceStep

LEMMA LobbyStep ==
  ASSUME LobbyInvariant, [LobbyNext]_lobbyVars
  PROVE  LobbyInvariant' /\ [RoomsNext]_vars
<1>1. ASSUME NEW p \in Player, Client(p)
      PROVE  LobbyInvariant' /\ [RoomsNext]_vars
  BY <1>1, MsgCreateRoomStep, MsgEnterRoomStep, MsgLeaveRoomStep, MsgRoomStep, MsgGetRoomListStep,
     MsgPlayStep, HandleKickStep DEF Client
<1>2. ASSUME NEW p \in Player, Agent(p)
      PROVE  LobbyInvariant' /\ [RoomsNext]_vars
  BY <1>2, JoinRoomStep, FinishStep DEF Agent
<1>3. ASSUME RoomMgr
      PROVE  LobbyInvariant' /\ [RoomsNext]_vars
  BY <1>3, CreateRoomStep, RoomCreatedStep, RemoveRoomStep, GetRoomStep, GetRoomListStep DEF RoomMgr
<1>4. ASSUME NEW r \in Room, RoomService(r)
      PROVE  LobbyInvariant' /\ [RoomsNext]_vars
  BY <1>4, RoomInitStep, RoomAddPlayerStep, RoomRemovePlayerStep, RoomStartBattleStep,
     RoomGetRoomInfoStep, RoomReqRoomInfoStep, RoomPlayStep DEF RoomService
<1>5. UNCHANGED lobbyVars \/ ListCrashes => UNCHANGED <<vars, agentVars, mgrVars, box>>
  BY DEF lobbyVars, ListCrashes
<1>. QED BY <1>1, <1>2, <1>3, <1>4, <1>5, RoomTickStep, NothingHappens DEF LobbyNext

\* The inductive invariant of the lobby holds in every state (agent.cc:37-208, roomMgr.cc,
\* room.cc:70-160).
THEOREM LobbyInvariantHolds == LobbySpec /\ OneByOne => []LobbyInvariant
<1>1. LobbyInit /\ OneByOne => LobbyInvariant
  BY LobbyBegins
<1>2. LobbyInvariant /\ [LobbyNext]_lobbyVars => LobbyInvariant'
  BY LobbyStep
<1>. QED BY <1>1, <1>2, PTL DEF LobbySpec

\* The agents and roommgr keep to what the rooms expect of them (agent.cc:92-108, 117-143,
\* roomMgr.cc:31-40): every step of the lobby is one of the rooms, or nothing for them.
THEOREM LobbyImplementsRooms == LobbySpec /\ OneByOne => ImplementsRooms
<1>1. LobbyInit => Init
  BY DEF LobbyInit
<1>2. LobbyInvariant /\ [LobbyNext]_lobbyVars => [RoomsNext]_vars
  BY LobbyStep
<1>. QED BY <1>1, <1>2, LobbyInvariantHolds, PTL DEF LobbySpec, ImplementsRooms, RoomsSpec

-----------------------------------------------------------------------------
(* What follows for the lobby *)

\* The state keeps its types: roommgr never counts beyond the rooms, and no answer names a handler
\* or a room that is not there.
THEOREM LobbyTyped == LobbySpec /\ OneByOne => []LobbyTypeOK
<1>1. LobbyInit => down \in BOOLEAN
  BY DEF LobbyInit
<1>2. down \in BOOLEAN /\ [LobbyNext]_lobbyVars => (down \in BOOLEAN)'
  BY DEF LobbyNext, ListCrashes, lobbyVars
<1>3. LobbyInvariant /\ down \in BOOLEAN => LobbyTypeOK
  BY DEF LobbyInvariant, LobbyTypeOK
<1>. QED BY <1>1, <1>2, <1>3, LobbyInvariantHolds, PTL DEF LobbySpec

\* roommgr's table names running rooms only (roomMgr.cc:22-40).
THEOREM TableStaysLive == LobbySpec /\ OneByOne => []TableLive
<1>1. LobbyInvariant => TableLive
  <2>. SUFFICES ASSUME LobbyInvariant, NEW k \in Room, m_rooms[k] # 0
                PROVE  service[m_rooms[k]] = "running"
    BY DEF TableLive
  <2>. QED BY Parts DEF EntriesRun
<1>. QED BY <1>1, LobbyInvariantHolds, PTL

\* With one creator the service under a room id is that room's (roomMgr.cc:17-29).
THEOREM EntriesAreRight == LobbySpec /\ OneByOne => []EntriesMatch
<1>1. LobbyInvariant => EntriesMatch
  <2>. SUFFICES ASSUME LobbyInvariant, NEW k \in Room
                PROVE  m_rooms[k] \in {0, k}
    BY DEF EntriesMatch
  <2>. QED BY Parts DEF EntriesRun
<1>. QED BY <1>1, LobbyInvariantHolds, PTL

\* An agent knows the room its player is in (agent.cc:56, 104, 131, 189).
THEOREM AgentsKnowTheirRooms == LobbySpec /\ OneByOne => []AgentKnowsRoom
<1>1. LobbyInvariant => AgentKnowsRoom
  <2>. SUFFICES ASSUME LobbyInvariant, NEW r \in Room, NEW p \in m_players[r], kicked[p] # "replaced"
                PROVE  m_room[p] = r
    BY DEF AgentKnowsRoom
  <2>1. p \in Player
    BY Types
  <2>. QED BY <2>1, Parts DEF PlayerFits, KnowsRoom
<1>. QED BY <1>1, LobbyInvariantHolds, PTL

\* A player whose connection is gone does not stay in a room (agent.cc:44-61).
THEOREM KickedPlayersAreOut == LobbySpec /\ OneByOne => []KickedPlayersLeave
<1>1. LobbyInvariant => KickedPlayersLeave
  <2>. SUFFICES ASSUME LobbyInvariant, NEW p \in Player, kicked[p] = "closed", job[<<p, 0>>] = NoJob
                PROVE  \A r \in Room : p \notin m_players[r]
    BY DEF KickedPlayersLeave
  <2>. QED BY Parts DEF PlayerFits, StaysOut
<1>. QED BY <1>1, LobbyInvariantHolds, PTL

\* Battles are counted right whatever the agents send and however their players come and go.
THEOREM LobbyBattlesCounted == LobbySpec /\ OneByOne => []OneResultPerBattle
<1>1. LobbyInvariant => OneResultPerBattle
  BY DEF LobbyInvariant, IInv
<1>. QED BY <1>1, LobbyInvariantHolds, PTL

-----------------------------------------------------------------------------
(* One message per call *)

\* A room holds the message of a call, or none does.
LEMMA InRooms ==
  ASSUME CallsFit, NEW c \in Caller
  PROVE  /\ (\A r \in Room : HowMany(box[r], ToRoomFor(c)) = 0) => InBoxes(c) = 0
         /\ \A r \in Room : HowMany(box[r], ToRoomFor(c)) # 0 => InBoxes(c) = 1
<1>. DEFINE P == {ri \in UNION {{r} \X DOMAIN box[r] : r \in Room} : box[ri[1]][ri[2]] \in ToRoomFor(c)}
            Held(r) == {i \in DOMAIN box[r] : box[r][i] \in ToRoomFor(c)}
<1>1. P = UNION {{r} \X Held(r) : r \in Room}
  OBVIOUS
<1>2. \A r \in Room : IsFiniteSet(Held(r)) /\ HowMany(box[r], ToRoomFor(c)) = Cardinality(Held(r))
  <2>1. \A r \in Room : box[r] \in Seq(RoomMsg)
    BY DEF CallsFit, QueuesOK
  <2>. QED BY <2>1, PlacesFinite DEF HowMany
<1>3. ASSUME \A r \in Room : HowMany(box[r], ToRoomFor(c)) = 0
      PROVE  Cardinality(P) = 0
  <2>1. \A r \in Room : Held(r) = {}
    BY <1>2, <1>3, FS_EmptySet
  <2>2. P = {}
    BY <1>1, <2>1
  <2>. QED BY <2>2, FS_EmptySet
<1>4. ASSUME NEW r \in Room, HowMany(box[r], ToRoomFor(c)) # 0
      PROVE  Cardinality(P) = 1
  <2>1. HowMany(box[r], ToRoomFor(c)) = 1
    <3>1. /\ HowMany(mgrBox, ToMgrFor(c)) \in Nat
          /\ HowMany(inbox[c[1]], ToAgentFor(c)) \in Nat
          /\ HowMany(box[r], ToRoomFor(c)) \in Nat
      BY Counted
    <3>2. HowMany(mgrBox, ToMgrFor(c)) + HowMany(inbox[c[1]], ToAgentFor(c))
          + HowMany(box[r], ToRoomFor(c)) <= 1
      BY DEF CallsFit, AtMostOne
    <3>. QED BY <1>4, <3>1, <3>2
  <2>2. PICK i : Held(r) = {i}
    BY <1>2, <2>1, FS_Singleton
  <2>3. \A s \in Room : s # r => Held(s) = {}
    <3>1. \A s \in Room : s # r => HowMany(box[s], ToRoomFor(c)) = 0
      BY <1>4, NoneElsewhere
    <3>. QED BY <1>2, <3>1, FS_EmptySet
  <2>4. P = {<<r, i>>}
    BY <1>1, <2>2, <2>3
  <2>. QED BY <2>4, FS_Singleton
<1>. QED BY <1>3, <1>4 DEF InBoxes

\* A call has one message on its way, unless a room that was removed had it; no handler is resumed
\* by another one's answer (serviceContext.h, agent.cc:84-208, roomMgr.cc:17-66).
THEOREM CallsHaveOneMessage == LobbySpec /\ OneByOne => []OneMessagePerCall
<1>1. ASSUME LobbyInvariant, NEW c \in Caller, job[c] = NoJob
      PROVE  InFlight(c) = 0
  <2>1. CallsFit /\ OneByOne
    BY <1>1, Parts
  <2>2. Rest(c, mgrBox, inbox, box)
    BY <1>1, <2>1, RestIdle
  <2>3. /\ HowMany(mgrBox, ToMgrFor(c)) = 0
        /\ HowMany(inbox[c[1]], ToAgentFor(c)) = 0
        /\ \A r \in Room : HowMany(box[r], ToRoomFor(c)) = 0
    BY <2>1, <2>2, RestCounts
  <2>4. InFlight(c) = 0 + 0 + 0
    BY <2>1, <2>3, InRooms DEF InFlight
  <2>. QED BY <2>4
<1>2. ASSUME LobbyInvariant, NEW c \in Caller, job[c] # NoJob
      PROVE  \/ InFlight(c) = 1
             \/ InFlight(c) = 0 /\ CalledRoom(c) # 0 /\ service[CalledRoom(c)] = "removed"
  <2>1. CallsFit /\ NotLost(c)
    BY <1>2, Parts
  <2>2. PICK inMgr, inAgent, inRoom :
          /\ inMgr = HowMany(mgrBox, ToMgrFor(c)) /\ inAgent = HowMany(inbox[c[1]], ToAgentFor(c))
          /\ inRoom = InBoxes(c)
    OBVIOUS
  <2>3. InFlight(c) = inMgr + inAgent + inRoom
    BY <2>2 DEF InFlight
  <2>4. inMgr \in Nat /\ inAgent \in Nat /\ inMgr + inAgent <= 1
    BY <2>1, <2>2, Counted DEF CallsFit, AtMostOne
  <2>5. /\ (\A r \in Room : HowMany(box[r], ToRoomFor(c)) = 0) => inRoom = 0
        /\ \A r \in Room : HowMany(box[r], ToRoomFor(c)) # 0 => inRoom = 1 /\ inMgr = 0 /\ inAgent = 0
    BY <2>1, <2>2, InRooms, NoneElsewhere
  <2>6. inMgr # 0 \/ inAgent # 0 => inRoom = 0
    BY <2>5
  <2>7. CASE inMgr # 0 \/ inAgent # 0 \/ \E r \in Room : HowMany(box[r], ToRoomFor(c)) # 0
    <3>1. CASE \E r \in Room : HowMany(box[r], ToRoomFor(c)) # 0
      BY <2>3, <2>5, <3>1
    <3>2. CASE inMgr # 0 \/ inAgent # 0
      BY <2>3, <2>4, <2>6, <3>2
    <3>. QED BY <2>7, <3>1, <3>2
  <2>8. CASE inMgr = 0 /\ inAgent = 0 /\ \A r \in Room : HowMany(box[r], ToRoomFor(c)) = 0
    <3>1. InFlight(c) = 0
      BY <2>3, <2>5, <2>8
    <3>2. /\ mgrBox \in Seq(MgrMsg) /\ inbox[c[1]] \in Seq(AgentMsg) /\ \A r \in Room : box[r] \in Seq(RoomMsg)
      BY <2>1, Callers DEF CallsFit, QueuesOK
    <3>3. /\ \A m \in In(mgrBox) : m \notin ToMgrFor(c)
          /\ \A x \in In(inbox[c[1]]) : x \notin ToAgentFor(c)
          /\ \A r \in Room : \A m \in In(box[r]) : m \notin ToRoomFor(c)
      BY <2>2, <2>8, <3>2, NoneIn
    <3>4. /\ \A m \in In(mgrBox) : m.from # c
          /\ \A x \in In(inbox[c[1]]) : x.slot # c[2]
          /\ \A r \in Room : \A m \in In(box[r]) : ~(m.from = c /\ m.type \in RoomCalls)
      BY <2>1, <3>3, Counted DEF RoomCalls, Plays
    <3>. QED BY <1>2, <2>1, <3>1, <3>4 DEF NotLost
  <2>. QED BY <2>7, <2>8
<1>3. LobbyInvariant => OneMessagePerCall
  BY <1>1, <1>2 DEF OneMessagePerCall
<1>. QED BY <1>3, LobbyInvariantHolds, PTL

-----------------------------------------------------------------------------
(* True answers *)

\* A handler ends where its agent takes an answer.
LEMMA HandlersEnd ==
  ASSUME LobbyInvariant, [LobbyNext]_lobbyVars, NEW c \in Caller, job'[c] = NoJob
  PROVE  job[c] = NoJob \/ JoinRoom(c[1], c) \/ Finish(c[1], c)
<1>1. ASSUME NEW p \in Player, Client(p) PROVE job[c] = NoJob
  <2>1. \/ job' = job
        \/ \E d \in Caller : \E j : job' = [job EXCEPT ![d] = j] /\ j # NoJob
    <3>1. ASSUME NEW d \in Caller, NEW op, NEW at, NEW r,
                 job' = [job EXCEPT ![d] = [op |-> op, at |-> at, room |-> r]], op # "none"
          PROVE  \E e \in Caller : \E j : job' = [job EXCEPT ![e] = j] /\ j # NoJob
      <4>1. [op |-> op, at |-> at, room |-> r] # NoJob
        BY <3>1 DEF NoJob
      <4>. QED BY <3>1, <4>1
    <3>2. <<p, 0>> \in Caller
      BY Callers, Parts
    <3>3. ASSUME NEW d \in Caller, MsgCreateRoom(p, d) \/ (\E id \in Room : MsgEnterRoom(p, d, id)) \/ MsgGetRoomList(p, d)
          PROVE  \E e \in Caller : \E j : job' = [job EXCEPT ![e] = j] /\ j # NoJob
      <4>1. \E op \in {"CreateRoom", "EnterRoom", "GetRoomList"} :
              job' = [job EXCEPT ![d] = [op |-> op, at |-> "roommgr", room |-> 0]]
        BY <3>3 DEF MsgCreateRoom, MsgEnterRoom, MsgGetRoomList
      <4>. QED BY <3>1, <4>1
    <3>4. ASSUME NEW d \in Caller, MsgLeaveRoom(p, d) \/ MsgStartBattle(p, d) \/ MsgGetRoomInfo(p, d)
          PROVE  \E e \in Caller : \E j : job' = [job EXCEPT ![e] = j] /\ j # NoJob
      <4>1. \E op \in {"LeaveRoom", "StartBattle", "GetRoomInfo"} :
              job' = [job EXCEPT ![d] = [op |-> op, at |-> "room", room |-> m_room[p]]]
        BY <3>4 DEF MsgLeaveRoom, MsgStartBattle, MsgGetRoomInfo, AsksRoom
      <4>. QED BY <3>1, <4>1
    <3>5. ASSUME HandleKick(p), job' # job
          PROVE  \E e \in Caller : \E j : job' = [job EXCEPT ![e] = j] /\ j # NoJob
      <4>1. job' = [job EXCEPT ![<<p, 0>>] = [op |-> "Kick", at |-> "room", room |-> m_room[p]]]
        BY <3>5 DEF HandleKick
      <4>. QED BY <3>1, <3>2, <4>1
    <3>6. ASSUME NEW type, NEW target, MsgPlay(p, type, target) PROVE job' = job
      BY <3>6 DEF MsgPlay
    <3>. QED BY <1>1, <3>3, <3>4, <3>5, <3>6 DEF Client
  <2>. QED BY <2>1, Types
<1>2. ASSUME NEW p \in Player, NEW d \in Caller, JoinRoom(p, d) \/ Finish(p, d)
      PROVE  job[c] = NoJob \/ JoinRoom(c[1], c) \/ Finish(c[1], c)
  <2>1. /\ \E j : job' = [job EXCEPT ![d] = j]
        /\ d[1] = p
    BY <1>2 DEF JoinRoom, Finish, Resumes, Done
  <2>2. CASE c = d
    BY <1>2, <2>1, <2>2
  <2>3. CASE c # d
    BY <2>1, <2>3, Types
  <2>. QED BY <2>2, <2>3
<1>3. CASE UNCHANGED job
  BY <1>3
<1>4. ASSUME RoomMgr \/ \E r \in Room : RoomService(r) \/ RoomTick(r)
      PROVE  UNCHANGED job
  BY <1>4 DEF RoomMgr, CreateRoom, RoomCreated, RemoveRoom, GetRoom, GetRoomList, NextInList, ListFrom,
     RoomService, RoomInit, RoomAddPlayer, RoomRemovePlayer, RoomStartBattle, RoomGetRoomInfo,
     RoomReqRoomInfo, RoomPlay, RoomTick, agentVars
<1>5. UNCHANGED lobbyVars \/ ListCrashes => UNCHANGED job
  BY DEF lobbyVars, ListCrashes, agentVars
<1>. QED BY <1>1, <1>2, <1>3, <1>4, <1>5 DEF LobbyNext, Agent

\* A client that is told it entered a room is in it then, and one that was refused is not, although
\* the answer lay in two queues since (agent.cc:143-155, room.cc:70-100).
THEOREM AnswersAreTrue == LobbySpec /\ OneByOne => EnterAnswersAreTrue
<1>1. ASSUME LobbyInvariant, [LobbyNext]_lobbyVars, NEW c \in Caller, NEW r \in Room,
             job[c].op = "EnterRoom", job[c].room = r, job'[c] = NoJob, kicked[c[1]] = "no"
      PROVE  Head(inbox[c[1]]).val = 1 <=> c[1] \in m_players[r]
  <2>1. job[c] # NoJob /\ JobFits(c) /\ c = <<c[1], 1>> /\ c[1] \in Player
    BY <1>1, JoinsAt, Parts DEF JoinCalls
  <2>2. job[c].at # "roommgr"
    BY <1>1, <2>1, Callers, Parts DEF JobFits
  <2>3. Finish(c[1], c)
    BY <1>1, <2>1, <2>2, HandlersEnd DEF JoinRoom
  <2>4. job[c].at = "room"
    BY <1>1, <2>3 DEF Finish
  <2>5. Head(inbox[c[1]]).slot = c[2] /\ Head(inbox[c[1]]) \in In(inbox[c[1]])
    BY <1>1, <2>1, <2>3, Parts, ResumesRest DEF Finish
  <2>6. TrueAnswers(c[1])
    BY <1>1, <2>1, Parts DEF PlayerFits
  <2>7. Head(inbox[c[1]]).slot = 1 /\ job[<<c[1], 1>>].op = "EnterRoom" /\ job[<<c[1], 1>>].at = "room"
        /\ job[<<c[1], 1>>].room = r
    BY <1>1, <2>1, <2>4, <2>5
  <2>. QED BY <1>1, <2>5, <2>6, <2>7 DEF TrueAnswers
<1>2. LobbyInvariant /\ [LobbyNext]_lobbyVars =>
        [\A c \in Caller, r \in Room :
           LET p == c[1] IN
           job[c].op = "EnterRoom" /\ job[c].room = r /\ job'[c] = NoJob /\ kicked[p] = "no" =>
             (Head(inbox[p]).val = 1 <=> p \in m_players[r])]_lobbyVars
  BY <1>1
<1>. QED BY <1>2, LobbyInvariantHolds, PTL DEF LobbySpec, EnterAnswersAreTrue

\* So the players of the lobby see the game of module Match, from login to result, as those of the
\* rooms do (agent.cc:84-208, roomMgr.cc, room.cc).
THEOREM LobbyPlaysMatch == LobbySpec /\ OneByOne => ImplementsMatch
BY LobbyImplementsRooms, RoomsImplementMatch, PTL DEF ImplementsRooms
=============================================================================
