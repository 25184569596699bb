----------------------------- MODULE LobbyCalls -----------------------------
(***************************************************************************)
(* Lemmas about the calls in Lobby: what every step does to the messages   *)
(* of the calls, if clients wait for their answers and one player creates  *)
(* rooms.  LobbyProofs builds the invariant of the lobby on them.          *)
(***************************************************************************)
EXTENDS LobbyInv, RoomsProofs, QueueProofs

-----------------------------------------------------------------------------
(* Callers *)

LEMMA Callers ==
  ASSUME OneByOne
  PROVE  /\ Caller = Player \X {0, 1}
         /\ \A p \in Player : <<p, 0>> \in Caller /\ <<p, 1>> \in Caller
         /\ \A c \in Caller : c[1] \in Player /\ c[2] \in {0, 1} /\ c = <<c[1], c[2]>> /\ c # NoCaller
         /\ 0 \notin Room /\ 0 \notin Player
<1>1. 0..MaxPending = {0, 1}
  BY DEF OneByOne
<1>2. 0 \notin Room /\ 0 \notin Player
  BY RoomAssumption, PlayerAssumption
<1>. QED BY <1>1, <1>2 DEF Caller, NoCaller

\* One handler at a time creates a room.
LEMMA OneCreates ==
  ASSUME OneByOne, job \in [Caller -> Job], NEW c \in Caller, NEW d \in Caller,
         JobFits(c), JobFits(d), job[c].op = "CreateRoom", job[d].op = "CreateRoom"
  PROVE  c = d
<1>1. job[c] # NoJob /\ job[d] # NoJob
  BY DEF NoJob
<1>2. c[1] = d[1] /\ c[2] # 0 /\ d[2] # 0
  BY <1>1 DEF JobFits, OneByOne
<1>. QED BY <1>2, Callers

-----------------------------------------------------------------------------
(* The queues, while a handler's call is in none of them *)

QueuesOK(mgr, agents, rooms) ==
  /\ mgr \in Seq(MgrMsg)
  /\ agents \in [Player -> Seq(AgentMsg)]
  /\ rooms \in [Room -> Seq(RoomMsg)]

Mails ==
  /\ \A m \in In(mgrBox) : MgrMail(m)
  /\ \A p \in Player : \A x \in In(inbox[p]) : AgentMail(p, x)
  /\ \A r \in Room : \A m \in In(box[r]) : RoomMail(r, m)

\* What the invariant says of calls.
CallsFit ==
  /\ OneByOne
  /\ job \in [Caller -> Job]
  /\ listing \in [Caller -> Room \cup {0}]
  /\ QueuesOK(mgrBox, inbox, box)
  /\ AtMostOne(mgrBox, inbox, box)
  /\ Mails
  /\ \A c \in Caller : JobFits(c) /\ NotLost(c)

LEMMA InvariantCalls == LobbyInvariant => CallsFit
BY DEF LobbyInvariant, ServicesTypeOK, CallsFit, QueuesOK, Mails

\* The queues without the message of c's call.
Rest(c, mgr, agents, rooms) ==
  /\ QueuesOK(mgr, agents, rooms)
  /\ AtMostOne(mgr, agents, rooms)
  /\ In(mgr) = {m \in In(mgrBox) : m.from # c}
  /\ \A p \in Player : In(agents[p]) = {x \in In(inbox[p]) : <<p, x.slot>> # c}
  /\ \A r \in Room : In(rooms[r]) = {m \in In(box[r]) : m.from = c => m.type \in Plays}
  /\ HowMany(mgr, Creations) <= HowMany(mgrBox, Creations)

\* What is in a queue is counted.
LEMMA Counted ==
  ASSUME CallsFit, NEW c \in Caller
  PROVE  /\ HowMany(mgrBox, ToMgrFor(c)) \in Nat
         /\ HowMany(inbox[c[1]], ToAgentFor(c)) \in Nat
         /\ \A r \in Room : HowMany(box[r], ToRoomFor(c)) \in Nat
         /\ \A m \in In(mgrBox) : m.from = c <=> m \in ToMgrFor(c)
         /\ \A x \in In(inbox[c[1]]) : x.slot = c[2] <=> x \in ToAgentFor(c)
         /\ \A r \in Room : \A m \in In(box[r]) :
              (m.from = c /\ m.type \notin Plays) <=> m \in ToRoomFor(c)
<1>1. QueuesOK(mgrBox, inbox, box) /\ Mails /\ c \in Caller /\ c[1] \in Player /\ c # NoCaller
  BY Callers DEF CallsFit
<1>2. mgrBox \in Seq(MgrMsg) /\ inbox[c[1]] \in Seq(AgentMsg) /\ \A r \in Room : box[r] \in Seq(RoomMsg)
  BY <1>1 DEF QueuesOK
<1>3. /\ HowMany(mgrBox, ToMgrFor(c)) \in Nat
      /\ HowMany(inbox[c[1]], ToAgentFor(c)) \in Nat
      /\ \A r \in Room : HowMany(box[r], ToRoomFor(c)) \in Nat
  BY <1>2, HowManyType
<1>4. /\ \A m \in In(mgrBox) : m \in MgrMsg
      /\ \A x \in In(inbox[c[1]]) : x \in AgentMsg
      /\ \A r \in Room : \A m \in In(box[r]) : m \in RoomMsg
  BY <1>2 DEF In
<1>5. \A m \in In(mgrBox) : m.from = c <=> m \in ToMgrFor(c)
  <2>1. \A m \in In(mgrBox) : m.from = c => m.type # "RemoveRoom"
    BY <1>1 DEF Mails, MgrMail
  <2>. QED BY <1>4, <2>1 DEF MgrMsg, ToMgrFor
<1>6. \A x \in In(inbox[c[1]]) : x.slot = c[2] <=> x \in ToAgentFor(c)
  BY <1>4 DEF AgentMsg, ToAgentFor
<1>7. \A r \in Room : \A m \in In(box[r]) : (m.from = c /\ m.type \notin Plays) <=> m \in ToRoomFor(c)
  BY <1>4 DEF RoomMsg, ToRoomFor, RoomCalls, Plays
<1>. QED BY <1>3, <1>5, <1>6, <1>7

\* A call is in one room's queue at most.
LEMMA OneRoom ==
  ASSUME CallsFit, NEW c \in Caller, NEW r \in Room, NEW s \in Room,
         NEW m \in In(box[r]), NEW n \in In(box[s]),
         m \in ToRoomFor(c), n \in ToRoomFor(c)
  PROVE  r = s
<1>1. m.from = c /\ n.from = c /\ m.type \in RoomCalls /\ n.type \in RoomCalls
  BY DEF ToRoomFor
<1>2. RoomMail(r, m) /\ RoomMail(s, n) /\ JobFits(c)
  BY DEF CallsFit, Mails
<1>. QED BY <1>1, <1>2 DEF RoomMail, JobFits, RoomCalls, JoinCalls

LEMMA NoneIn ==
  ASSUME NEW S, NEW s \in Seq(S), NEW T
  PROVE  HowMany(s, T) = 0 <=> \A m \in In(s) : m \notin T
BY HowManyType, Zenon

\* Where there is a message of a call, there is no other one of it.
LEMMA NoneElsewhere ==
  ASSUME CallsFit, NEW c \in Caller
  PROVE  /\ HowMany(mgrBox, ToMgrFor(c)) # 0 =>
              /\ HowMany(inbox[c[1]], ToAgentFor(c)) = 0
              /\ \A r \in Room : HowMany(box[r], ToRoomFor(c)) = 0
         /\ HowMany(inbox[c[1]], ToAgentFor(c)) # 0 =>
              /\ HowMany(mgrBox, ToMgrFor(c)) = 0
              /\ \A r \in Room : HowMany(box[r], ToRoomFor(c)) = 0
         /\ \A s \in Room : HowMany(box[s], ToRoomFor(c)) # 0 =>
              /\ HowMany(mgrBox, ToMgrFor(c)) = 0
              /\ HowMany(inbox[c[1]], ToAgentFor(c)) = 0
              /\ \A r \in Room : r # s => HowMany(box[r], ToRoomFor(c)) = 0
<1>1. ASSUME NEW r \in Room, NEW s \in Room, HowMany(box[r], ToRoomFor(c)) # 0,
             HowMany(box[s], ToRoomFor(c)) # 0
      PROVE  r = s
  <2>1. box[r] \in Seq(RoomMsg) /\ box[s] \in Seq(RoomMsg)
    BY DEF CallsFit, QueuesOK
  <2>2. PICK m \in In(box[r]) : m \in ToRoomFor(c)
    BY <1>1, <2>1, NoneIn
  <2>3. PICK n \in In(box[s]) : n \in ToRoomFor(c)
    BY <1>1, <2>1, NoneIn
  <2>. QED BY <2>2, <2>3, OneRoom
<1>2. /\ HowMany(mgrBox, ToMgrFor(c)) + HowMany(inbox[c[1]], ToAgentFor(c)) <= 1
      /\ \A r \in Room :
        HowMany(mgrBox, ToMgrFor(c)) + HowMany(inbox[c[1]], ToAgentFor(c))
        + HowMany(box[r], ToRoomFor(c)) <= 1
  BY DEF CallsFit, AtMostOne
<1>3. /\ HowMany(mgrBox, ToMgrFor(c)) \in Nat /\ HowMany(inbox[c[1]], ToAgentFor(c)) \in Nat
      /\ \A r \in Room : HowMany(box[r], ToRoomFor(c)) \in Nat
  BY Counted
<1>. QED BY <1>1, <1>2, <1>3

LEMMA Counts ==
  ASSUME NEW mgr, NEW agents, NEW rooms, QueuesOK(mgr, agents, rooms), OneByOne
  PROVE  \A c \in Caller :
           /\ HowMany(mgr, ToMgrFor(c)) \in Nat
           /\ HowMany(agents[c[1]], ToAgentFor(c)) \in Nat
           /\ \A r \in Room : HowMany(rooms[r], ToRoomFor(c)) \in Nat
<1>. SUFFICES ASSUME NEW c \in Caller
     PROVE  /\ HowMany(mgr, ToMgrFor(c)) \in Nat
            /\ HowMany(agents[c[1]], ToAgentFor(c)) \in Nat
            /\ \A r \in Room : HowMany(rooms[r], ToRoomFor(c)) \in Nat
  OBVIOUS
<1>1. c[1] \in Player
  BY Callers
<1>2. mgr \in Seq(MgrMsg) /\ agents[c[1]] \in Seq(AgentMsg) /\ \A r \in Room : rooms[r] \in Seq(RoomMsg)
  BY <1>1 DEF QueuesOK
<1>. QED BY <1>2, HowManyType

\* Queue s has no more messages of any kind than queue t.
AtMost(s, t) ==
  \A T : HowMany(s, T) \in Nat /\ HowMany(t, T) \in Nat /\ HowMany(s, T) <= HowMany(t, T)

LEMMA SameNumber ==
  ASSUME NEW S, NEW s \in Seq(S)
  PROVE  AtMost(s, s)
<1>1. \A T : HowMany(s, T) \in Nat
  BY HowManyType
<1>2. \A n \in Nat : n <= n
  OBVIOUS
<1>. QED BY <1>1, <1>2, Zenon DEF AtMost

LEMMA FewerTaken ==
  ASSUME NEW S, NEW s \in Seq(S), s # <<>>
  PROVE  AtMost(Tail(s), s)
<1>1. \A T : /\ HowMany(s, T) \in Nat
            /\ HowMany(Tail(s), T) \in Nat
            /\ HowMany(s, T) = HowMany(Tail(s), T) + IF Head(s) \in T THEN 1 ELSE 0
  BY QueueTaken
<1>2. \A m, n \in Nat : n = m + 1 \/ n = m + 0 => m <= n
  OBVIOUS
<1>3. ASSUME NEW T
      PROVE  HowMany(Tail(s), T) <= HowMany(s, T)
  <2>1. HowMany(s, T) \in Nat /\ HowMany(Tail(s), T) \in Nat
    BY <1>1
  <2>2. HowMany(s, T) = HowMany(Tail(s), T) + 1 \/ HowMany(s, T) = HowMany(Tail(s), T) + 0
    BY <1>1, Zenon
  <2>. QED BY <1>2, <2>1, <2>2, Zenon
<1>. QED BY <1>1, <1>3, Zenon DEF AtMost

LEMMA Fewer ==
  ASSUME CallsFit, NEW mgr, NEW agents, NEW rooms, QueuesOK(mgr, agents, rooms),
         AtMost(mgr, mgrBox),
         \A p \in Player : AtMost(agents[p], inbox[p]),
         \A r \in Room : AtMost(rooms[r], box[r])
  PROVE  AtMostOne(mgr, agents, rooms)
<1>1. QueuesOK(mgrBox, inbox, box) /\ AtMostOne(mgrBox, inbox, box) /\ OneByOne
  BY DEF CallsFit
<1>2. \A x, y, z, u, v, w \in Nat :
        x <= u /\ y <= v /\ z <= w => (u + v + w <= 1 => x + y + z <= 1) /\ (u + v <= 1 => x + y <= 1)
  OBVIOUS
<1>. SUFFICES ASSUME NEW c \in Caller
     PROVE  /\ HowMany(mgr, ToMgrFor(c)) + HowMany(agents[c[1]], ToAgentFor(c)) <= 1
            /\ \A r \in Room :
                 HowMany(mgr, ToMgrFor(c)) + HowMany(agents[c[1]], ToAgentFor(c))
                 + HowMany(rooms[r], ToRoomFor(c)) <= 1
  BY DEF AtMostOne
<1>3. /\ HowMany(mgr, ToMgrFor(c)) \in Nat /\ HowMany(agents[c[1]], ToAgentFor(c)) \in Nat
      /\ \A r \in Room : HowMany(rooms[r], ToRoomFor(c)) \in Nat
      /\ HowMany(mgrBox, ToMgrFor(c)) \in Nat /\ HowMany(inbox[c[1]], ToAgentFor(c)) \in Nat
      /\ \A r \in Room : HowMany(box[r], ToRoomFor(c)) \in Nat
  BY <1>1, Counts
<1>4. /\ HowMany(mgrBox, ToMgrFor(c)) + HowMany(inbox[c[1]], ToAgentFor(c)) <= 1
      /\ \A r \in Room :
           HowMany(mgrBox, ToMgrFor(c)) + HowMany(inbox[c[1]], ToAgentFor(c))
           + HowMany(box[r], ToRoomFor(c)) <= 1
  BY <1>1 DEF AtMostOne
<1>5. /\ HowMany(mgr, ToMgrFor(c)) <= HowMany(mgrBox, ToMgrFor(c))
      /\ HowMany(agents[c[1]], ToAgentFor(c)) <= HowMany(inbox[c[1]], ToAgentFor(c))
      /\ \A r \in Room : HowMany(rooms[r], ToRoomFor(c)) <= HowMany(box[r], ToRoomFor(c))
  <2>1. c[1] \in Player
    BY <1>1, Callers
  <2>. QED BY <2>1, Zenon DEF AtMost
<1>. QED BY <1>2, <1>3, <1>4, <1>5

\* What Rest says of the queue that a message was taken from, and of the others.
LEMMA NotInMgr ==
  ASSUME CallsFit, NEW c \in Caller, HowMany(mgrBox, ToMgrFor(c)) = 0
  PROVE  In(mgrBox) = {m \in In(mgrBox) : m.from # c}
<1>1. mgrBox \in Seq(MgrMsg)
  BY DEF CallsFit, QueuesOK
<1>2. \A m \in In(mgrBox) : m \notin ToMgrFor(c)
  BY <1>1, NoneIn
<1>. QED BY <1>2, Counted

LEMMA NotInAgent ==
  ASSUME CallsFit, NEW c \in Caller, HowMany(inbox[c[1]], ToAgentFor(c)) = 0
  PROVE  \A p \in Player : In(inbox[p]) = {x \in In(inbox[p]) : <<p, x.slot>> # c}
<1>1. c[1] \in Player /\ c = <<c[1], c[2]>>
  BY Callers DEF CallsFit
<1>2. inbox[c[1]] \in Seq(AgentMsg)
  BY <1>1 DEF CallsFit, QueuesOK
<1>3. \A x \in In(inbox[c[1]]) : x \notin ToAgentFor(c)
  BY <1>2, NoneIn
<1>4. \A x \in In(inbox[c[1]]) : x.slot # c[2]
  BY <1>3, Counted
<1>. QED BY <1>1, <1>4

LEMMA NotInBox ==
  ASSUME CallsFit, NEW c \in Caller, NEW r \in Room, HowMany(box[r], ToRoomFor(c)) = 0
  PROVE  In(box[r]) = {m \in In(box[r]) : m.from = c => m.type \in Plays}
<1>1. box[r] \in Seq(RoomMsg)
  BY DEF CallsFit, QueuesOK
<1>2. \A m \in In(box[r]) : m \notin ToRoomFor(c)
  BY <1>1, NoneIn
<1>. QED BY <1>2, Counted

\* A handler that waits for nothing has no messages.
LEMMA RestIdle ==
  ASSUME CallsFit, NEW c \in Caller, job[c] = NoJob
  PROVE  Rest(c, mgrBox, inbox, box)
<1>1. QueuesOK(mgrBox, inbox, box) /\ AtMostOne(mgrBox, inbox, box) /\ Mails
  BY DEF CallsFit
<1>2. In(mgrBox) = {m \in In(mgrBox) : m.from # c}
  <2>1. \A m \in In(mgrBox) : m.from = c => FALSE
    BY <1>1, Callers DEF Mails, MgrMail, NoJob, CallsFit
  <2>. QED BY <2>1
<1>3. \A p \in Player : In(inbox[p]) = {x \in In(inbox[p]) : <<p, x.slot>> # c}
  BY <1>1 DEF Mails, AgentMail
<1>4. \A r \in Room : In(box[r]) = {m \in In(box[r]) : m.from = c => m.type \in Plays}
  <2>1. \A r \in Room : In(box[r]) \subseteq RoomMsg
    BY <1>1 DEF QueuesOK, In
  <2>2. ASSUME NEW r \in Room, NEW m \in In(box[r]), m.from = c
        PROVE  m.type \in Plays
    <3>1. RoomMail(r, m) /\ m.type \in RoomCalls \cup Plays
      BY <1>1, <2>1 DEF Mails, RoomMsg
    <3>. QED BY <2>2, <3>1 DEF RoomMail, RoomCalls, JoinCalls, LeaveCalls, NoJob
  <2>. QED BY <2>2
<1>5. HowMany(mgrBox, Creations) \in Nat
  BY <1>1, HowManyType DEF QueuesOK
<1>. QED BY <1>1, <1>2, <1>3, <1>4, <1>5 DEF Rest

\* roommgr takes the message of a call.
LEMMA RestMgr ==
  ASSUME CallsFit, NEW c \in Caller, mgrBox # <<>>, Head(mgrBox).from = c
  PROVE  Rest(c, Tail(mgrBox), inbox, box)
<1>1. /\ QueuesOK(mgrBox, inbox, box) /\ mgrBox \in Seq(MgrMsg) /\ c[1] \in Player
      /\ \A r \in Room : box[r] \in Seq(RoomMsg)
      /\ \A p \in Player : inbox[p] \in Seq(AgentMsg)
  BY Callers DEF CallsFit, QueuesOK
<1>2. /\ Tail(mgrBox) \in Seq(MgrMsg)
      /\ In(mgrBox) = {Head(mgrBox)} \cup In(Tail(mgrBox))
      /\ \A T : /\ HowMany(mgrBox, T) \in Nat
                /\ HowMany(Tail(mgrBox), T) \in Nat
                /\ HowMany(mgrBox, T) = HowMany(Tail(mgrBox), T) + IF Head(mgrBox) \in T THEN 1 ELSE 0
  BY <1>1, QueueTaken
<1>3. Head(mgrBox) \in ToMgrFor(c)
  BY <1>2, Counted
<1>4. HowMany(mgrBox, ToMgrFor(c)) = HowMany(Tail(mgrBox), ToMgrFor(c)) + 1
  BY <1>2, <1>3
<1>5. /\ HowMany(inbox[c[1]], ToAgentFor(c)) = 0
      /\ \A r \in Room : HowMany(box[r], ToRoomFor(c)) = 0
  BY <1>2, <1>4, NoneElsewhere
<1>6. HowMany(Tail(mgrBox), ToMgrFor(c)) = 0
  BY <1>2, <1>4, <1>5 DEF CallsFit, AtMostOne
<1>7. In(Tail(mgrBox)) = {m \in In(mgrBox) : m.from # c}
  <2>1. \A m \in In(Tail(mgrBox)) : m \notin ToMgrFor(c)
    BY <1>2, <1>6, NoneIn
  <2>2. \A m \in In(Tail(mgrBox)) : m.from # c
    BY <1>2, <2>1, Counted
  <2>. QED BY <1>2, <2>2
<1>8. QueuesOK(Tail(mgrBox), inbox, box)
  BY <1>1, <1>2 DEF QueuesOK
<1>9. AtMostOne(Tail(mgrBox), inbox, box)
  <2>1. AtMost(Tail(mgrBox), mgrBox)
    BY <1>1, FewerTaken
  <2>2. \A p \in Player : AtMost(inbox[p], inbox[p])
    BY <1>1, SameNumber
  <2>3. \A r \in Room : AtMost(box[r], box[r])
    BY <1>1, SameNumber
  <2>. QED BY <1>8, <2>1, <2>2, <2>3, Fewer
<1>10. HowMany(Tail(mgrBox), Creations) <= HowMany(mgrBox, Creations)
  BY <1>2
<1>11. \A p \in Player : In(inbox[p]) = {x \in In(inbox[p]) : <<p, x.slot>> # c}
  BY <1>5, NotInAgent
<1>12. \A r \in Room : In(box[r]) = {m \in In(box[r]) : m.from = c => m.type \in Plays}
  BY <1>5, NotInBox
<1>. QED BY <1>7, <1>8, <1>9, <1>10, <1>11, <1>12 DEF Rest

\* An agent takes the answer to a call.
LEMMA RestAgent ==
  ASSUME CallsFit, NEW c \in Caller, inbox[c[1]] # <<>>, Head(inbox[c[1]]).slot = c[2]
  PROVE  Rest(c, mgrBox, [inbox EXCEPT ![c[1]] = Tail(@)], box)
<1>. DEFINE q == c[1]
            agents == [inbox EXCEPT ![q] = Tail(@)]
<1>1. /\ QueuesOK(mgrBox, inbox, box) /\ mgrBox \in Seq(MgrMsg)
      /\ q \in Player /\ c = <<q, c[2]>> /\ OneByOne
      /\ \A r \in Room : box[r] \in Seq(RoomMsg)
      /\ \A p \in Player : inbox[p] \in Seq(AgentMsg)
      /\ inbox \in [Player -> Seq(AgentMsg)]
  BY Callers DEF CallsFit, QueuesOK
<1>2. /\ Tail(inbox[q]) \in Seq(AgentMsg)
      /\ In(inbox[q]) = {Head(inbox[q])} \cup In(Tail(inbox[q]))
      /\ \A T : /\ HowMany(inbox[q], T) \in Nat
                /\ HowMany(Tail(inbox[q]), T) \in Nat
                /\ HowMany(inbox[q], T) = HowMany(Tail(inbox[q]), T) + IF Head(inbox[q]) \in T THEN 1 ELSE 0
  BY <1>1, QueueTaken
<1>3. Head(inbox[q]) \in ToAgentFor(c)
  BY <1>2, Counted
<1>4. HowMany(inbox[q], ToAgentFor(c)) = HowMany(Tail(inbox[q]), ToAgentFor(c)) + 1
  BY <1>2, <1>3
<1>5. /\ HowMany(mgrBox, ToMgrFor(c)) = 0
      /\ \A r \in Room : HowMany(box[r], ToRoomFor(c)) = 0
  BY <1>2, <1>4, NoneElsewhere
<1>6. HowMany(Tail(inbox[q]), ToAgentFor(c)) = 0
  BY <1>2, <1>4, <1>5 DEF CallsFit, AtMostOne
<1>7. agents \in [Player -> Seq(AgentMsg)] /\ agents[q] = Tail(inbox[q])
      /\ \A p \in Player : p # q => agents[p] = inbox[p]
  BY <1>1, <1>2
<1>8. In(Tail(inbox[q])) = {x \in In(inbox[q]) : x.slot # c[2]}
  <2>1. \A x \in In(Tail(inbox[q])) : x \notin ToAgentFor(c)
    BY <1>2, <1>6, NoneIn
  <2>2. \A x \in In(Tail(inbox[q])) : x.slot # c[2]
    BY <1>2, <2>1, Counted
  <2>. QED BY <1>2, <2>2
<1>9. QueuesOK(mgrBox, agents, box)
  BY <1>1, <1>7 DEF QueuesOK
<1>. HIDE DEF agents
<1>10. \A p \in Player : In(agents[p]) = {x \in In(inbox[p]) : <<p, x.slot>> # c}
  <2>1. \A p \in Player : p # q => In(agents[p]) = {x \in In(inbox[p]) : <<p, x.slot>> # c}
    BY <1>1, <1>7
  <2>2. In(agents[q]) = {x \in In(inbox[q]) : <<q, x.slot>> # c}
    BY <1>1, <1>7, <1>8
  <2>. QED BY <2>1, <2>2
<1>11. AtMostOne(mgrBox, agents, box)
  <2>1. AtMost(mgrBox, mgrBox)
    BY <1>1, SameNumber
  <2>2. \A p \in Player : AtMost(inbox[p], inbox[p])
    BY <1>1, SameNumber
  <2>3. AtMost(agents[q], inbox[q])
    BY <1>1, <1>7, FewerTaken
  <2>4. \A r \in Room : AtMost(box[r], box[r])
    BY <1>1, SameNumber
  <2>5. \A p \in Player : AtMost(agents[p], inbox[p])
    BY <1>7, <2>2, <2>3
  <2>. QED BY <1>9, <2>1, <2>4, <2>5, Fewer
<1>12. HowMany(mgrBox, Creations) \in Nat
  BY <1>1, HowManyType
<1>13. In(mgrBox) = {m \in In(mgrBox) : m.from # c}
  BY <1>5, NotInMgr
<1>14. \A r \in Room : In(box[r]) = {m \in In(box[r]) : m.from = c => m.type \in Plays}
  BY <1>5, NotInBox
<1>15. Rest(c, mgrBox, agents, box)
  BY <1>9, <1>10, <1>11, <1>12, <1>13, <1>14 DEF Rest
<1>. QED BY <1>15 DEF agents

\* A room takes the message of a call.
LEMMA RestRoom ==
  ASSUME CallsFit, NEW c \in Caller, NEW r \in Room, box[r] # <<>>, Head(box[r]).from = c,
         Head(box[r]).type \notin Plays
  PROVE  Rest(c, mgrBox, inbox, [box EXCEPT ![r] = Tail(@)])
<1>. DEFINE rooms == [box EXCEPT ![r] = Tail(@)]
<1>1. /\ QueuesOK(mgrBox, inbox, box) /\ mgrBox \in Seq(MgrMsg) /\ OneByOne
      /\ \A s \in Room : box[s] \in Seq(RoomMsg)
      /\ \A p \in Player : inbox[p] \in Seq(AgentMsg)
      /\ box \in [Room -> Seq(RoomMsg)]
  BY DEF CallsFit, QueuesOK
<1>2. /\ Tail(box[r]) \in Seq(RoomMsg)
      /\ In(box[r]) = {Head(box[r])} \cup In(Tail(box[r]))
      /\ \A T : /\ HowMany(box[r], T) \in Nat
                /\ HowMany(Tail(box[r]), T) \in Nat
                /\ HowMany(box[r], T) = HowMany(Tail(box[r]), T) + IF Head(box[r]) \in T THEN 1 ELSE 0
  BY <1>1, QueueTaken
<1>3. Head(box[r]) \in ToRoomFor(c)
  BY <1>2, Counted
<1>4. HowMany(box[r], ToRoomFor(c)) = HowMany(Tail(box[r]), ToRoomFor(c)) + 1
  BY <1>2, <1>3
<1>5. /\ HowMany(mgrBox, ToMgrFor(c)) = 0
      /\ HowMany(inbox[c[1]], ToAgentFor(c)) = 0
      /\ \A s \in Room : s # r => HowMany(box[s], ToRoomFor(c)) = 0
  BY <1>2, <1>4, NoneElsewhere
<1>6. HowMany(Tail(box[r]), ToRoomFor(c)) = 0
  BY <1>2, <1>4, <1>5 DEF CallsFit, AtMostOne
<1>7. rooms \in [Room -> Seq(RoomMsg)] /\ rooms[r] = Tail(box[r])
      /\ \A s \in Room : s # r => rooms[s] = box[s]
  BY <1>1, <1>2
<1>8. In(Tail(box[r])) = {m \in In(box[r]) : m.from = c => m.type \in Plays}
  <2>1. \A m \in In(Tail(box[r])) : m \notin ToRoomFor(c)
    BY <1>2, <1>6, NoneIn
  <2>2. \A m \in In(Tail(box[r])) : m.from = c => m.type \in Plays
    BY <1>2, <2>1, Counted
  <2>. QED BY <1>2, <2>2
<1>9. QueuesOK(mgrBox, inbox, rooms)
  BY <1>1, <1>7 DEF QueuesOK
<1>. HIDE DEF rooms
<1>10. \A s \in Room : In(rooms[s]) = {m \in In(box[s]) : m.from = c => m.type \in Plays}
  <2>1. \A s \in Room : s # r => In(box[s]) = {m \in In(box[s]) : m.from = c => m.type \in Plays}
    BY <1>5, NotInBox
  <2>. QED BY <1>7, <1>8, <2>1
<1>11. AtMostOne(mgrBox, inbox, rooms)
  <2>1. AtMost(mgrBox, mgrBox)
    BY <1>1, SameNumber
  <2>2. \A p \in Player : AtMost(inbox[p], inbox[p])
    BY <1>1, SameNumber
  <2>3. AtMost(rooms[r], box[r])
    BY <1>1, <1>7, FewerTaken
  <2>4. \A s \in Room : AtMost(box[s], box[s])
    BY <1>1, SameNumber
  <2>5. \A s \in Room : AtMost(rooms[s], box[s])
    BY <1>7, <2>3, <2>4
  <2>. QED BY <1>9, <2>1, <2>2, <2>5, Fewer
<1>12. HowMany(mgrBox, Creations) \in Nat
  BY <1>1, HowManyType
<1>13. In(mgrBox) = {m \in In(mgrBox) : m.from # c}
  BY <1>5, NotInMgr
<1>14. \A p \in Player : In(inbox[p]) = {x \in In(inbox[p]) : <<p, x.slot>> # c}
  BY <1>5, NotInAgent
<1>15. Rest(c, mgrBox, inbox, rooms)
  BY <1>9, <1>10, <1>11, <1>12, <1>13, <1>14 DEF Rest
<1>. QED BY <1>15 DEF rooms

\* Nothing of the call is left.
LEMMA RestCounts ==
  ASSUME OneByOne, NEW c \in Caller, NEW mgr, NEW agents, NEW rooms, Rest(c, mgr, agents, rooms)
  PROVE  /\ HowMany(mgr, ToMgrFor(c)) = 0
         /\ HowMany(agents[c[1]], ToAgentFor(c)) = 0
         /\ \A r \in Room : HowMany(rooms[r], ToRoomFor(c)) = 0
<1>1. c[1] \in Player /\ c = <<c[1], c[2]>>
  BY Callers
<1>2. /\ mgr \in Seq(MgrMsg) /\ agents[c[1]] \in Seq(AgentMsg)
      /\ \A r \in Room : rooms[r] \in Seq(RoomMsg)
  BY <1>1 DEF Rest, QueuesOK
<1>3. \A m \in In(mgr) : m \notin ToMgrFor(c)
  BY DEF Rest, ToMgrFor
<1>4. \A x \in In(agents[c[1]]) : x \notin ToAgentFor(c)
  BY <1>1 DEF Rest, ToAgentFor
<1>5. \A r \in Room : \A m \in In(rooms[r]) : m \notin ToRoomFor(c)
  BY DEF Rest, ToRoomFor, RoomCalls, Plays
<1>. QED BY <1>2, <1>3, <1>4, <1>5, NoneIn

\* A new message is one more of each kind it is of.
LEMMA OneMore ==
  ASSUME NEW S, NEW s \in Seq(S), NEW e \in S, NEW T
  PROVE  /\ e \notin T => HowMany(Append(s, e), T) = HowMany(s, T)
         /\ e \in T /\ HowMany(s, T) = 0 => HowMany(Append(s, e), T) = 1
         /\ HowMany(Append(s, e), T) \in Nat
<1>1. HowMany(s, T) \in Nat /\ HowMany(Append(s, e), T) = HowMany(s, T) + IF e \in T THEN 1 ELSE 0
  BY QueuePut
<1>2. \A n \in Nat : n + 0 = n /\ n + 1 \in Nat /\ (n = 0 => n + 1 = 1)
  OBVIOUS
<1>3. CASE e \in T
  <2>1. HowMany(Append(s, e), T) = HowMany(s, T) + 1
    BY <1>1, <1>3, Zenon
  <2>. QED BY <1>1, <1>2, <1>3, <2>1, Zenon
<1>4. CASE e \notin T
  <2>1. HowMany(Append(s, e), T) = HowMany(s, T) + 0
    BY <1>1, <1>4, Zenon
  <2>. QED BY <1>1, <1>2, <1>4, <2>1, Zenon
<1>. QED BY <1>3, <1>4

LEMMA PutMgr ==
  ASSUME OneByOne, NEW c \in Caller, NEW mgr, NEW agents, NEW rooms, Rest(c, mgr, agents, rooms),
         NEW m \in MgrMsg, m.from = c
  PROVE  /\ QueuesOK(Append(mgr, m), agents, rooms)
         /\ AtMostOne(Append(mgr, m), agents, rooms)
         /\ In(Append(mgr, m)) = In(mgr) \cup {m}
         /\ m.type # "CreateRoom" => HowMany(Append(mgr, m), Creations) <= HowMany(mgrBox, Creations)
<1>1. mgr \in Seq(MgrMsg) /\ QueuesOK(mgr, agents, rooms) /\ AtMostOne(mgr, agents, rooms)
  BY DEF Rest, QueuesOK
<1>2. Append(mgr, m) \in Seq(MgrMsg) /\ In(Append(mgr, m)) = In(mgr) \cup {m}
  BY <1>1, QueuePut
<1>3. QueuesOK(Append(mgr, m), agents, rooms)
  BY <1>1, <1>2 DEF QueuesOK
<1>4. \A d \in Caller : d # c => m \notin ToMgrFor(d)
  BY DEF ToMgrFor
<1>5. \A d \in Caller : d # c => HowMany(Append(mgr, m), ToMgrFor(d)) = HowMany(mgr, ToMgrFor(d))
  BY <1>1, <1>4, OneMore
<1>6. HowMany(Append(mgr, m), ToMgrFor(c)) \in {0, 1}
  BY <1>1, OneMore, RestCounts
<1>7. AtMostOne(Append(mgr, m), agents, rooms)
  <2>1. /\ HowMany(agents[c[1]], ToAgentFor(c)) = 0
        /\ \A r \in Room : HowMany(rooms[r], ToRoomFor(c)) = 0
    BY RestCounts
  <2>. QED BY <1>1, <1>5, <1>6, <2>1 DEF AtMostOne
<1>8. m.type # "CreateRoom" => HowMany(Append(mgr, m), Creations) <= HowMany(mgrBox, Creations)
  <2>1. m.type # "CreateRoom" => m \notin Creations
    BY DEF Creations
  <2>. QED BY <1>1, <2>1, OneMore DEF Rest
<1>. QED BY <1>2, <1>3, <1>7, <1>8

\* A room's own message to roommgr is nobody's call.
LEMMA PutNote ==
  ASSUME OneByOne, NEW mgr, NEW agents, NEW rooms, QueuesOK(mgr, agents, rooms),
         AtMostOne(mgr, agents, rooms), NEW m \in MgrMsg, m.type = "RemoveRoom"
  PROVE  /\ QueuesOK(Append(mgr, m), agents, rooms)
         /\ AtMostOne(Append(mgr, m), agents, rooms)
         /\ In(Append(mgr, m)) = In(mgr) \cup {m}
         /\ HowMany(Append(mgr, m), Creations) = HowMany(mgr, Creations)
<1>1. mgr \in Seq(MgrMsg)
  BY DEF QueuesOK
<1>2. Append(mgr, m) \in Seq(MgrMsg) /\ In(Append(mgr, m)) = In(mgr) \cup {m}
  BY <1>1, QueuePut
<1>3. QueuesOK(Append(mgr, m), agents, rooms)
  BY <1>1, <1>2 DEF QueuesOK
<1>4. m \notin Creations /\ \A d \in Caller : m \notin ToMgrFor(d)
  BY DEF ToMgrFor, Creations
<1>5. \A d \in Caller : HowMany(Append(mgr, m), ToMgrFor(d)) = HowMany(mgr, ToMgrFor(d))
  BY <1>1, <1>4, OneMore
<1>6. HowMany(Append(mgr, m), Creations) = HowMany(mgr, Creations)
  BY <1>1, <1>4, OneMore
<1>. QED BY <1>2, <1>3, <1>5, <1>6 DEF AtMostOne

LEMMA PutAgent ==
  ASSUME OneByOne, NEW c \in Caller, NEW mgr, NEW agents, NEW rooms, Rest(c, mgr, agents, rooms),
         NEW x \in AgentMsg, x.slot = c[2]
  PROVE  /\ QueuesOK(mgr, [agents EXCEPT ![c[1]] = Append(@, x)], rooms)
         /\ AtMostOne(mgr, [agents EXCEPT ![c[1]] = Append(@, x)], rooms)
         /\ In(Append(agents[c[1]], x)) = In(agents[c[1]]) \cup {x}
<1>. DEFINE q == c[1]
<1>. SUFFICES ASSUME NEW agents2, agents2 = [agents EXCEPT ![c[1]] = Append(@, x)]
              PROVE  /\ QueuesOK(mgr, agents2, rooms)
                     /\ AtMostOne(mgr, agents2, rooms)
                     /\ In(Append(agents[c[1]], x)) = In(agents[c[1]]) \cup {x}
  OBVIOUS
<1>0. /\ q \in Player /\ \A d \in Caller : d[1] \in Player /\ d = <<d[1], d[2]>>
  BY Callers
<1>1. /\ agents \in [Player -> Seq(AgentMsg)] /\ agents[q] \in Seq(AgentMsg)
      /\ QueuesOK(mgr, agents, rooms) /\ AtMostOne(mgr, agents, rooms)
  BY <1>0 DEF Rest, QueuesOK
<1>2. Append(agents[q], x) \in Seq(AgentMsg) /\ In(Append(agents[q], x)) = In(agents[q]) \cup {x}
  BY <1>1, QueuePut
<1>3. /\ agents2 \in [Player -> Seq(AgentMsg)] /\ agents2[q] = Append(agents[q], x)
      /\ \A p \in Player : p # q => agents2[p] = agents[p]
  BY <1>0, <1>1, <1>2
<1>4. QueuesOK(mgr, agents2, rooms)
  BY <1>1, <1>3 DEF QueuesOK
<1>5. \A d \in Caller : d # c => HowMany(agents2[d[1]], ToAgentFor(d)) = HowMany(agents[d[1]], ToAgentFor(d))
  <2>. SUFFICES ASSUME NEW d \in Caller, d # c
                PROVE  HowMany(agents2[d[1]], ToAgentFor(d)) = HowMany(agents[d[1]], ToAgentFor(d))
    OBVIOUS
  <2>1. CASE d[1] # q
    BY <1>0, <1>3, <2>1
  <2>2. CASE d[1] = q
    <3>1. d[2] # c[2]
      BY <1>0, <2>2
    <3>2. x \notin ToAgentFor(d)
      BY <3>1 DEF ToAgentFor
    <3>. QED BY <1>1, <1>3, <2>2, <3>2, OneMore
  <2>. QED BY <2>1, <2>2
<1>6. HowMany(agents2[q], ToAgentFor(c)) \in {0, 1}
  BY <1>1, <1>3, OneMore, RestCounts
<1>7. AtMostOne(mgr, agents2, rooms)
  <2>1. /\ HowMany(mgr, ToMgrFor(c)) = 0
        /\ \A r \in Room : HowMany(rooms[r], ToRoomFor(c)) = 0
    BY RestCounts
  <2>. QED BY <1>1, <1>5, <1>6, <2>1 DEF AtMostOne
<1>. QED BY <1>2, <1>4, <1>7

LEMMA PutRoom ==
  ASSUME OneByOne, NEW c \in Caller, NEW mgr, NEW agents, NEW rooms, Rest(c, mgr, agents, rooms),
         NEW m \in RoomMsg, m.from = c, NEW r \in Room
  PROVE  /\ QueuesOK(mgr, agents, [rooms EXCEPT ![r] = Append(@, m)])
         /\ AtMostOne(mgr, agents, [rooms EXCEPT ![r] = Append(@, m)])
         /\ In(Append(rooms[r], m)) = In(rooms[r]) \cup {m}
<1>. SUFFICES ASSUME NEW rooms2, rooms2 = [rooms EXCEPT ![r] = Append(@, m)]
              PROVE  /\ QueuesOK(mgr, agents, rooms2)
                     /\ AtMostOne(mgr, agents, rooms2)
                     /\ In(Append(rooms[r], m)) = In(rooms[r]) \cup {m}
  OBVIOUS
<1>1. /\ rooms \in [Room -> Seq(RoomMsg)] /\ \A s \in Room : rooms[s] \in Seq(RoomMsg)
      /\ QueuesOK(mgr, agents, rooms) /\ AtMostOne(mgr, agents, rooms)
  BY DEF Rest, QueuesOK
<1>2. Append(rooms[r], m) \in Seq(RoomMsg) /\ In(Append(rooms[r], m)) = In(rooms[r]) \cup {m}
  BY <1>1, QueuePut
<1>3. /\ rooms2 \in [Room -> Seq(RoomMsg)] /\ rooms2[r] = Append(rooms[r], m)
      /\ \A s \in Room : s # r => rooms2[s] = rooms[s]
  BY <1>1, <1>2
<1>4. QueuesOK(mgr, agents, rooms2)
  BY <1>1, <1>3 DEF QueuesOK
<1>5. \A d \in Caller : d # c =>
        \A s \in Room : HowMany(rooms2[s], ToRoomFor(d)) = HowMany(rooms[s], ToRoomFor(d))
  <2>1. \A d \in Caller : d # c => m \notin ToRoomFor(d)
    BY DEF ToRoomFor
  <2>. QED BY <1>1, <1>3, <2>1, OneMore
<1>6. \A s \in Room : HowMany(rooms2[s], ToRoomFor(c)) \in {0, 1}
  <2>1. HowMany(rooms2[r], ToRoomFor(c)) \in {0, 1}
    BY <1>1, <1>3, OneMore, RestCounts
  <2>. QED BY <1>3, <2>1, RestCounts
<1>7. AtMostOne(mgr, agents, rooms2)
  <2>1. HowMany(mgr, ToMgrFor(c)) = 0 /\ HowMany(agents[c[1]], ToAgentFor(c)) = 0
    BY RestCounts
  <2>. QED BY <1>1, <1>5, <1>6, <2>1 DEF AtMostOne
<1>. QED BY <1>2, <1>4, <1>7

-----------------------------------------------------------------------------
(* The messages of the calls that a step has nothing to do with *)

\* A step for call c, or for none, leaves what the messages of other calls are about as it is.
Stays(c) ==
  /\ \A d \in Caller : d # c => job'[d] = job[d] /\ listing'[d] = listing[d]
  /\ \A r \in Room : service[r] # "unborn" => service'[r] # "unborn"
  /\ \A r \in Room : service[r] = "removed" => service'[r] = "removed"
  /\ \A r \in Room : removing[r] => removing'[r]
  /\ \/ c \in Caller /\ job[c].op = "CreateRoom"
     \/ /\ roomID' = roomID
        /\ \A k \in Room : m_rooms[k] = 0 =>
             m_rooms'[k] = 0 /\ (service[k] = "running" => service'[k] = "running")

LEMMA Frame ==
  ASSUME CallsFit, NEW c \in Caller \cup {NoCaller}, Stays(c)
  PROVE  /\ \A m \in In(mgrBox) : m.from # c \/ m.type = "RemoveRoom" => MgrMail(m)'
         /\ \A p \in Player : \A x \in In(inbox[p]) : <<p, x.slot>> # c => AgentMail(p, x)'
         /\ \A r \in Room : \A m \in In(box[r]) : m.from # c \/ m.type \in Plays => RoomMail(r, m)'
         /\ \A d \in Caller : d # c => JobFits(d)'
<1>0. /\ OneByOne /\ Mails /\ job \in [Caller -> Job]
      /\ In(mgrBox) \subseteq MgrMsg
      /\ \A p \in Player : In(inbox[p]) \subseteq AgentMsg
      /\ \A r \in Room : In(box[r]) \subseteq RoomMsg
      /\ \A d \in Caller : JobFits(d)
  BY DEF CallsFit, QueuesOK, In
<1>1. \A d \in Caller : d # c => job'[d] = job[d] /\ listing'[d] = listing[d]
  BY DEF Stays
<1>2. /\ \A r \in Room : service[r] # "unborn" => service'[r] # "unborn"
      /\ \A r \in Room : removing[r] => removing'[r]
  BY DEF Stays
<1>3. ASSUME NEW d \in Caller, d # c, job[d].op = "CreateRoom"
      PROVE  /\ roomID' = roomID
             /\ \A k \in Room : m_rooms[k] = 0 =>
                  m_rooms'[k] = 0 /\ (service[k] = "running" => service'[k] = "running")
  BY <1>0, <1>3, OneCreates DEF Stays
<1>4. ASSUME NEW m \in In(mgrBox), m.from # c \/ m.type = "RemoveRoom"
      PROVE  MgrMail(m)'
  <2>1. MgrMail(m)
    BY <1>0 DEF Mails
  <2>2. CASE m.type = "RemoveRoom"
    BY <1>2, <2>1, <2>2 DEF MgrMail
  <2>3. CASE m.type # "RemoveRoom"
    <3>1. m.from \in Caller /\ m.from # c
      BY <1>4, <2>1, <2>3 DEF MgrMail
    <3>2. job'[m.from] = job[m.from] /\ listing'[m.from] = listing[m.from]
      BY <1>1, <3>1
    <3>3. m.type = "Inited" =>
            m.id = roomID' /\ m.id \in Room /\ service'[m.id] = "running" /\ m_rooms'[m.id] = 0
      BY <1>3, <2>1, <3>1 DEF MgrMail
    <3>. QED BY <2>1, <2>3, <3>2, <3>3 DEF MgrMail
  <2>. QED BY <2>2, <2>3
<1>5. ASSUME NEW p \in Player, NEW x \in In(inbox[p]), <<p, x.slot>> # c
      PROVE  AgentMail(p, x)'
  <2>1. AgentMail(p, x) /\ <<p, x.slot>> \in Caller
    BY <1>0 DEF Mails, AgentMsg, Caller
  <2>2. job'[<<p, x.slot>>] = job[<<p, x.slot>>]
    BY <1>1, <1>5, <2>1
  <2>3. Born(x.val) => Born(x.val)'
    BY <1>2 DEF Born
  <2>. QED BY <2>1, <2>2, <2>3 DEF AgentMail
<1>6. ASSUME NEW r \in Room, NEW m \in In(box[r]), m.from # c \/ m.type \in Plays
      PROVE  RoomMail(r, m)'
  <2>1. RoomMail(r, m) /\ m.from \in Caller
    BY <1>0 DEF Mails, RoomMsg
  <2>2. service'[r] = "unborn" => m.type = "INIT"
    BY <1>2, <2>1 DEF RoomMail
  <2>3. CASE m.type \in Plays
    BY <2>1, <2>2, <2>3 DEF RoomMail, Plays
  <2>4. CASE m.type \notin Plays
    <3>1. m.from # c
      BY <1>6, <2>4
    <3>2. job'[m.from] = job[m.from] /\ listing'[m.from] = listing[m.from]
      BY <1>1, <2>1, <3>1
    <3>3. m.type = "INIT" => r = roomID' /\ m_rooms'[r] = 0
      BY <1>3, <2>1, <3>1 DEF RoomMail
    <3>. QED BY <2>1, <2>2, <3>2, <3>3 DEF RoomMail
  <2>. QED BY <2>3, <2>4
<1>7. ASSUME NEW d \in Caller, d # c
      PROVE  JobFits(d)'
  <2>1. job'[d] = job[d] /\ JobFits(d)
    BY <1>0, <1>1, <1>7
  <2>2. Born(job[d].room) => job[d].room \in Room /\ service'[job[d].room] # "unborn"
    BY <1>2 DEF Born
  <2>. QED BY <2>1, <2>2 DEF JobFits, Born
<1>. QED BY <1>4, <1>5, <1>6, <1>7

\* The invariant of calls after a step for call c, or for none, that leaves the messages of the
\* others in their queues, or loses them with a room.
LEMMA CallMoves ==
  ASSUME CallsFit, NEW c \in Caller \cup {NoCaller}, Stays(c),
         job' \in [Caller -> Job], listing' \in [Caller -> Room \cup {0}], QueuesOK(mgrBox, inbox, box)', AtMostOne(mgrBox, inbox, box)',
         c \in Caller => JobFits(c)' /\ NotLost(c)',
         \A m \in In(mgrBox') :
           (m \in In(mgrBox) /\ (m.from # c \/ m.type = "RemoveRoom")) \/ MgrMail(m)',
         \A p \in Player : \A x \in In(inbox'[p]) :
           (x \in In(inbox[p]) /\ <<p, x.slot>> # c) \/ AgentMail(p, x)',
         \A r \in Room : \A m \in In(box'[r]) :
           (m \in In(box[r]) /\ (m.from # c \/ m.type \in Plays)) \/ RoomMail(r, m)',
         \A m \in In(mgrBox) : m.from \in Caller /\ m.from # c => m \in In(mgrBox'),
         \A p \in Player : \A x \in In(inbox[p]) : <<p, x.slot>> # c => x \in In(inbox'[p]),
         \A r \in Room : \A m \in In(box[r]) :
           m.from # c /\ m.type \in RoomCalls =>
             m \in In(box'[r]) \/ (service'[r] = "removed" /\ m.type # "INIT")
  PROVE  CallsFit'
<1>1. /\ \A m \in In(mgrBox) : m.from # c \/ m.type = "RemoveRoom" => MgrMail(m)'
      /\ \A p \in Player : \A x \in In(inbox[p]) : <<p, x.slot>> # c => AgentMail(p, x)'
      /\ \A r \in Room : \A m \in In(box[r]) : m.from # c \/ m.type \in Plays => RoomMail(r, m)'
      /\ \A d \in Caller : d # c => JobFits(d)'
  BY Frame
<1>2. Mails'
  <2>1. \A m \in In(mgrBox') : MgrMail(m)'
    BY <1>1
  <2>2. \A p \in Player : \A x \in In(inbox'[p]) : AgentMail(p, x)'
    BY <1>1
  <2>3. \A r \in Room : \A m \in In(box'[r]) : RoomMail(r, m)'
    BY <1>1
  <2>. QED BY <2>1, <2>2, <2>3 DEF Mails
<1>3. ASSUME NEW d \in Caller, d # c
      PROVE  NotLost(d)'
  <2>1. job'[d] = job[d] /\ listing'[d] = listing[d] /\ CalledRoom(d)' = CalledRoom(d)
    BY <1>3 DEF Stays, CalledRoom
  <2>2. NotLost(d) /\ JobFits(d) /\ Mails /\ OneByOne
    BY DEF CallsFit
  <2>3. SUFFICES ASSUME job[d] # NoJob
                 PROVE  NotLost(d)'
    BY <2>1 DEF NotLost
  <2>4. CASE \E m \in In(mgrBox) : m.from = d
    <3>1. PICK m \in In(mgrBox) : m.from = d
      BY <2>4
    <3>2. m \in In(mgrBox')
      BY <1>3, <3>1
    <3>. QED BY <3>1, <3>2 DEF NotLost
  <2>5. CASE \E x \in In(inbox[d[1]]) : x.slot = d[2]
    <3>1. PICK x \in In(inbox[d[1]]) : x.slot = d[2]
      BY <2>5
    <3>2. d[1] \in Player /\ <<d[1], x.slot>> = d
      BY <2>2, <3>1, Callers
    <3>3. x \in In(inbox'[d[1]])
      BY <1>3, <3>2
    <3>. QED BY <3>1, <3>3 DEF NotLost
  <2>6. CASE \E r \in Room : \E m \in In(box[r]) : m.from = d /\ m.type \in RoomCalls
    <3>1. PICK r \in Room : \E m \in In(box[r]) : m.from = d /\ m.type \in RoomCalls
      BY <2>6
    <3>2. PICK m \in In(box[r]) : m.from = d /\ m.type \in RoomCalls
      BY <3>1
    <3>3. CASE m \in In(box'[r])
      BY <3>2, <3>3 DEF NotLost
    <3>4. CASE service'[r] = "removed" /\ m.type # "INIT"
      <4>1. RoomMail(r, m) /\ 0 \notin Room
        BY <2>2, Callers DEF Mails
      <4>2. CalledRoom(d) = r
        BY <2>2, <3>2, <3>4, <4>1 DEF RoomMail, JobFits, CalledRoom, RoomCalls
      <4>. QED BY <2>1, <3>4, <4>1, <4>2 DEF NotLost
    <3>. QED BY <1>3, <3>2, <3>3, <3>4
  <2>7. CASE CalledRoom(d) # 0 /\ service[CalledRoom(d)] = "removed"
    <3>1. CalledRoom(d) \in Room
      <4>1. listing[d] \in Room \cup {0}
        BY DEF CallsFit
      <4>. QED BY <2>2, <2>7, <4>1 DEF CalledRoom, JobFits, Born
    <3>2. \A r \in Room : service[r] = "removed" => service'[r] = "removed"
      BY DEF Stays
    <3>3. service'[CalledRoom(d)] = "removed"
      BY <2>7, <3>1, <3>2
    <3>. QED BY <2>1, <2>7, <3>3 DEF NotLost
  <2>. QED BY <2>2, <2>3, <2>4, <2>5, <2>6, <2>7 DEF NotLost
<1>4. \A d \in Caller : JobFits(d)' /\ NotLost(d)'
  BY <1>1, <1>3
<1>5. OneByOne'
  BY DEF CallsFit, OneByOne
<1>. QED BY <1>2, <1>4, <1>5 DEF CallsFit

-----------------------------------------------------------------------------
(* Where a call goes *)

\* What a step for call c, or for none, leaves in the queues: what was there of other calls, the
\* answers xs to c and the calls ms of rooms, pairs of a room and a message.
OnlyNew(c, xs, ms) ==
  /\ \A p \in Player : \A x \in In(inbox'[p]) :
       (x \in In(inbox[p]) /\ <<p, x.slot>> # c) \/ (p = c[1] /\ x \in xs)
  /\ \A r \in Room : \A m \in In(box'[r]) :
       (m \in In(box[r]) /\ (m.from # c \/ m.type \in Plays)) \/ <<r, m>> \in ms
  /\ HowMany(mgrBox', Creations) \in Nat

NoNewCreation == HowMany(mgrBox', Creations) <= HowMany(mgrBox, Creations)

\* A step that is about handler c only.
Concerns(c) ==
  /\ Stays(c)
  /\ job' \in [Caller -> Job]
  /\ listing' \in [Caller -> Room \cup {0}]
  /\ JobFits(c)'

LEMMA RestInMgr ==
  ASSUME NEW c, NEW mgr, NEW agents, NEW rooms, Rest(c, mgr, agents, rooms)
  PROVE  /\ \A m \in In(mgr) : m \in In(mgrBox) /\ m.from # c
         /\ \A m \in In(mgrBox) : m.from # c => m \in In(mgr)
         /\ mgr \in Seq(MgrMsg) /\ HowMany(mgr, Creations) <= HowMany(mgrBox, Creations)
         /\ QueuesOK(mgr, agents, rooms) /\ AtMostOne(mgr, agents, rooms)
BY DEF Rest, QueuesOK

LEMMA RestInAgents ==
  ASSUME NEW c, NEW mgr, NEW agents, NEW rooms, Rest(c, mgr, agents, rooms)
  PROVE  /\ \A p \in Player : \A x \in In(agents[p]) : x \in In(inbox[p]) /\ <<p, x.slot>> # c
         /\ \A p \in Player : \A x \in In(inbox[p]) : <<p, x.slot>> # c => x \in In(agents[p])
BY DEF Rest

LEMMA RestInRooms ==
  ASSUME NEW c, NEW mgr, NEW agents, NEW rooms, Rest(c, mgr, agents, rooms)
  PROVE  /\ \A r \in Room : \A m \in In(rooms[r]) : m \in In(box[r]) /\ (m.from # c \/ m.type \in Plays)
         /\ \A r \in Room : \A m \in In(box[r]) : m.from # c \/ m.type \in Plays => m \in In(rooms[r])
BY DEF Rest

LEMMA CallToMgr ==
  ASSUME CallsFit, NEW c \in Caller, Concerns(c),
         NEW mgr, Rest(c, mgr, inbox', box'),
         NEW m \in MgrMsg, m.from = c, MgrMail(m)', mgrBox' = Append(mgr, m)
  PROVE  /\ CallsFit' /\ OnlyNew(c, {}, {})
         /\ m.type # "CreateRoom" => NoNewCreation
<1>1. OneByOne
  BY DEF CallsFit
<1>2. /\ QueuesOK(mgrBox', inbox', box')
      /\ AtMostOne(mgrBox', inbox', box')
      /\ In(mgrBox') = In(mgr) \cup {m}
      /\ m.type # "CreateRoom" => HowMany(mgrBox', Creations) <= HowMany(mgrBox, Creations)
  BY <1>1, PutMgr
<1>3. NotLost(c)'
  <2>1. m \in In(mgrBox')
    BY <1>2
  <2>. QED BY <2>1 DEF NotLost
<1>4. /\ \A n \in In(mgrBox') : (n \in In(mgrBox) /\ (n.from # c \/ n.type = "RemoveRoom")) \/ MgrMail(n)'
      /\ \A n \in In(mgrBox) : n.from \in Caller /\ n.from # c => n \in In(mgrBox')
  BY <1>2, RestInMgr
<1>5. /\ \A p \in Player : \A x \in In(inbox'[p]) : x \in In(inbox[p]) /\ <<p, x.slot>> # c
      /\ \A p \in Player : \A x \in In(inbox[p]) : <<p, x.slot>> # c => x \in In(inbox'[p])
      /\ \A r \in Room : \A n \in In(box'[r]) : n \in In(box[r]) /\ (n.from # c \/ n.type \in Plays)
      /\ \A r \in Room : \A n \in In(box[r]) : n.from # c /\ n.type \in RoomCalls => n \in In(box'[r])
  <2>1. /\ \A p \in Player : \A x \in In(inbox'[p]) : x \in In(inbox[p]) /\ <<p, x.slot>> # c
        /\ \A p \in Player : \A x \in In(inbox[p]) : <<p, x.slot>> # c => x \in In(inbox'[p])
    BY RestInAgents
  <2>2. /\ \A r \in Room : \A n \in In(box'[r]) : n \in In(box[r]) /\ (n.from # c \/ n.type \in Plays)
        /\ \A r \in Room : \A n \in In(box[r]) : n.from # c /\ n.type \in RoomCalls => n \in In(box'[r])
    BY RestInRooms
  <2>. QED BY <2>1, <2>2
<1>6. CallsFit'
  BY <1>2, <1>3, <1>4, <1>5, CallMoves, Zenon DEF Concerns
<1>7. HowMany(mgrBox', Creations) \in Nat
  <2>1. mgrBox' \in Seq(MgrMsg)
    BY <1>2 DEF QueuesOK
  <2>. QED BY <2>1, HowManyType
<1>. QED BY <1>2, <1>5, <1>6, <1>7 DEF OnlyNew, NoNewCreation

\* The answer of a room may come with its message to roommgr.
LEMMA CallToAgent ==
  ASSUME CallsFit, NEW c \in Caller, Concerns(c),
         NEW mgr, Rest(c, mgr, inbox, box'),
         NEW val \in Room \cup {0, 1}, AgentMail(c[1], [slot |-> c[2], val |-> val])', Answer(c, val),
         \/ mgrBox' = mgr
         \/ \E r \in Room : /\ removing'[r]
                            /\ mgrBox' = Append(mgr, [type |-> "RemoveRoom", from |-> NoCaller, id |-> r])
  PROVE  CallsFit' /\ OnlyNew(c, {[slot |-> c[2], val |-> val]}, {}) /\ NoNewCreation
<1>. DEFINE x == [slot |-> c[2], val |-> val]
<1>1. /\ OneByOne /\ c[1] \in Player /\ c = <<c[1], c[2]>> /\ c # NoCaller
      /\ x \in AgentMsg /\ x.slot = c[2]
  BY Callers DEF CallsFit, AgentMsg, OneByOne
<1>2. inbox' = [inbox EXCEPT ![c[1]] = Append(@, x)] /\ AgentMail(c[1], x)'
  BY DEF Answer, Answered
<1>. HIDE DEF x
<1>3. /\ QueuesOK(mgr, inbox', box')
      /\ AtMostOne(mgr, inbox', box')
      /\ In(inbox'[c[1]]) = In(inbox[c[1]]) \cup {x}
      /\ \A p \in Player : p # c[1] => inbox'[p] = inbox[p]
  <2>1. inbox \in [Player -> Seq(AgentMsg)]
    BY DEF CallsFit, QueuesOK
  <2>2. In(Append(inbox[c[1]], x)) = In(inbox[c[1]]) \cup {x}
    <3>1. inbox[c[1]] \in Seq(AgentMsg)
      BY <1>1, <2>1
    <3>. QED BY <1>1, <3>1, QueuePut
  <2>3. QueuesOK(mgr, inbox', box') /\ AtMostOne(mgr, inbox', box')
    <3>1. QueuesOK(mgr, [inbox EXCEPT ![c[1]] = Append(@, x)], box')
      BY <1>1, PutAgent
    <3>2. AtMostOne(mgr, [inbox EXCEPT ![c[1]] = Append(@, x)], box')
      BY <1>1, PutAgent
    <3>. QED BY <1>2, <3>1, <3>2, Zenon
  <2>4. inbox'[c[1]] = Append(inbox[c[1]], x) /\ \A p \in Player : p # c[1] => inbox'[p] = inbox[p]
    BY <1>1, <1>2, <2>1
  <2>. QED BY <2>2, <2>3, <2>4
<1>4. NotLost(c)'
  <2>1. x \in In(inbox'[c[1]])
    BY <1>3
  <2>. QED BY <1>1, <2>1 DEF NotLost
<1>5. /\ \A n \in In(mgr) : n \in In(mgrBox) /\ n.from # c
      /\ \A n \in In(mgrBox) : n.from # c => n \in In(mgr)
      /\ \A r \in Room : \A n \in In(box'[r]) : n \in In(box[r]) /\ (n.from # c \/ n.type \in Plays)
      /\ \A r \in Room : \A n \in In(box[r]) : n.from # c /\ n.type \in RoomCalls => n \in In(box'[r])
      /\ \A p \in Player : \A y \in In(inbox[p]) : <<p, y.slot>> # c
      /\ HowMany(mgr, Creations) <= HowMany(mgrBox, Creations)
      /\ mgr \in Seq(MgrMsg)
  <2>1. /\ \A n \in In(mgr) : n \in In(mgrBox) /\ n.from # c
        /\ \A n \in In(mgrBox) : n.from # c => n \in In(mgr)
        /\ HowMany(mgr, Creations) <= HowMany(mgrBox, Creations)
        /\ mgr \in Seq(MgrMsg)
    BY RestInMgr
  <2>2. /\ \A p \in Player : \A y \in In(inbox[p]) : <<p, y.slot>> # c
    BY RestInAgents
  <2>3. /\ \A r \in Room : \A n \in In(box'[r]) : n \in In(box[r]) /\ (n.from # c \/ n.type \in Plays)
        /\ \A r \in Room : \A n \in In(box[r]) : n.from # c /\ n.type \in RoomCalls => n \in In(box'[r])
    BY RestInRooms
  <2>. QED BY <2>1, <2>2, <2>3
<1>6. /\ \A p \in Player : \A y \in In(inbox'[p]) :
           (y \in In(inbox[p]) /\ <<p, y.slot>> # c) \/ (p = c[1] /\ y \in {x})
      /\ \A p \in Player : \A y \in In(inbox[p]) : y \in In(inbox'[p])
  BY <1>3, <1>5
<1>7. \A p \in Player : \A y \in In(inbox'[p]) : (y \in In(inbox[p]) /\ <<p, y.slot>> # c) \/ AgentMail(p, y)'
  BY <1>2, <1>6
<1>8. /\ QueuesOK(mgrBox', inbox', box') /\ AtMostOne(mgrBox', inbox', box')
      /\ \A n \in In(mgrBox') : (n \in In(mgrBox) /\ (n.from # c \/ n.type = "RemoveRoom")) \/ MgrMail(n)'
      /\ \A n \in In(mgrBox) : n.from \in Caller /\ n.from # c => n \in In(mgrBox')
      /\ HowMany(mgrBox', Creations) <= HowMany(mgrBox, Creations)
  <2>1. CASE mgrBox' = mgr
    BY <1>3, <1>5, <2>1
  <2>2. ASSUME NEW r \in Room, removing'[r],
               mgrBox' = Append(mgr, [type |-> "RemoveRoom", from |-> NoCaller, id |-> r])
        PROVE  /\ QueuesOK(mgrBox', inbox', box') /\ AtMostOne(mgrBox', inbox', box')
               /\ \A n \in In(mgrBox') :
                    (n \in In(mgrBox) /\ (n.from # c \/ n.type = "RemoveRoom")) \/ MgrMail(n)'
               /\ \A n \in In(mgrBox) : n.from \in Caller /\ n.from # c => n \in In(mgrBox')
               /\ HowMany(mgrBox', Creations) <= HowMany(mgrBox, Creations)
    <3>. DEFINE m == [type |-> "RemoveRoom", from |-> NoCaller, id |-> r]
    <3>1. m \in MgrMsg /\ m.type = "RemoveRoom" /\ MgrMail(m)' /\ mgrBox' = Append(mgr, m)
      BY <2>2 DEF MgrMsg, MgrMail
    <3>. HIDE DEF m
    <3>2. /\ QueuesOK(Append(mgr, m), inbox', box') /\ AtMostOne(Append(mgr, m), inbox', box')
          /\ In(Append(mgr, m)) = In(mgr) \cup {m}
          /\ HowMany(Append(mgr, m), Creations) = HowMany(mgr, Creations)
      BY <1>1, <1>3, <3>1, PutNote
    <3>. QED BY <1>5, <3>1, <3>2
  <2>. QED BY <2>1, <2>2
<1>9. CallsFit'
  BY <1>4, <1>5, <1>6, <1>7, <1>8, CallMoves, Zenon DEF Concerns
<1>10. HowMany(mgrBox', Creations) \in Nat
  <2>1. mgrBox' \in Seq(MgrMsg)
    BY <1>8 DEF QueuesOK
  <2>. QED BY <2>1, HowManyType
<1>11. OnlyNew(c, {x}, {}) /\ NoNewCreation
  BY <1>5, <1>6, <1>8, <1>10 DEF OnlyNew, NoNewCreation
<1>. QED BY <1>9, <1>11 DEF x

\* The call is lost if the room was removed.
LEMMA CallToRoom ==
  ASSUME CallsFit, NEW c \in Caller, Concerns(c),
         NEW rooms, Rest(c, mgrBox', inbox', rooms),
         NEW m \in RoomMsg, m.from = c, m.type \in RoomCalls, NEW r \in Room, RoomMail(r, m)',
         box' = IF service[r] = "removed" THEN rooms ELSE [rooms EXCEPT ![r] = Append(@, m)],
         service[r] = "removed" => CalledRoom(c)' = r
  PROVE  CallsFit' /\ OnlyNew(c, {}, {<<r, m>>}) /\ NoNewCreation
<1>1. OneByOne
  BY DEF CallsFit
<1>2. /\ \A n \in In(mgrBox') : n \in In(mgrBox) /\ n.from # c
      /\ \A n \in In(mgrBox) : n.from \in Caller /\ n.from # c => n \in In(mgrBox')
      /\ \A p \in Player : \A x \in In(inbox'[p]) : x \in In(inbox[p]) /\ <<p, x.slot>> # c
      /\ \A p \in Player : \A x \in In(inbox[p]) : <<p, x.slot>> # c => x \in In(inbox'[p])
      /\ \A s \in Room : \A n \in In(rooms[s]) : n \in In(box[s]) /\ (n.from # c \/ n.type \in Plays)
      /\ \A s \in Room : \A n \in In(box[s]) : n.from # c /\ n.type \in RoomCalls => n \in In(rooms[s])
      /\ HowMany(mgrBox', Creations) <= HowMany(mgrBox, Creations)
      /\ mgrBox' \in Seq(MgrMsg)
      /\ QueuesOK(mgrBox', inbox', rooms) /\ AtMostOne(mgrBox', inbox', rooms)
  <2>1. /\ \A n \in In(mgrBox') : n \in In(mgrBox) /\ n.from # c
        /\ \A n \in In(mgrBox) : n.from \in Caller /\ n.from # c => n \in In(mgrBox')
        /\ HowMany(mgrBox', Creations) <= HowMany(mgrBox, Creations)
        /\ mgrBox' \in Seq(MgrMsg)
        /\ QueuesOK(mgrBox', inbox', rooms) /\ AtMostOne(mgrBox', inbox', rooms)
    BY RestInMgr
  <2>2. /\ \A p \in Player : \A x \in In(inbox'[p]) : x \in In(inbox[p]) /\ <<p, x.slot>> # c
        /\ \A p \in Player : \A x \in In(inbox[p]) : <<p, x.slot>> # c => x \in In(inbox'[p])
    BY RestInAgents
  <2>3. /\ \A s \in Room : \A n \in In(rooms[s]) : n \in In(box[s]) /\ (n.from # c \/ n.type \in Plays)
        /\ \A s \in Room : \A n \in In(box[s]) : n.from # c /\ n.type \in RoomCalls => n \in In(rooms[s])
    BY RestInRooms
  <2>. QED BY <2>1, <2>2, <2>3
<1>3. /\ QueuesOK(mgrBox', inbox', box') /\ AtMostOne(mgrBox', inbox', box')
      /\ \A s \in Room : In(rooms[s]) \subseteq In(box'[s])
      /\ \A s \in Room : \A n \in In(box'[s]) : n \in In(rooms[s]) \/ (s = r /\ n = m)
      /\ NotLost(c)'
  <2>1. CASE service[r] = "removed"
    <3>1. service'[r] = "removed" /\ 0 \notin Room
      BY <1>1, <2>1, Callers DEF Concerns, Stays
    <3>2. CalledRoom(c)' # 0 /\ service'[CalledRoom(c)'] = "removed"
      BY <2>1, <3>1
    <3>. QED BY <1>2, <2>1, <3>2 DEF NotLost
  <2>2. CASE service[r] # "removed"
    <3>0. rooms \in [Room -> Seq(RoomMsg)] /\ box' = [rooms EXCEPT ![r] = Append(@, m)]
      BY <1>2, <2>2 DEF QueuesOK
    <3>1. In(Append(rooms[r], m)) = In(rooms[r]) \cup {m}
      <4>1. rooms[r] \in Seq(RoomMsg)
        BY <3>0
      <4>. QED BY <4>1, QueuePut
    <3>2. QueuesOK(mgrBox', inbox', box') /\ AtMostOne(mgrBox', inbox', box')
      <4>1. QueuesOK(mgrBox', inbox', [rooms EXCEPT ![r] = Append(@, m)])
        BY <1>1, PutRoom
      <4>2. AtMostOne(mgrBox', inbox', [rooms EXCEPT ![r] = Append(@, m)])
        BY <1>1, PutRoom
      <4>. QED BY <3>0, <4>1, <4>2, Zenon
    <3>3. box'[r] = Append(rooms[r], m) /\ \A s \in Room : s # r => box'[s] = rooms[s]
      BY <3>0
    <3>4. m \in In(box'[r])
      BY <3>1, <3>3
    <3>5. NotLost(c)'
      BY <3>4 DEF NotLost
    <3>. QED BY <3>1, <3>2, <3>3, <3>5
  <2>. QED BY <2>1, <2>2
<1>4. /\ \A s \in Room : \A n \in In(box'[s]) :
           (n \in In(box[s]) /\ (n.from # c \/ n.type \in Plays)) \/ <<s, n>> \in {<<r, m>>}
      /\ \A s \in Room : \A n \in In(box'[s]) :
           (n \in In(box[s]) /\ (n.from # c \/ n.type \in Plays)) \/ RoomMail(s, n)'
      /\ \A s \in Room : \A n \in In(box[s]) : n.from # c /\ n.type \in RoomCalls => n \in In(box'[s])
  BY <1>2, <1>3
<1>5. CallsFit'
  BY <1>2, <1>3, <1>4, CallMoves, Zenon DEF Concerns
<1>6. HowMany(mgrBox', Creations) \in Nat
  BY <1>2, HowManyType
<1>. QED BY <1>2, <1>4, <1>5, <1>6 DEF OnlyNew, NoNewCreation

LEMMA CallEnds ==
  ASSUME CallsFit, NEW c \in Caller, Concerns(c),
         Rest(c, mgrBox', inbox', box'), job'[c] = NoJob
  PROVE  CallsFit' /\ OnlyNew(c, {}, {}) /\ NoNewCreation
<1>1. /\ \A n \in In(mgrBox') : n \in In(mgrBox) /\ n.from # c
      /\ \A n \in In(mgrBox) : n.from \in Caller /\ n.from # c => n \in In(mgrBox')
      /\ \A p \in Player : \A x \in In(inbox'[p]) : x \in In(inbox[p]) /\ <<p, x.slot>> # c
      /\ \A p \in Player : \A x \in In(inbox[p]) : <<p, x.slot>> # c => x \in In(inbox'[p])
      /\ \A s \in Room : \A n \in In(box'[s]) : n \in In(box[s]) /\ (n.from # c \/ n.type \in Plays)
      /\ \A s \in Room : \A n \in In(box[s]) : n.from # c /\ n.type \in RoomCalls => n \in In(box'[s])
      /\ HowMany(mgrBox', Creations) <= HowMany(mgrBox, Creations)
      /\ mgrBox' \in Seq(MgrMsg)
      /\ QueuesOK(mgrBox', inbox', box') /\ AtMostOne(mgrBox', inbox', box')
  <2>1. /\ \A n \in In(mgrBox') : n \in In(mgrBox) /\ n.from # c
        /\ \A n \in In(mgrBox) : n.from \in Caller /\ n.from # c => n \in In(mgrBox')
        /\ HowMany(mgrBox', Creations) <= HowMany(mgrBox, Creations)
        /\ mgrBox' \in Seq(MgrMsg)
        /\ QueuesOK(mgrBox', inbox', box') /\ AtMostOne(mgrBox', inbox', box')
    BY RestInMgr
  <2>2. /\ \A p \in Player : \A x \in In(inbox'[p]) : x \in In(inbox[p]) /\ <<p, x.slot>> # c
        /\ \A p \in Player : \A x \in In(inbox[p]) : <<p, x.slot>> # c => x \in In(inbox'[p])
    BY RestInAgents
  <2>3. /\ \A s \in Room : \A n \in In(box'[s]) : n \in In(box[s]) /\ (n.from # c \/ n.type \in Plays)
        /\ \A s \in Room : \A n \in In(box[s]) : n.from # c /\ n.type \in RoomCalls => n \in In(box'[s])
    BY RestInRooms
  <2>. QED BY <2>1, <2>2, <2>3
<1>2. NotLost(c)'
  BY DEF NotLost
<1>3. CallsFit'
  BY <1>1, <1>2, CallMoves, Zenon DEF Concerns
<1>4. HowMany(mgrBox', Creations) \in Nat
  BY <1>1, HowManyType
<1>. QED BY <1>1, <1>3, <1>4 DEF OnlyNew, NoNewCreation

-----------------------------------------------------------------------------
(* The agents *)

LEMMA StaysIf ==
  ASSUME NEW c, UNCHANGED <<service, removing, m_rooms, roomID>>,
         \A d \in Caller : d # c => job'[d] = job[d] /\ listing'[d] = listing[d]
  PROVE  Stays(c)
BY DEF Stays

\* An agent's handler begins with a call to roommgr.
LEMMA AsksMgrCalls ==
  ASSUME CallsFit, NEW c \in Caller, job[c] = NoJob, c[2] # 0,
         NEW op, NEW type, NEW id,
         \/ op = "CreateRoom" /\ type = "CreateRoom" /\ id = 0 /\ c[1] \in Creators
         \/ op = "EnterRoom" /\ type = "GetRoom" /\ id \in Room
         \/ op = "GetRoomList" /\ type = "GetRoomList" /\ id = 0,
         job' = [job EXCEPT ![c] = [op |-> op, at |-> "roommgr", room |-> 0]],
         ToMgr(type, c, id),
         UNCHANGED <<vars, inbox, m_rooms, roomID, listing, box>>
  PROVE  /\ CallsFit' /\ OnlyNew(c, {}, {})
         /\ type # "CreateRoom" => NoNewCreation
<1>. DEFINE m == [type |-> type, from |-> c, id |-> id]
            j == [op |-> op, at |-> "roommgr", room |-> 0]
<1>1. /\ OneByOne /\ job \in [Caller -> Job] /\ listing \in [Caller -> Room \cup {0}]
      /\ c # NoCaller /\ 0 \notin Room
      /\ UNCHANGED <<service, removing, m_rooms, roomID, listing, inbox, box>>
  BY Callers DEF CallsFit, vars, roomVars
<1>2. j \in Job /\ j # NoJob /\ j.op = op /\ j.at = "roommgr" /\ j.room = 0
  BY DEF Job, NoJob
<1>3. m \in MgrMsg /\ m.from = c /\ m.type = type /\ m.id = id /\ mgrBox' = Append(mgrBox, m)
  BY DEF MgrMsg, ToMgr
<1>. HIDE DEF m, j
<1>4. job' \in [Caller -> Job] /\ job'[c] = j /\ \A d \in Caller : d # c => job'[d] = job[d]
  BY <1>1, <1>2 DEF j
<1>5. Rest(c, mgrBox, inbox', box')
  BY <1>1, RestIdle
<1>6. JobFits(c)'
  BY <1>2, <1>4 DEF JobFits, JoinCalls
<1>7. Concerns(c)
  BY <1>1, <1>4, <1>6, StaysIf DEF Concerns
<1>8. MgrMail(m)'
  BY <1>2, <1>3, <1>4 DEF MgrMail
<1>. QED BY <1>3, <1>5, <1>7, <1>8, CallToMgr

\* An agent's handler begins with a call to the agent's room.
LEMMA AsksRoomCalls ==
  ASSUME CallsFit, NEW c \in Caller, job[c] = NoJob,
         NEW r, Born(r), NEW op, NEW type,
         \/ op \in {"LeaveRoom", "Kick"} /\ type = "RemovePlayer"
         \/ op \in {"StartBattle", "GetRoomInfo"} /\ type = op,
         op = "Kick" <=> c[2] = 0,
         job' = [job EXCEPT ![c] = [op |-> op, at |-> "room", room |-> r]],
         ToRoom(r, type, c, 0),
         UNCHANGED <<vars, inbox, mgrVars>>
  PROVE  CallsFit' /\ OnlyNew(c, {}, {<<r, [type |-> type, from |-> c, target |-> 0]>>}) /\ NoNewCreation
<1>. DEFINE m == [type |-> type, from |-> c, target |-> 0]
            j == [op |-> op, at |-> "room", room |-> r]
<1>1. /\ OneByOne /\ job \in [Caller -> Job] /\ listing \in [Caller -> Room \cup {0}]
      /\ c # NoCaller /\ 0 \notin Room /\ r \in Room
      /\ UNCHANGED <<service, removing, m_rooms, roomID, listing, inbox, mgrBox>>
  BY Callers DEF CallsFit, vars, roomVars, mgrVars, Born
<1>2. j \in Job /\ j # NoJob /\ j.op = op /\ j.at = "room" /\ j.room = r
  BY <1>1 DEF Job, NoJob
<1>3. /\ m \in RoomMsg /\ m.from = c /\ m.type = type /\ type \in RoomCalls
      /\ box' = IF service[r] = "removed" THEN box ELSE [box EXCEPT ![r] = Append(@, m)]
  BY DEF RoomMsg, RoomCalls, ToRoom
<1>. HIDE DEF m, j
<1>4. job' \in [Caller -> Job] /\ job'[c] = j /\ \A d \in Caller : d # c => job'[d] = job[d]
  BY <1>1, <1>2 DEF j
<1>5. Rest(c, mgrBox', inbox', box)
  BY <1>1, RestIdle
<1>6. Born(r)'
  BY <1>1 DEF Born
<1>7. JobFits(c)'
  BY <1>2, <1>4, <1>6 DEF JobFits
<1>8. Concerns(c)
  BY <1>1, <1>4, <1>7, StaysIf DEF Concerns
<1>9. RoomMail(r, m)'
  BY <1>2, <1>3, <1>4, <1>6 DEF RoomMail, Born, LeaveCalls
<1>10. CalledRoom(c)' = r
  BY <1>2, <1>4 DEF CalledRoom
<1>11. CallsFit' /\ OnlyNew(c, {}, {<<r, m>>}) /\ NoNewCreation
  BY <1>1, <1>3, <1>5, <1>8, <1>9, <1>10, CallToRoom
<1>. QED BY <1>11 DEF m

\* An agent goes on after an answer: it asks the room it was given to add its player, or ends.
LEMMA ResumesRest ==
  ASSUME CallsFit, NEW p \in Player, NEW c \in Caller, Resumes(p, c)
  PROVE  /\ Rest(c, mgrBox', inbox', box)
         /\ c[1] = p /\ job[c] # NoJob /\ AgentMail(p, Head(inbox[p])) /\ Head(inbox[p]).slot = c[2]
         /\ Head(inbox[p]) \in In(inbox[p]) /\ Head(inbox[p]) \in AgentMsg
         /\ UNCHANGED <<service, removing, m_rooms, roomID, listing, mgrBox>>
<1>1. /\ inbox[p] # <<>> /\ c = <<p, Head(inbox[p]).slot>> /\ inbox' = [inbox EXCEPT ![p] = Tail(@)]
      /\ UNCHANGED <<service, removing, m_rooms, roomID, listing, mgrBox>>
  BY DEF Resumes, mgrVars, vars, roomVars
<1>2. c[1] = p /\ c[2] = Head(inbox[p]).slot
  BY <1>1
<1>3. Rest(c, mgrBox, [inbox EXCEPT ![c[1]] = Tail(@)], box)
  BY <1>1, <1>2, RestAgent
<1>4. Rest(c, mgrBox', inbox', box)
  BY <1>1, <1>2, <1>3
<1>5. inbox[p] \in Seq(AgentMsg)
  BY DEF CallsFit, QueuesOK
<1>6. Head(inbox[p]) \in In(inbox[p]) /\ Head(inbox[p]) \in AgentMsg
  BY <1>1, <1>5, QueueTaken
<1>7. AgentMail(p, Head(inbox[p]))
  BY <1>6 DEF CallsFit, Mails
<1>8. job[c] # NoJob
  BY <1>1, <1>7 DEF AgentMail
<1>. QED BY <1>1, <1>2, <1>4, <1>6, <1>7, <1>8

LEMMA DoneCalls ==
  ASSUME CallsFit, NEW c \in Caller, Rest(c, mgrBox', inbox', box'), Done(c),
         UNCHANGED <<service, removing, m_rooms, roomID, listing>>
  PROVE  CallsFit' /\ OnlyNew(c, {}, {}) /\ NoNewCreation /\ job'[c] = NoJob
<1>1. job \in [Caller -> Job] /\ listing \in [Caller -> Room \cup {0}] /\ NoJob \in Job
  BY DEF CallsFit, Job
<1>2. job' \in [Caller -> Job] /\ job'[c] = NoJob /\ \A d \in Caller : d # c => job'[d] = job[d]
  BY <1>1 DEF Done
<1>3. JobFits(c)'
  BY <1>2 DEF JobFits, NoJob
<1>4. Concerns(c)
  BY <1>1, <1>2, <1>3, StaysIf DEF Concerns
<1>. QED BY <1>2, <1>4, CallEnds

LEMMA FinishCalls ==
  ASSUME CallsFit, NEW p \in Player, NEW c \in Caller, Finish(p, c)
  PROVE  CallsFit' /\ OnlyNew(c, {}, {}) /\ NoNewCreation /\ job'[c] = NoJob
<1>1. Resumes(p, c) /\ Done(c) /\ box' = box
  BY DEF Finish
<1>2. Rest(c, mgrBox', inbox', box') /\ UNCHANGED <<service, removing, m_rooms, roomID, listing>>
  BY <1>1, ResumesRest
<1>. QED BY <1>1, <1>2, DoneCalls

LEMMA JoinRoomCalls ==
  ASSUME CallsFit, NEW p \in Player, NEW c \in Caller, JoinRoom(p, c)
  PROVE  /\ CallsFit' /\ NoNewCreation
         /\ \/ m_room' = [m_room EXCEPT ![p] = 0] /\ job'[c] = NoJob /\ OnlyNew(c, {}, {})
            \/ \E r \in Room :
                 /\ Born(r) /\ m_room' = [m_room EXCEPT ![p] = r]
                 /\ job'[c] = [op |-> job[c].op, at |-> "room", room |-> r]
                 /\ OnlyNew(c, {}, {<<r, [type |-> "AddPlayer", from |-> c, target |-> 0]>>})
<1>0. PICK r : r = Head(inbox[p]).val
  OBVIOUS
<1>1. /\ Resumes(p, c) /\ job[c].op \in JoinCalls /\ job[c].at = "roommgr"
      /\ m_room' = [m_room EXCEPT ![p] = r]
      /\ IF r = 0 THEN Done(c) /\ box' = box
         ELSE /\ job' = [job EXCEPT ![c] = [op |-> @.op, at |-> "room", room |-> r]]
              /\ ToRoom(r, "AddPlayer", c, 0)
  BY <1>0 DEF JoinRoom, JoinCalls
<1>2. /\ Rest(c, mgrBox', inbox', box)
      /\ c[1] = p /\ c = <<c[1], c[2]>> /\ Head(inbox[p]).slot = c[2] /\ AgentMail(p, Head(inbox[p]))
      /\ UNCHANGED <<service, removing, m_rooms, roomID, listing, mgrBox>>
      /\ job[c] # NoJob /\ JobFits(c)
      /\ job \in [Caller -> Job] /\ listing \in [Caller -> Room \cup {0}]
  BY <1>1, ResumesRest, Callers DEF CallsFit
<1>3. r = 0 \/ Born(r)
  BY <1>0, <1>1, <1>2 DEF AgentMail
<1>4. CASE r = 0
  <2>1. Rest(c, mgrBox', inbox', box')
    BY <1>1, <1>2, <1>4
  <2>2. CallsFit' /\ OnlyNew(c, {}, {}) /\ NoNewCreation /\ job'[c] = NoJob
    BY <1>1, <1>2, <1>4, <2>1, DoneCalls
  <2>. QED BY <1>1, <1>4, <2>2
<1>5. CASE r # 0
  <2>. DEFINE m == [type |-> "AddPlayer", from |-> c, target |-> 0]
  <2>0. PICK j : j = [op |-> job[c].op, at |-> "room", room |-> r]
    OBVIOUS
  <2>1. r \in Room /\ Born(r) /\ Born(r)'
    BY <1>2, <1>3, <1>5 DEF Born
  <2>2. job[c] \in Job /\ job[c].op \in JoinCalls
    BY <1>1, <1>2
  <2>3. j \in Job /\ j # NoJob /\ j.op = job[c].op /\ j.at = "room" /\ j.room = r
    BY <2>0, <2>1, <2>2 DEF Job, NoJob, JoinCalls
  <2>4. /\ m \in RoomMsg /\ m.from = c /\ m.type = "AddPlayer" /\ m.type \in RoomCalls
        /\ box' = IF service[r] = "removed" THEN box ELSE [box EXCEPT ![r] = Append(@, m)]
    BY <1>1, <1>5 DEF RoomMsg, RoomCalls, ToRoom
  <2>5. job' = [job EXCEPT ![c] = j]
    BY <1>1, <1>5, <2>0
  <2>. HIDE DEF m
  <2>6. job' \in [Caller -> Job] /\ job'[c] = j /\ \A d \in Caller : d # c => job'[d] = job[d]
    BY <1>2, <2>3, <2>5
  <2>7. JobFits(c)'
    BY <1>2, <2>1, <2>2, <2>3, <2>6 DEF JobFits, JoinCalls
  <2>8. Concerns(c)
    BY <1>2, <2>6, <2>7, StaysIf DEF Concerns
  <2>9. RoomMail(r, m)'
    BY <2>1, <2>2, <2>3, <2>4, <2>6 DEF RoomMail, Born
  <2>10. CalledRoom(c)' = r
    BY <2>3, <2>6 DEF CalledRoom
  <2>11. CallsFit' /\ OnlyNew(c, {}, {<<r, m>>}) /\ NoNewCreation
    BY <1>2, <2>1, <2>4, <2>8, <2>9, <2>10, CallToRoom
  <2>12. /\ OnlyNew(c, {}, {<<r, [type |-> "AddPlayer", from |-> c, target |-> 0]>>})
         /\ job'[c] = [op |-> job[c].op, at |-> "room", room |-> r]
    BY <2>0, <2>6, <2>11 DEF m
  <2>. QED BY <1>1, <2>1, <2>11, <2>12
<1>. QED BY <1>4, <1>5

-----------------------------------------------------------------------------
(* roommgr *)

\* roommgr takes a message of a call.
LEMMA MgrTakesRest ==
  ASSUME CallsFit, NEW type, type # "RemoveRoom", MgrTakes(type), MgrTook
  PROVE  LET c == Head(mgrBox).from IN
         /\ c \in Caller /\ Rest(c, mgrBox', inbox, box)
         /\ Head(mgrBox) \in In(mgrBox) /\ Head(mgrBox) \in MgrMsg /\ Head(mgrBox).type = type
         /\ MgrMail(Head(mgrBox)) /\ JobFits(c) /\ job[c].at = "roommgr"
<1>1. mgrBox # <<>> /\ Head(mgrBox).type = type /\ mgrBox' = Tail(mgrBox)
  BY DEF MgrTakes, MgrTook
<1>2. mgrBox \in Seq(MgrMsg)
  BY DEF CallsFit, QueuesOK
<1>3. Head(mgrBox) \in In(mgrBox) /\ Head(mgrBox) \in MgrMsg
  BY <1>1, <1>2, QueueTaken
<1>4. MgrMail(Head(mgrBox))
  BY <1>3 DEF CallsFit, Mails
<1>5. Head(mgrBox).from \in Caller /\ job[Head(mgrBox).from].at = "roommgr"
  BY <1>1, <1>4 DEF MgrMail
<1>6. Rest(Head(mgrBox).from, Tail(mgrBox), inbox, box)
  BY <1>1, <1>5, RestMgr
<1>7. JobFits(Head(mgrBox).from)
  BY <1>5 DEF CallsFit
<1>. QED BY <1>1, <1>3, <1>4, <1>5, <1>6, <1>7

\* A step of roommgr or of a room leaves the suspended handlers alone.
LEMMA ConcernsIf ==
  ASSUME CallsFit, NEW c \in Caller, Stays(c), job' = job, listing' \in [Caller -> Room \cup {0}]
  PROVE  Concerns(c)
<1>1. job \in [Caller -> Job] /\ JobFits(c)
  BY DEF CallsFit
<1>2. \A r \in Room : service[r] # "unborn" => service'[r] # "unborn"
  BY DEF Stays
<1>3. JobFits(c)'
  BY <1>1, <1>2 DEF JobFits, Born
<1>. QED BY <1>1, <1>3 DEF Concerns

LEMMA CreateRoomCalls ==
  ASSUME CallsFit, CreateRoom,
         roomID + 1 \in Room, m_rooms[roomID + 1] = 0, service[roomID + 1] = "unborn"
  PROVE  CallsFit' /\ \E c \in Caller : \E m : m.type = "INIT" /\ OnlyNew(c, {}, {<<roomID + 1, m>>})
<1>r. PICK r \in Room : r = roomID + 1
  OBVIOUS
<1>1. PICK c \in Caller :
        /\ c = Head(mgrBox).from /\ Rest(c, mgrBox', inbox, box)
        /\ job[c].at = "roommgr" /\ MgrMail(Head(mgrBox)) /\ Head(mgrBox).type = "CreateRoom"
  BY MgrTakesRest DEF CreateRoom
<1>m. PICK m : m = [type |-> "INIT", from |-> c, target |-> 0]
  OBVIOUS
<1>2. /\ UNCHANGED <<service, removing, m_rooms, listing, job, inbox>> /\ roomID' = r
      /\ box' = IF service[r] = "removed" THEN box ELSE [box EXCEPT ![r] = Append(@, m)]
  BY <1>r, <1>1, <1>m DEF CreateRoom, vars, roomVars, agentVars, ToRoom
<1>3. m \in RoomMsg /\ m.from = c /\ m.type = "INIT" /\ m.type \in RoomCalls
  BY <1>1, <1>m DEF RoomMsg, RoomCalls
<1>4. job[c].op = "CreateRoom"
  BY <1>1 DEF MgrMail
<1>5. listing \in [Caller -> Room \cup {0}]
  BY DEF CallsFit
<1>6. Stays(c)
  BY <1>1, <1>2, <1>4 DEF Stays
<1>7. Concerns(c)
  BY <1>1, <1>2, <1>5, <1>6, ConcernsIf
<1>8. RoomMail(r, m)'
  BY <1>r, <1>1, <1>2, <1>3, <1>4 DEF RoomMail
<1>9. r \in Room /\ service[r] # "removed" /\ Rest(c, mgrBox', inbox', box)
  BY <1>r, <1>1, <1>2
<1>10. CallsFit' /\ OnlyNew(c, {}, {<<r, m>>})
  BY <1>1, <1>2, <1>3, <1>7, <1>8, <1>9, CallToRoom
<1>. QED BY <1>r, <1>1, <1>3, <1>10

\* roommgr's part of the invariant: its entries stand for rooms that run.
EntriesRun == \A k \in Room : m_rooms[k] # 0 => m_rooms[k] = k /\ service[k] = "running"

\* A step of roommgr that answers a handler, which waits for roommgr, changes nothing for players.
AnswersOnly ==
  \E c \in Caller, x \in AgentMsg : job[c].at = "roommgr" /\ x.slot = c[2] /\ OnlyNew(c, {x}, {})

LEMMA AnswersOnlyIf ==
  ASSUME NEW c \in Caller, NEW val \in Room \cup {0, 1}, OneByOne, job[c].at = "roommgr",
         OnlyNew(c, {[slot |-> c[2], val |-> val]}, {})
  PROVE  AnswersOnly
<1>1. [slot |-> c[2], val |-> val] \in AgentMsg
  BY Callers DEF AgentMsg, OneByOne
<1>. QED BY <1>1 DEF AnswersOnly

LEMMA RoomCreatedCalls ==
  ASSUME CallsFit, RoomCreated, m_rooms \in [Room -> Room \cup {0}]
  PROVE  CallsFit' /\ AnswersOnly /\ NoNewCreation
<1>1. PICK c \in Caller :
        /\ c = Head(mgrBox).from /\ Rest(c, mgrBox', inbox, box)
        /\ job[c].at = "roommgr" /\ MgrMail(Head(mgrBox)) /\ Head(mgrBox).type = "Inited"
  BY MgrTakesRest DEF RoomCreated
<1>2. PICK r : r = Head(mgrBox).id
  OBVIOUS
<1>3. /\ UNCHANGED <<service, removing, listing, job, box, roomID>>
      /\ m_rooms' = [m_rooms EXCEPT ![roomID] = r] /\ Answer(c, r)
  BY <1>1, <1>2 DEF RoomCreated, vars, roomVars
<1>4. job[c].op = "CreateRoom" /\ r \in Room /\ service[r] = "running"
  BY <1>1, <1>2 DEF MgrMail
<1>5. Stays(c)
  BY <1>3, <1>4 DEF Stays
<1>6. Concerns(c)
  <2>1. listing' \in [Caller -> Room \cup {0}]
    BY <1>3 DEF CallsFit
  <2>. QED BY <1>3, <1>5, <2>1, ConcernsIf
<1>7. AgentMail(c[1], [slot |-> c[2], val |-> r])'
  <2>1. c = <<c[1], c[2]>> /\ job[c] # NoJob
    BY <1>1, Callers DEF CallsFit, NoJob
  <2>. QED BY <1>3, <1>4, <2>1 DEF AgentMail, Born
<1>8. CallsFit' /\ OnlyNew(c, {[slot |-> c[2], val |-> r]}, {}) /\ NoNewCreation
  <2>1. Rest(c, mgrBox', inbox, box')
    BY <1>1, <1>3
  <2>. QED BY <1>3, <1>4, <1>6, <1>7, <2>1, CallToAgent
<1>. QED BY <1>1, <1>4, <1>8, AnswersOnlyIf DEF CallsFit

LEMMA GetRoomCalls ==
  ASSUME CallsFit, GetRoom, m_rooms \in [Room -> Room \cup {0}], EntriesRun
  PROVE  CallsFit' /\ AnswersOnly /\ NoNewCreation
<1>1. PICK c \in Caller :
        /\ c = Head(mgrBox).from /\ Rest(c, mgrBox', inbox, box)
        /\ job[c].at = "roommgr" /\ MgrMail(Head(mgrBox)) /\ Head(mgrBox).type = "GetRoom"
  BY MgrTakesRest DEF GetRoom
<1>2. PICK r : r = m_rooms[Head(mgrBox).id]
  OBVIOUS
<1>3. /\ UNCHANGED <<service, removing, listing, job, box, roomID, m_rooms>> /\ Answer(c, r)
  BY <1>1, <1>2 DEF GetRoom, vars, roomVars
<1>4. r \in Room \cup {0} /\ (r # 0 => service[r] = "running")
  <2>1. Head(mgrBox).id \in Room
    BY <1>1 DEF MgrMail
  <2>. QED BY <1>2, <2>1 DEF EntriesRun
<1>5. Concerns(c)
  <2>1. listing' \in [Caller -> Room \cup {0}]
    BY <1>3 DEF CallsFit
  <2>2. Stays(c)
    BY <1>3, StaysIf
  <2>. QED BY <1>3, <2>1, <2>2, ConcernsIf
<1>6. AgentMail(c[1], [slot |-> c[2], val |-> r])'
  <2>1. c = <<c[1], c[2]>> /\ job[c] # NoJob
    BY <1>1, Callers DEF CallsFit, NoJob
  <2>. QED BY <1>3, <1>4, <2>1 DEF AgentMail, Born
<1>7. CallsFit' /\ OnlyNew(c, {[slot |-> c[2], val |-> r]}, {}) /\ NoNewCreation
  <2>1. Rest(c, mgrBox', inbox, box')
    BY <1>1, <1>3
  <2>. QED BY <1>3, <1>4, <1>5, <1>6, <2>1, CallToAgent
<1>. QED BY <1>1, <1>4, <1>7, AnswersOnlyIf DEF CallsFit

\* The loop of handleGetRoomList asks a room that runs, or answers.
LEMMA ListFromCalls ==
  ASSUME CallsFit, NEW type \in {"GetRoomList", "RoomInfo"}, MgrTakes(type),
         NEW k \in Room \cup {0}, k # 0 => m_rooms[k] = k /\ service[k] = "running",
         ListFrom(Head(mgrBox).from, k)
  PROVE  /\ CallsFit' /\ NoNewCreation
         /\ \/ AnswersOnly
            \/ \E c \in Caller : \E r \in Room : \E m : m.type = "ReqRoomInfo" /\ OnlyNew(c, {}, {<<r, m>>})
<1>0. MgrTook
  BY DEF ListFrom
<1>1. PICK c \in Caller :
        /\ c = Head(mgrBox).from /\ Rest(c, mgrBox', inbox, box)
        /\ job[c].at = "roommgr" /\ MgrMail(Head(mgrBox)) /\ Head(mgrBox).type = type
  BY <1>0, MgrTakesRest
<1>2. /\ UNCHANGED <<service, removing, job, roomID, m_rooms>>
      /\ listing' = [listing EXCEPT ![c] = k]
      /\ IF k = 0 THEN Answer(c, 1) /\ box' = box
         ELSE ToRoom(m_rooms[k], "ReqRoomInfo", c, 0) /\ inbox' = inbox
  BY <1>1 DEF ListFrom, vars, roomVars
<1>3. job[c].op = "GetRoomList" /\ c = <<c[1], c[2]>> /\ job[c] # NoJob /\ OneByOne
  BY <1>1, Callers DEF CallsFit, NoJob, MgrMail
<1>4. /\ listing' \in [Caller -> Room \cup {0}] /\ listing'[c] = k
      /\ \A d \in Caller : d # c => listing'[d] = listing[d]
  BY <1>2 DEF CallsFit
<1>5. Concerns(c)
  <2>1. Stays(c)
    BY <1>2, <1>4, StaysIf
  <2>. QED BY <1>2, <1>4, <2>1, ConcernsIf
<1>6. CASE k = 0
  <2>1. AgentMail(c[1], [slot |-> c[2], val |-> 1])'
    BY <1>2, <1>3 DEF AgentMail, JoinCalls
  <2>2. Rest(c, mgrBox', inbox, box')
    BY <1>1, <1>2, <1>6
  <2>3. CallsFit' /\ OnlyNew(c, {[slot |-> c[2], val |-> 1]}, {}) /\ NoNewCreation
    BY <1>2, <1>5, <1>6, <2>1, <2>2, CallToAgent
  <2>. QED BY <1>1, <1>3, <2>3, AnswersOnlyIf
<1>7. CASE k # 0
  <2>. DEFINE m == [type |-> "ReqRoomInfo", from |-> c, target |-> 0]
  <2>1. k \in Room /\ m_rooms[k] = k /\ service[k] = "running"
    BY <1>7
  <2>2. /\ m \in RoomMsg /\ m.from = c /\ m.type = "ReqRoomInfo" /\ m.type \in RoomCalls
        /\ box' = IF service[k] = "removed" THEN box ELSE [box EXCEPT ![k] = Append(@, m)]
    BY <1>2, <1>7, <2>1 DEF RoomMsg, RoomCalls, ToRoom
  <2>. HIDE DEF m
  <2>3. RoomMail(k, m)'
    BY <1>2, <1>3, <1>4, <2>1, <2>2 DEF RoomMail
  <2>4. CalledRoom(c)' = k
    BY <1>1, <1>2, <1>4 DEF CalledRoom
  <2>5. Rest(c, mgrBox', inbox', box)
    BY <1>1, <1>2, <1>7
  <2>6. CallsFit' /\ OnlyNew(c, {}, {<<k, m>>}) /\ NoNewCreation
    BY <1>5, <2>1, <2>2, <2>3, <2>4, <2>5, CallToRoom
  <2>. QED BY <2>1, <2>2, <2>6
<1>. QED BY <1>6, <1>7

LEMMA EntryAfterType ==
  ASSUME NEW k
  PROVE  EntryAfter(k) \in {i \in Room : m_rooms[i] # 0} \cup {0}
<1>. DEFINE after == {i \in Room : i > k /\ m_rooms[i] # 0}
<1>1. after \subseteq Nat
  BY RoomAssumption
<1>2. after # {} => \E i \in after : \A j \in after : i <= j
  BY <1>1, FirstNameExists
<1>. QED BY <1>2 DEF EntryAfter

LEMMA GetRoomListCalls ==
  ASSUME CallsFit, EntriesRun, GetRoomList \/ NextInList
  PROVE  /\ CallsFit' /\ NoNewCreation
         /\ \/ AnswersOnly
            \/ \E c \in Caller : \E r \in Room : \E m : m.type = "ReqRoomInfo" /\ OnlyNew(c, {}, {<<r, m>>})
<1>1. CASE GetRoomList
  <2>1. PICK k \in {i \in Room : m_rooms[i] # 0} \cup {0} :
          MgrTakes("GetRoomList") /\ ListFrom(Head(mgrBox).from, k)
    BY <1>1, EntryAfterType DEF GetRoomList
  <2>2. k \in Room \cup {0} /\ (k # 0 => m_rooms[k] = k /\ service[k] = "running")
    BY DEF EntriesRun
  <2>. QED BY <2>1, <2>2, ListFromCalls
<1>2. CASE NextInList
  <2>1. PICK k \in {i \in Room : m_rooms[i] # 0} \cup {0} :
          MgrTakes("RoomInfo") /\ ListFrom(Head(mgrBox).from, k)
    BY <1>2 DEF NextInList
  <2>2. k \in Room \cup {0} /\ (k # 0 => m_rooms[k] = k /\ service[k] = "running")
    BY DEF EntriesRun
  <2>. QED BY <2>1, <2>2, ListFromCalls
<1>. QED BY <1>1, <1>2

-----------------------------------------------------------------------------
(* Steps that are nobody's call *)

LEMMA NobodysCalls ==
  ASSUME CallsFit, Stays(NoCaller), UNCHANGED <<job, listing, inbox>>,
         QueuesOK(mgrBox, inbox, box)', AtMostOne(mgrBox, inbox, box)',
         \A m \in In(mgrBox') : m \in In(mgrBox),
         \A m \in In(mgrBox) : m.from \in Caller => m \in In(mgrBox'),
         \A r \in Room : \A m \in In(box'[r]) : m \in In(box[r]) \/ RoomMail(r, m)',
         \A r \in Room : \A m \in In(box[r]) :
           m.type \in RoomCalls => m \in In(box'[r]) \/ (service'[r] = "removed" /\ m.type # "INIT")
  PROVE  /\ CallsFit'
         /\ \A p \in Player : \A x \in In(inbox[p]) : <<p, x.slot>> # NoCaller
         /\ \A r \in Room : \A m \in In(box[r]) : m.from # NoCaller
<1>1. /\ job \in [Caller -> Job] /\ listing \in [Caller -> Room \cup {0}]
      /\ NoCaller \notin Caller /\ 0 \notin Player
      /\ QueuesOK(mgrBox, inbox, box) /\ Mails
  BY Callers DEF CallsFit
<1>2. \A p \in Player : \A x \in In(inbox[p]) : <<p, x.slot>> # NoCaller
  BY <1>1 DEF NoCaller
<1>3. \A r \in Room : \A m \in In(box[r]) : m.from # NoCaller
  <2>1. \A r \in Room : In(box[r]) \subseteq RoomMsg
    BY <1>1 DEF QueuesOK, In
  <2>. QED BY <1>1, <2>1 DEF RoomMsg
<1>4. \A m \in In(mgrBox) : m.from # NoCaller \/ m.type = "RemoveRoom"
  BY <1>1 DEF Mails, MgrMail
<1>5. job' \in [Caller -> Job] /\ listing' \in [Caller -> Room \cup {0}]
  BY <1>1
<1>6. \A m \in In(mgrBox') :
        (m \in In(mgrBox) /\ (m.from # NoCaller \/ m.type = "RemoveRoom")) \/ MgrMail(m)'
  BY <1>4
<1>7. \A p \in Player : \A x \in In(inbox'[p]) :
        (x \in In(inbox[p]) /\ <<p, x.slot>> # NoCaller) \/ AgentMail(p, x)'
  BY <1>2
<1>8. \A r \in Room : \A m \in In(box'[r]) :
        (m \in In(box[r]) /\ (m.from # NoCaller \/ m.type \in Plays)) \/ RoomMail(r, m)'
  BY <1>3
<1>9. /\ \A m \in In(mgrBox) : m.from \in Caller /\ m.from # NoCaller => m \in In(mgrBox')
      /\ \A p \in Player : \A x \in In(inbox[p]) : <<p, x.slot>> # NoCaller => x \in In(inbox'[p])
      /\ \A r \in Room : \A m \in In(box[r]) :
           m.from # NoCaller /\ m.type \in RoomCalls =>
             m \in In(box'[r]) \/ (service'[r] = "removed" /\ m.type # "INIT")
  OBVIOUS
<1>10. NoCaller \in Caller => JobFits(NoCaller)' /\ NotLost(NoCaller)'
  BY <1>1
<1>11. CallsFit'
  BY <1>1, <1>5, <1>6, <1>7, <1>8, <1>9, <1>10, CallMoves, Zenon
<1>. QED BY <1>2, <1>3, <1>11

\* Nothing is sent or taken.
LEMMA QuietCalls ==
  ASSUME CallsFit, Stays(NoCaller), UNCHANGED <<job, listing, inbox, mgrBox, box>>
  PROVE  CallsFit' /\ OnlyNew(NoCaller, {}, {}) /\ NoNewCreation
<1>1. QueuesOK(mgrBox, inbox, box)' /\ AtMostOne(mgrBox, inbox, box)'
  BY DEF CallsFit, QueuesOK, AtMostOne
<1>2. /\ CallsFit'
      /\ \A p \in Player : \A x \in In(inbox[p]) : <<p, x.slot>> # NoCaller
      /\ \A r \in Room : \A m \in In(box[r]) : m.from # NoCaller
  BY <1>1, NobodysCalls
<1>3. HowMany(mgrBox', Creations) \in Nat /\ HowMany(mgrBox', Creations) <= HowMany(mgrBox, Creations)
  <2>1. HowMany(mgrBox, Creations) \in Nat
    BY HowManyType DEF CallsFit, QueuesOK
  <2>. QED BY <2>1
<1>. QED BY <1>2, <1>3 DEF OnlyNew, NoNewCreation

\* A battle message is sent.
LEMMA MsgPlayCalls ==
  ASSUME CallsFit, NEW p \in Player, NEW type \in Plays, NEW target \in Player \cup {0},
         target = 0 <=> type # "Hit", NEW r, Born(r), ToRoom(r, type, <<p, 1>>, target),
         UNCHANGED <<vars, job, inbox, mgrVars>>
  PROVE  /\ CallsFit' /\ NoNewCreation
         /\ OnlyNew(NoCaller, {}, {<<r, [type |-> type, from |-> <<p, 1>>, target |-> target]>>})
<1>. DEFINE m == [type |-> type, from |-> <<p, 1>>, target |-> target]
<1>1. /\ OneByOne /\ r \in Room /\ QueuesOK(mgrBox, inbox, box) /\ AtMostOne(mgrBox, inbox, box)
      /\ box \in [Room -> Seq(RoomMsg)]
      /\ UNCHANGED <<service, removing, m_rooms, roomID, listing, job, inbox, mgrBox>>
  BY DEF CallsFit, QueuesOK, Born, vars, roomVars, mgrVars
<1>2. m \in RoomMsg /\ m.type \in Plays /\ (m.type = "Hit" => m.target \in Player)
  BY <1>1, Callers DEF RoomMsg
<1>3. box' = box \/ box' = [box EXCEPT ![r] = Append(@, m)]
  BY DEF ToRoom
<1>. HIDE DEF m
<1>4. Stays(NoCaller)
  BY <1>1, StaysIf
<1>5. CASE box' = box
  <2>1. CallsFit' /\ OnlyNew(NoCaller, {}, {}) /\ NoNewCreation
    BY <1>1, <1>4, <1>5, QuietCalls
  <2>. QED BY <2>1 DEF OnlyNew
<1>6. CASE box' = [box EXCEPT ![r] = Append(@, m)]
  <2>1. /\ box' \in [Room -> Seq(RoomMsg)] /\ In(box'[r]) = In(box[r]) \cup {m}
        /\ box'[r] = Append(box[r], m) /\ \A s \in Room : s # r => box'[s] = box[s]
    BY <1>1, <1>2, <1>6, QueuePut
  <2>2. QueuesOK(mgrBox, inbox, box)'
    BY <1>1, <2>1 DEF QueuesOK
  <2>3. AtMostOne(mgrBox, inbox, box)'
    <3>1. \A c \in Caller : m \notin ToRoomFor(c)
      BY <1>2 DEF ToRoomFor, RoomCalls, Plays
    <3>2. \A c \in Caller : HowMany(Append(box[r], m), ToRoomFor(c)) = HowMany(box[r], ToRoomFor(c))
      BY <1>1, <1>2, <3>1, OneMore
    <3>3. \A c \in Caller : \A s \in Room : HowMany(box'[s], ToRoomFor(c)) = HowMany(box[s], ToRoomFor(c))
      BY <2>1, <3>2
    <3>. QED BY <1>1, <3>3 DEF AtMostOne
  <2>4. RoomMail(r, m)'
    BY <1>1, <1>2 DEF RoomMail, Born, Plays
  <2>5. /\ \A s \in Room : \A n \in In(box'[s]) : n \in In(box[s]) \/ (s = r /\ n = m)
        /\ \A s \in Room : \A n \in In(box[s]) : n \in In(box'[s])
    BY <2>1
  <2>6. \A s \in Room : \A n \in In(box'[s]) : (n \in In(box[s])) \/ RoomMail(s, n)'
    BY <2>4, <2>5
  <2>7. /\ CallsFit'
        /\ \A q \in Player : \A x \in In(inbox[q]) : <<q, x.slot>> # NoCaller
        /\ \A s \in Room : \A n \in In(box[s]) : n.from # NoCaller
    BY <1>1, <1>4, <2>2, <2>3, <2>5, <2>6, NobodysCalls
  <2>8. HowMany(mgrBox', Creations) \in Nat /\ HowMany(mgrBox', Creations) <= HowMany(mgrBox, Creations)
    <3>1. HowMany(mgrBox, Creations) \in Nat
      BY <1>1, HowManyType DEF QueuesOK
    <3>. QED BY <1>1, <3>1
  <2>9. OnlyNew(NoCaller, {}, {<<r, m>>}) /\ NoNewCreation
    BY <1>1, <2>5, <2>7, <2>8 DEF OnlyNew, NoNewCreation
  <2>. QED BY <2>7, <2>9 DEF m
<1>. QED BY <1>3, <1>5, <1>6

\* A room takes a battle message.
LEMMA RoomPlayCalls ==
  ASSUME CallsFit, NEW r \in Room, box[r] # <<>>, Head(box[r]).type \in Plays, Took(r),
         Stays(NoCaller), UNCHANGED <<job, inbox, listing, mgrBox>>
  PROVE  CallsFit' /\ NoNewCreation /\ OnlyNew(NoCaller, {}, {})
<1>1. /\ QueuesOK(mgrBox, inbox, box) /\ mgrBox \in Seq(MgrMsg)
      /\ \A s \in Room : box[s] \in Seq(RoomMsg)
      /\ \A p \in Player : inbox[p] \in Seq(AgentMsg)
      /\ box \in [Room -> Seq(RoomMsg)]
      /\ box' = [box EXCEPT ![r] = Tail(@)]
  BY DEF CallsFit, QueuesOK, Took
<1>2. Tail(box[r]) \in Seq(RoomMsg) /\ In(box[r]) = {Head(box[r])} \cup In(Tail(box[r]))
  BY <1>1, QueueTaken
<1>3. /\ box' \in [Room -> Seq(RoomMsg)] /\ box'[r] = Tail(box[r])
      /\ \A s \in Room : s # r => box'[s] = box[s]
  BY <1>1, <1>2
<1>4. QueuesOK(mgrBox, inbox, box)'
  BY <1>1, <1>3 DEF QueuesOK
<1>5. AtMostOne(mgrBox, inbox, box)'
  <2>1. AtMost(mgrBox', mgrBox)
    BY <1>1, SameNumber
  <2>2. \A p \in Player : AtMost(inbox'[p], inbox[p])
    BY <1>1, SameNumber
  <2>3. AtMost(box'[r], box[r])
    BY <1>1, <1>3, FewerTaken
  <2>4. \A s \in Room : AtMost(box[s], box[s])
    BY <1>1, SameNumber
  <2>5. \A s \in Room : AtMost(box'[s], box[s])
    BY <1>3, <2>3, <2>4
  <2>. QED BY <1>4, <2>1, <2>2, <2>5, Fewer
<1>6. /\ \A s \in Room : \A n \in In(box'[s]) : n \in In(box[s])
      /\ \A s \in Room : \A n \in In(box[s]) : n.type \in RoomCalls => n \in In(box'[s])
  BY <1>2, <1>3 DEF RoomCalls, Plays
<1>7. /\ CallsFit'
      /\ \A q \in Player : \A x \in In(inbox[q]) : <<q, x.slot>> # NoCaller
      /\ \A s \in Room : \A n \in In(box[s]) : n.from # NoCaller
  BY <1>4, <1>5, <1>6, NobodysCalls
<1>8. HowMany(mgrBox', Creations) \in Nat /\ HowMany(mgrBox', Creations) <= HowMany(mgrBox, Creations)
  <2>1. HowMany(mgrBox, Creations) \in Nat
    BY <1>1, HowManyType
  <2>. QED BY <2>1
<1>. QED BY <1>6, <1>7, <1>8 DEF OnlyNew, NoNewCreation

LEMMA RemoveRoomCalls ==
  ASSUME CallsFit, RemoveRoom, EntriesRun, m_rooms \in [Room -> Room \cup {0}],
         service \in [Room -> {"unborn", "running", "removed"}]
  PROVE  CallsFit' /\ NoNewCreation /\ OnlyNew(NoCaller, {}, {})
<1>1. /\ QueuesOK(mgrBox, inbox, box) /\ mgrBox \in Seq(MgrMsg)
      /\ \A s \in Room : box[s] \in Seq(RoomMsg)
      /\ \A p \in Player : inbox[p] \in Seq(AgentMsg)
      /\ box \in [Room -> Seq(RoomMsg)]
      /\ mgrBox # <<>> /\ Head(mgrBox).type = "RemoveRoom" /\ mgrBox' = Tail(mgrBox)
      /\ UNCHANGED <<job, inbox, listing, roomID>>
      /\ Mails /\ NoCaller \notin Caller
  BY Callers DEF CallsFit, QueuesOK, RemoveRoom, MgrTakes, MgrTook, agentVars
<1>2. /\ Tail(mgrBox) \in Seq(MgrMsg) /\ In(mgrBox) = {Head(mgrBox)} \cup In(Tail(mgrBox))
      /\ Head(mgrBox) \in In(mgrBox)
  BY <1>1, QueueTaken
<1>3. PICK id \in Room : id = Head(mgrBox).id /\ Head(mgrBox).from = NoCaller
  BY <1>1, <1>2 DEF Mails, MgrMail
<1>4. IF m_rooms[id] = 0 THEN UNCHANGED <<service, removing, m_rooms, box>>
      ELSE /\ service' = [service EXCEPT ![id] = "removed"] /\ removing' = removing
           /\ m_rooms' = [m_rooms EXCEPT ![id] = 0]
           /\ box' = [box EXCEPT ![id] = <<>>]
           /\ m_rooms[id] = id /\ service[id] = "running"
  BY <1>3 DEF RemoveRoom, Destroy, Erased, EntriesRun, vars, roomVars
<1>5. Stays(NoCaller)
  BY <1>1, <1>4 DEF Stays
<1>6. /\ \A s \in Room : box'[s] = box[s] \/ (s = id /\ box'[s] = <<>> /\ m_rooms[id] # 0)
      /\ box' \in [Room -> Seq(RoomMsg)]
  <2>1. <<>> \in Seq(RoomMsg)
    OBVIOUS
  <2>. QED BY <1>1, <1>4, <2>1
<1>7. QueuesOK(mgrBox, inbox, box)'
  BY <1>1, <1>2, <1>6 DEF QueuesOK
<1>8. AtMostOne(mgrBox, inbox, box)'
  <2>1. AtMost(mgrBox', mgrBox)
    BY <1>1, FewerTaken
  <2>2. \A p \in Player : AtMost(inbox'[p], inbox[p])
    BY <1>1, SameNumber
  <2>3. \A s \in Room : AtMost(box[s], box[s])
    BY <1>1, SameNumber
  <2>4. AtMost(<<>>, box[id])
    <3>1. \A T : HowMany(box[id], T) \in Nat /\ HowMany(<<>>, T) = 0
      BY <1>1, EmptyQueue, HowManyType
    <3>2. \A n \in Nat : 0 \in Nat /\ 0 <= n
      OBVIOUS
    <3>. QED BY <3>1, <3>2 DEF AtMost
  <2>5. \A s \in Room : AtMost(box'[s], box[s])
    BY <1>6, <2>3, <2>4
  <2>. QED BY <1>7, <2>1, <2>2, <2>5, Fewer
<1>9. /\ \A m \in In(mgrBox') : m \in In(mgrBox)
      /\ \A m \in In(mgrBox) : m.from \in Caller => m \in In(mgrBox')
  BY <1>1, <1>2, <1>3
<1>10. \A s \in Room : \A m \in In(box'[s]) : m \in In(box[s])
  BY <1>6, EmptyQueue
<1>11. ASSUME NEW s \in Room, NEW m \in In(box[s]), m.type \in RoomCalls
       PROVE  m \in In(box'[s]) \/ (service'[s] = "removed" /\ m.type # "INIT")
  <2>1. CASE box'[s] = box[s]
    BY <2>1
  <2>2. CASE box'[s] # box[s]
    <3>1. s = id /\ m_rooms[s] # 0
      BY <1>6, <2>2
    <3>2. RoomMail(s, m)
      BY <1>1 DEF Mails
    <3>. QED BY <1>4, <3>1, <3>2 DEF RoomMail
  <2>. QED BY <2>1, <2>2
<1>12. /\ CallsFit'
       /\ \A q \in Player : \A x \in In(inbox[q]) : <<q, x.slot>> # NoCaller
       /\ \A s \in Room : \A n \in In(box[s]) : n.from # NoCaller
  BY <1>1, <1>5, <1>7, <1>8, <1>9, <1>10, <1>11, NobodysCalls
<1>13. HowMany(mgrBox', Creations) \in Nat /\ HowMany(mgrBox', Creations) <= HowMany(mgrBox, Creations)
  BY <1>1, FewerTaken DEF AtMost
<1>. QED BY <1>1, <1>10, <1>12, <1>13 DEF OnlyNew, NoNewCreation

-----------------------------------------------------------------------------
(* The rooms *)

\* A room takes the message of a call.
LEMMA RoomTakesRest ==
  ASSUME CallsFit, NEW r \in Room, NEW type, type \notin Plays, Takes(r, type), Took(r)
  PROVE  /\ From(r) \in Caller /\ Rest(From(r), mgrBox, inbox, box')
         /\ Head(box[r]) \in In(box[r]) /\ Head(box[r]) \in RoomMsg /\ Head(box[r]).type = type
         /\ RoomMail(r, Head(box[r])) /\ service[r] # "removed"
         /\ From(r) = <<From(r)[1], From(r)[2]>> /\ From(r)[1] \in Player
<1>1. /\ box[r] # <<>> /\ Head(box[r]).type = type /\ box' = [box EXCEPT ![r] = Tail(@)]
      /\ service[r] # "removed"
  BY DEF Takes, Took
<1>2. box[r] \in Seq(RoomMsg) /\ Mails /\ OneByOne
  BY DEF CallsFit, QueuesOK
<1>3. Head(box[r]) \in In(box[r]) /\ Head(box[r]) \in RoomMsg
  BY <1>1, <1>2, QueueTaken
<1>4. From(r) \in Caller
  BY <1>3 DEF RoomMsg, From
<1>5. Rest(From(r), mgrBox, inbox, box')
  BY <1>1, <1>4, RestRoom DEF From
<1>. QED BY <1>1, <1>2, <1>3, <1>4, <1>5, Callers DEF Mails

LEMMA RoomInitCalls ==
  ASSUME CallsFit, NEW r \in Room, RoomInit(r), service \in [Room -> {"unborn", "running", "removed"}]
  PROVE  CallsFit' /\ NoNewCreation /\ \E c \in Caller : OnlyNew(c, {}, {})
<1>1. Takes(r, "INIT") /\ Create(r) /\ ToMgr("Inited", From(r), r) /\ Took(r)
  BY DEF RoomInit
<1>2. PICK c \in Caller :
        /\ c = From(r) /\ c = Head(box[r]).from /\ Rest(c, mgrBox, inbox, box')
        /\ RoomMail(r, Head(box[r])) /\ Head(box[r]).type = "INIT"
  BY <1>1, RoomTakesRest DEF From, Plays
<1>3. PICK m \in MgrMsg : m = [type |-> "Inited", from |-> c, id |-> r]
  BY DEF MgrMsg
<1>4. /\ mgrBox' = Append(mgrBox, m) /\ m.from = c /\ m.type = "Inited" /\ m.id = r
      /\ UNCHANGED <<removing, job, inbox, m_rooms, roomID, listing>>
      /\ service' = [service EXCEPT ![r] = "running"]
      /\ service[r] = "unborn"
  BY <1>1, <1>2, <1>3 DEF RoomInit, ToMgr, Create, agentVars
<1>5. job[c].op = "CreateRoom" /\ job[c].at = "roommgr" /\ r = roomID /\ m_rooms[r] = 0
  BY <1>2 DEF RoomMail
<1>6. Stays(c)
  BY <1>4, <1>5 DEF Stays
<1>7. Concerns(c)
  <2>1. listing' \in [Caller -> Room \cup {0}]
    BY <1>4 DEF CallsFit
  <2>. QED BY <1>4, <1>6, <2>1, ConcernsIf
<1>8. MgrMail(m)'
  BY <1>4, <1>5 DEF MgrMail
<1>9. Rest(c, mgrBox, inbox', box')
  BY <1>2, <1>4
<1>. QED BY <1>4, <1>7, <1>8, <1>9, CallToMgr

LEMMA RoomReqRoomInfoCalls ==
  ASSUME CallsFit, NEW r \in Room, RoomReqRoomInfo(r)
  PROVE  CallsFit' /\ NoNewCreation /\ \E c \in Caller : OnlyNew(c, {}, {})
<1>1. Takes(r, "ReqRoomInfo") /\ ToMgr("RoomInfo", From(r), 0) /\ Took(r)
  BY DEF RoomReqRoomInfo
<1>2. PICK c \in Caller :
        /\ c = From(r) /\ c = Head(box[r]).from /\ Rest(c, mgrBox, inbox, box')
        /\ RoomMail(r, Head(box[r])) /\ Head(box[r]).type = "ReqRoomInfo"
  BY <1>1, RoomTakesRest DEF From, Plays
<1>3. PICK m \in MgrMsg : m = [type |-> "RoomInfo", from |-> c, id |-> 0]
  BY DEF MgrMsg
<1>4. /\ mgrBox' = Append(mgrBox, m) /\ m.from = c /\ m.type = "RoomInfo"
      /\ UNCHANGED <<service, removing, job, inbox, m_rooms, roomID, listing>>
  BY <1>1, <1>2, <1>3 DEF RoomReqRoomInfo, ToMgr, agentVars, vars, roomVars
<1>5. job[c].op = "GetRoomList" /\ job[c].at = "roommgr" /\ listing[c] = r
  <2>1. JobFits(c) /\ job \in [Caller -> Job]
    BY DEF CallsFit
  <2>2. job[c].op = "GetRoomList" /\ listing[c] = r
    BY <1>2 DEF RoomMail
  <2>3. job[c].at \in {"roommgr", "room"}
    BY <2>1, <2>2 DEF Job, NoJob
  <2>. QED BY <2>1, <2>2, <2>3 DEF JobFits
<1>6. Concerns(c)
  <2>1. listing' \in [Caller -> Room \cup {0}]
    BY <1>4 DEF CallsFit
  <2>2. Stays(c)
    BY <1>4, StaysIf
  <2>. QED BY <1>4, <2>1, <2>2, ConcernsIf
<1>7. MgrMail(m)'
  BY <1>4, <1>5 DEF MgrMail
<1>8. Rest(c, mgrBox, inbox', box')
  BY <1>2, <1>4
<1>. QED BY <1>4, <1>6, <1>7, <1>8, CallToMgr

\* A room answers a call.
LEMMA RoomAnswers ==
  ASSUME CallsFit, NEW r \in Room,
         NEW type \in {"AddPlayer", "RemovePlayer", "StartBattle", "GetRoomInfo"}, Takes(r, type), Took(r),
         NEW val \in {0, 1}, Answer(From(r), val),
         UNCHANGED <<service, job, listing, m_rooms, roomID>>,
         \A s \in Room : removing[s] => removing'[s],
         \/ mgrBox' = mgrBox
         \/ ToMgr("RemoveRoom", NoCaller, r) /\ removing'[r]
  PROVE  /\ CallsFit' /\ NoNewCreation
         /\ OnlyNew(From(r), {[slot |-> From(r)[2], val |-> val]}, {})
<1>1. PICK c \in Caller :
        /\ c = From(r) /\ c = Head(box[r]).from /\ Rest(c, mgrBox, inbox, box')
        /\ RoomMail(r, Head(box[r])) /\ Head(box[r]).type = type
  BY RoomTakesRest DEF From, Plays
<1>2. job[c].at = "room" /\ job[c] # NoJob /\ c = <<c[1], c[2]>>
  BY <1>1, Callers DEF RoomMail, NoJob, CallsFit
<1>3. Stays(c)
  BY DEF Stays
<1>4. Concerns(c)
  <2>1. listing' \in [Caller -> Room \cup {0}]
    BY DEF CallsFit
  <2>. QED BY <1>3, <2>1, ConcernsIf
<1>5. AgentMail(c[1], [slot |-> c[2], val |-> val])'
  BY <1>2 DEF AgentMail
<1>6. \/ mgrBox' = mgrBox
      \/ \E s \in Room : /\ removing'[s]
                         /\ mgrBox' = Append(mgrBox, [type |-> "RemoveRoom", from |-> NoCaller, id |-> s])
  BY DEF ToMgr
<1>7. Answer(c, val) /\ val \in Room \cup {0, 1}
  BY <1>1
<1>8. CallsFit' /\ OnlyNew(c, {[slot |-> c[2], val |-> val]}, {}) /\ NoNewCreation
  BY <1>1, <1>4, <1>5, <1>6, <1>7, CallToAgent
<1>. QED BY <1>1, <1>8
=============================================================================
