------------------------------ MODULE Session ------------------------------
(***************************************************************************)
(* Connections and logins: the gateway (src/src/service/gateway.cc), the   *)
(* login service (login.cc), the agent manager (agentMgr.cc) and the two   *)
(* messages it sends to the agents (agent.cc:37-61).                       *)
(*                                                                         *)
(* As in Lobby, a handler with calls is cut at its calls.  What it has to  *)
(* remember goes along with the call and comes back with the answer.       *)
(*                                                                         *)
(* A connection is known to the services by its descriptor only, and the   *)
(* descriptor of a closed connection is given to a later one.              *)
(***************************************************************************)
EXTENDS Integers, Sequences, FiniteSets

CONSTANTS
  Conn,       \* the connections, numbered in the order they are accepted
  Fd,         \* their descriptors
  Name,       \* the players' names
  MaxLogins,  \* bound of the model: the logins that are sent
  MaxEvents   \* bound of the model: what else clients do, or fail to do

ASSUME SessionAssumption ==
  /\ Cardinality(Conn) \in Nat
  /\ Conn = 1..Cardinality(Conn)
  /\ Fd \subseteq Nat \ {0}
  /\ Name \subseteq Nat \ {0}
  /\ MaxLogins \in Nat
  /\ MaxEvents \in Nat

VARIABLES
  \* the clients
  gone,        \* the client has disconnected
  waiting,     \* how many of its logins the client has no answer to
  logins,      \* how many logins were sent
  events,      \* how often something else happened
  names,       \* history: the names the client has sent a login for
  \* gateway: ClientState and the loop of onConnect, per connection
  link,        \* "none", "open" or "closed"
  fd,
  agent,       \* 0 before the login, and after a kick
  armed,       \* the heartbeat timer
  reader,      \* "reading", "closing" (inside handleMsg) or "done"
  m_clients,   \* descriptor -> connection, 0 for none
  \* agentmgr; a Player is named by its agent
  m_players,   \* name -> agent, 0 for no entry
  erased,      \* how many entries of m_players for a name were erased: tells its nodes apart
  m_agents,
  player,      \* name and descriptor of the agent's Player
  lastAgent,   \* the agents are numbered as they are created
  kicking,     \* connections whose login found the name in use
  \* agents
  informed,    \* the agents that have their m_player
  inRoom,      \* the agents whose player is in a room
  roomBox,     \* the calls of agents to rooms
  lost,        \* history: the connections whose close has lost its kick with a removed room
  \* the process has crashed
  down,
  \* the queues of the services
  gatewayBox, loginBox, mgrBox, agentBox

Agent == 1..MaxLogins

clientVars == <<gone, waiting, logins, events, names>>
gatewayVars == <<link, fd, agent, armed, reader, m_clients>>
mgrVars == <<m_players, erased, m_agents, player, lastAgent, kicking>>
agentVars == <<informed, inRoom, roomBox, lost>>
boxVars == <<gatewayBox, loginBox, mgrBox, agentBox>>
vars == <<clientVars, gatewayVars, mgrVars, agentVars, down, boxVars>>

\* A message, with what the suspended handlers that led to it remember: the connection and the
\* name of a login (a kick for a closed connection has no name), the agent, and which node of
\* m_players the iterator of handleReqLogin stands on.
Msg ==
  [type : {"MsgLogin", "ReqLogin", "ReqKick", "INIT", "PlayerInfo", "Kick", "Removed",
           "Client", "UpdateAgent", "ResetAgent", "Resp", "Inited", "Informed", "Kicked",
           "Updated", "Agent"},
   k : Conn, n : Name \cup {0}, a : Agent \cup {0}, node : 0..MaxLogins]

TypeOK ==
  /\ gone \in [Conn -> BOOLEAN]
  /\ waiting \in [Conn -> Nat]
  /\ logins \in 0..MaxLogins
  /\ events \in 0..MaxEvents
  /\ names \in [Conn -> SUBSET Name]
  /\ link \in [Conn -> {"none", "open", "closed"}]
  /\ fd \in [Conn -> Fd \cup {0}]
  /\ agent \in [Conn -> Agent \cup {0}]
  /\ armed \in [Conn -> BOOLEAN]
  /\ reader \in [Conn -> {"reading", "closing", "done"}]
  /\ m_clients \in [Fd -> Conn \cup {0}]
  /\ m_players \in [Name -> Agent \cup {0}]
  /\ erased \in [Name -> 0..MaxLogins]
  /\ m_agents \subseteq Agent
  /\ player \in [Agent -> [name : Name \cup {0}, fd : Fd \cup {0}]]
  /\ lastAgent \in 0..MaxLogins
  /\ kicking \subseteq Conn
  /\ informed \subseteq Agent
  /\ inRoom \subseteq Agent
  /\ lost \subseteq Conn
  /\ down \in BOOLEAN
  /\ gatewayBox \in Seq(Msg)
  /\ loginBox \in Seq(Msg)
  /\ mgrBox \in Seq(Msg)
  /\ roomBox \in Seq(Msg)
  /\ agentBox \in [Agent -> Seq(Msg)]

-----------------------------------------------------------------------------
(* Messages *)

ToGateway(m, type) == gatewayBox' = Append(gatewayBox, [m EXCEPT !.type = type])
ToLogin(m, type) == loginBox' = Append(loginBox, [m EXCEPT !.type = type])
ToMgr(m, type) == mgrBox' = Append(mgrBox, [m EXCEPT !.type = type])
ToAgent(m, type) == agentBox' = [agentBox EXCEPT ![m.a] = Append(@, [m EXCEPT !.type = type])]

\* m is the message a service takes from its queue.
Takes(box, m, type) == box # <<>> /\ m = Head(box) /\ m.type = type

-----------------------------------------------------------------------------
(* gateway: connections *)

\* A descriptor is free again when its connection is closed, though the loop of onConnect may not
\* have noticed yet.
Free(f) == \A k \in Conn : fd[k] = f => link[k] = "closed"

\* onConnect, up to the first message.
Connect(k, f) ==
  /\ link[k] = "none"
  /\ \A j \in 1..k - 1 : link[j] # "none"
  /\ Free(f)
  /\ link' = [link EXCEPT ![k] = "open"]
  /\ fd' = [fd EXCEPT ![k] = f]
  /\ armed' = [armed EXCEPT ![k] = TRUE]
  /\ reader' = [reader EXCEPT ![k] = "reading"]
  /\ m_clients' = [m_clients EXCEPT ![f] = k]
  /\ UNCHANGED <<clientVars, agent, mgrVars, agentVars, down, boxVars>>

\* Mutant: the agent of the connection is not kicked.
Close_Silent(k) ==
  /\ armed' = [armed EXCEPT ![k] = FALSE]
  /\ m_clients' = [m_clients EXCEPT ![fd[k]] = 0]
  /\ link' = [link EXCEPT ![k] = "closed"]
  /\ UNCHANGED mgrBox

\* close, up to its call, or to its end if there is none.
Close(k) ==
  /\ armed' = [armed EXCEPT ![k] = FALSE]
  /\ m_clients' = [m_clients EXCEPT ![fd[k]] = 0]
  /\ IF agent[k] = 0
     THEN link' = [link EXCEPT ![k] = "closed"] /\ UNCHANGED mgrBox
     ELSE /\ ToMgr([type |-> "ReqKick", k |-> k, n |-> 0, a |-> agent[k], node |-> 0], "ReqKick")
          /\ UNCHANGED link

\* The rest of close.
Closed(m) ==
  /\ Takes(gatewayBox, m, "Kicked")
  /\ link' = [link EXCEPT ![m.k] = "closed"]
  /\ gatewayBox' = Tail(gatewayBox)
  /\ UNCHANGED <<clientVars, fd, agent, armed, reader, m_clients, mgrVars, agentVars, down,
                 loginBox, mgrBox, agentBox>>

\* The client of k sends a message, which onConnect reads.
Sends(k) == reader[k] = "reading" /\ link[k] = "open" /\ ~gone[k]

Happens == events < MaxEvents /\ events' = events + 1

\* The client has not sent a ping for too long.
Timeout(k) ==
  /\ armed[k]
  /\ Happens
  /\ Close(k)
  /\ UNCHANGED <<gone, waiting, logins, names, fd, agent, reader, mgrVars, agentVars, down,
                 gatewayBox, loginBox, agentBox>>

\* The client sends something that does not parse.
BadMessage(k) ==
  /\ Sends(k)
  /\ Happens
  /\ reader' = [reader EXCEPT ![k] = "closing"]
  /\ Close(k)
  /\ UNCHANGED <<gone, waiting, logins, names, fd, agent, mgrVars, agentVars, down, gatewayBox,
                 loginBox, agentBox>>

\* The loop of onConnect ends, and the connection is closed, a second time if it was before
\* (conn->close() does nothing then).
ReaderEnds(k) ==
  /\ \/ reader[k] = "reading" /\ gone[k]
     \/ reader[k] \in {"reading", "closing"} /\ link[k] = "closed"
  /\ reader' = [reader EXCEPT ![k] = "done"]
  /\ Close(k)
  /\ UNCHANGED <<clientVars, fd, agent, mgrVars, agentVars, down, gatewayBox, loginBox, agentBox>>

Disconnect(k) ==
  /\ link[k] = "open" /\ ~gone[k]
  /\ Happens
  /\ gone' = [gone EXCEPT ![k] = TRUE]
  /\ UNCHANGED <<waiting, logins, names, gatewayVars, mgrVars, agentVars, down, boxVars>>

-----------------------------------------------------------------------------
(* gateway: messages *)

\* A login, also one more before the last is answered.  On a connection with an agent it goes to
\* the agent, which has no handler for it (Play).
Login(k, n) ==
  /\ Sends(k)
  /\ agent[k] = 0
  /\ logins < MaxLogins
  /\ logins' = logins + 1
  /\ names' = [names EXCEPT ![k] = @ \cup {n}]
  /\ waiting' = [waiting EXCEPT ![k] = @ + 1]
  /\ ToLogin([type |-> "MsgLogin", k |-> k, n |-> n, a |-> 0, node |-> 0], "MsgLogin")
  /\ UNCHANGED <<gone, events, gatewayVars, mgrVars, agentVars, down, gatewayBox, mgrBox, agentBox>>

\* Any message of a client that has an agent, whatever its name.
Play(k) ==
  LET m == [type |-> "Client", k |-> k, n |-> 0, a |-> agent[k], node |-> 0]
  IN  /\ Sends(k)
      /\ agent[k] # 0
      /\ Happens
      /\ ToAgent(m, "Client")
      /\ UNCHANGED <<gone, waiting, logins, names, gatewayVars, mgrVars, agentVars, down,
                     gatewayBox, loginBox, mgrBox>>

\* The answer to a login goes to whoever has the descriptor now.
HandleResp(m) ==
  /\ Takes(gatewayBox, m, "Resp")
  /\ LET j == m_clients[fd[m.k]]
     IN  waiting' = IF j = 0 THEN waiting ELSE [waiting EXCEPT ![j] = IF @ > 0 THEN @ - 1 ELSE 0]
  /\ gatewayBox' = Tail(gatewayBox)
  /\ UNCHANGED <<gone, logins, events, names, gatewayVars, mgrVars, agentVars, down, loginBox,
                 mgrBox, agentBox>>

\* Mutant: no agent is -1, as no room is.
UpdateAgent_Minus(f, a) ==
  LET j == m_clients[f]
  IN  /\ agent' = IF j = 0 THEN agent ELSE [agent EXCEPT ![j] = IF a = 0 THEN -1 ELSE a]
      /\ down' = (j = 0)

\* handleUpdaeAgent for descriptor f.  There is no check that f has a state.
UpdateAgent(f, a) ==
  LET j == m_clients[f]
  IN  /\ agent' = IF j = 0 THEN agent ELSE [agent EXCEPT ![j] = a]
      /\ down' = (j = 0)

\* The login service names the agent of a connection, or agentmgr takes it away.
HandleUpdateAgent(m) ==
  /\ \/ Takes(gatewayBox, m, "UpdateAgent") /\ UpdateAgent(fd[m.k], m.a)
        /\ ToLogin(m, "Updated") /\ UNCHANGED mgrBox
     \/ Takes(gatewayBox, m, "ResetAgent") /\ UpdateAgent(player[m.a].fd, 0)
        /\ ToMgr(m, "Updated") /\ UNCHANGED loginBox
  /\ gatewayBox' = Tail(gatewayBox)
  /\ UNCHANGED <<clientVars, link, fd, armed, reader, m_clients, mgrVars, agentVars, agentBox>>

-----------------------------------------------------------------------------
(* login *)

\* handleLogin up to its first call, or to its end if the password is wrong.
HandleLogin(m) ==
  /\ Takes(loginBox, m, "MsgLogin")
  /\ \/ ToGateway(m, "Resp") /\ UNCHANGED mgrBox
     \/ ToMgr(m, "ReqLogin") /\ UNCHANGED gatewayBox
  /\ loginBox' = Tail(loginBox)
  /\ UNCHANGED <<clientVars, gatewayVars, mgrVars, agentVars, down, agentBox>>

\* Mutant: the agent is named again instead of the answer.
LoginGoesOn_Again(m) ==
  /\ Takes(loginBox, m, "Agent") \/ Takes(loginBox, m, "Updated")
  /\ ToGateway(m, "UpdateAgent")
  /\ loginBox' = Tail(loginBox)
  /\ UNCHANGED <<clientVars, gatewayVars, mgrVars, agentVars, down, mgrBox, agentBox>>

\* After each of its two calls.
LoginGoesOn(m) ==
  /\ \/ Takes(loginBox, m, "Agent") /\ ToGateway(m, "UpdateAgent")
     \/ Takes(loginBox, m, "Updated") /\ ToGateway(m, "Resp")
  /\ loginBox' = Tail(loginBox)
  /\ UNCHANGED <<clientVars, gatewayVars, mgrVars, agentVars, down, mgrBox, agentBox>>

-----------------------------------------------------------------------------
(* agentmgr *)

\* handleReqLogin up to its first call: the agent of the name is kicked, or one is created.
\* Mutant: the agent of the name is given to the new connection, too.
HandleReqLogin_Share(m) ==
  LET a == m_players[m.n]
  IN  /\ Takes(mgrBox, m, "ReqLogin")
      /\ mgrBox' = Tail(mgrBox)
      /\ IF a # 0
         THEN /\ ToLogin([m EXCEPT !.a = a], "Agent")
              /\ UNCHANGED <<kicking, lastAgent, agentBox>>
         ELSE /\ lastAgent' = lastAgent + 1
              /\ ToAgent([m EXCEPT !.a = lastAgent + 1], "INIT")
              /\ UNCHANGED <<kicking, loginBox>>
      /\ UNCHANGED <<clientVars, gatewayVars, m_players, erased, m_agents, player, agentVars, down,
                     gatewayBox>>

HandleReqLogin(m) ==
  LET a == m_players[m.n]
  IN  /\ Takes(mgrBox, m, "ReqLogin")
      /\ mgrBox' = Tail(mgrBox)
      /\ IF a # 0
         THEN /\ kicking' = kicking \cup {m.k}
              /\ ToAgent([m EXCEPT !.a = a, !.node = erased[m.n]], "Kick")
              /\ UNCHANGED lastAgent
         ELSE /\ lastAgent' = lastAgent + 1
              /\ ToAgent([m EXCEPT !.a = lastAgent + 1], "INIT")
              /\ UNCHANGED kicking
      /\ UNCHANGED <<clientVars, gatewayVars, m_players, erased, m_agents, player, agentVars, down,
                     gatewayBox, loginBox>>

\* Mutant: login is answered without waiting for the agent.
AgentCreated_Early(m) ==
  /\ Takes(mgrBox, m, "Inited")
  /\ m_players' = [m_players EXCEPT ![m.n] = m.a]
  /\ m_agents' = m_agents \cup {m.a}
  /\ player' = [player EXCEPT ![m.a] = [name |-> m.n, fd |-> fd[m.k]]]
  /\ ToAgent(m, "PlayerInfo")
  /\ ToLogin(m, "Agent")
  /\ mgrBox' = Tail(mgrBox)
  /\ UNCHANGED <<clientVars, gatewayVars, erased, lastAgent, kicking, agentVars, down, gatewayBox>>

\* After newService: the player is registered, over any other one of the name.
AgentCreated(m) ==
  /\ Takes(mgrBox, m, "Inited")
  /\ m_players' = [m_players EXCEPT ![m.n] = m.a]
  /\ m_agents' = m_agents \cup {m.a}
  /\ player' = [player EXCEPT ![m.a] = [name |-> m.n, fd |-> fd[m.k]]]
  /\ ToAgent(m, "PlayerInfo")
  /\ mgrBox' = Tail(mgrBox)
  /\ UNCHANGED <<clientVars, gatewayVars, erased, lastAgent, kicking, agentVars, down, gatewayBox,
                 loginBox>>

\* The end of handleReqLogin for a new player.
PlayerInformed(m) ==
  /\ Takes(mgrBox, m, "Informed")
  /\ ToLogin(m, "Agent")
  /\ mgrBox' = Tail(mgrBox)
  /\ UNCHANGED <<clientVars, gatewayVars, mgrVars, agentVars, down, gatewayBox, agentBox>>

\* The entry of name n is erased, if it has one.
EraseName(n) ==
  /\ m_players' = [m_players EXCEPT ![n] = 0]
  /\ erased' = [erased EXCEPT ![n] = IF m_players[n] # 0 THEN @ + 1 ELSE @]

\* handleReqLogin for a name in use, when the agent is kicked.
AgentKicked(m) ==
  /\ Takes(mgrBox, m, "Kicked")
  /\ m.n # 0
  /\ ToGateway(m, "ResetAgent")
  /\ mgrBox' = Tail(mgrBox)
  /\ UNCHANGED <<clientVars, gatewayVars, mgrVars, agentVars, down, loginBox, agentBox>>

\* The end of it, without an answer to login.  If the node of the iterator is gone, erasing it
\* is undefined: the process ends, or goes on with any one entry lost, or none.
OldPlayerErased(m) ==
  /\ Takes(mgrBox, m, "Updated")
  /\ IF m.node = erased[m.n]
     THEN EraseName(m.n) /\ UNCHANGED down
     ELSE \/ down' = TRUE /\ UNCHANGED <<m_players, erased>>
          \/ \E n \in Name : EraseName(n) /\ UNCHANGED down
          \/ UNCHANGED <<m_players, erased, down>>
  /\ m_agents' = m_agents \ {m.a}
  /\ mgrBox' = Tail(mgrBox)
  /\ UNCHANGED <<clientVars, gatewayVars, player, lastAgent, kicking, agentVars, gatewayBox,
                 loginBox, agentBox>>

\* handleReqKick up to its call.
HandleReqKick(m) ==
  /\ Takes(mgrBox, m, "ReqKick")
  /\ ToAgent(m, "Kick")
  /\ mgrBox' = Tail(mgrBox)
  /\ UNCHANGED <<clientVars, gatewayVars, mgrVars, agentVars, down, gatewayBox, loginBox>>

\* What handleReqKick erases.  Mutant: the name stays.
Forget_Agent(a) ==
  m_agents' = m_agents \ {a} /\ UNCHANGED <<m_players, erased>>

Forget(a) ==
  /\ m_agents' = m_agents \ {a}
  /\ IF a \in m_agents THEN EraseName(player[a].name) ELSE UNCHANGED <<m_players, erased>>

\* The rest of handleReqKick.
KickedForClose(m) ==
  /\ Takes(mgrBox, m, "Kicked")
  /\ m.n = 0
  /\ Forget(m.a)
  /\ ToGateway(m, "Kicked")
  /\ mgrBox' = Tail(mgrBox)
  /\ UNCHANGED <<clientVars, gatewayVars, player, lastAgent, kicking, agentVars, down, loginBox,
                 agentBox>>

-----------------------------------------------------------------------------
(* agents and rooms; agent m.a takes the message m *)

AgentTakes(m, type) == m.a \in Agent /\ Takes(agentBox[m.a], m, type)

\* Mutant: PlayerInfo is not answered.
AgentStarts_Mute(m) ==
  /\ \/ AgentTakes(m, "INIT") /\ ToMgr(m, "Inited") /\ UNCHANGED informed
     \/ AgentTakes(m, "PlayerInfo") /\ UNCHANGED mgrBox /\ informed' = informed \cup {m.a}
  /\ agentBox' = [agentBox EXCEPT ![m.a] = Tail(@)]
  /\ UNCHANGED <<clientVars, gatewayVars, mgrVars, inRoom, roomBox, lost, down, gatewayBox,
                 loginBox>>

\* INIT and PlayerInfo are answered.
AgentStarts(m) ==
  /\ \/ AgentTakes(m, "INIT") /\ ToMgr(m, "Inited") /\ UNCHANGED informed
     \/ AgentTakes(m, "PlayerInfo") /\ ToMgr(m, "Informed") /\ informed' = informed \cup {m.a}
  /\ agentBox' = [agentBox EXCEPT ![m.a] = Tail(@)]
  /\ UNCHANGED <<clientVars, gatewayVars, mgrVars, inRoom, roomBox, lost, down, gatewayBox,
                 loginBox>>

\* A client's message may take the player into a room, or out of it (module Lobby); one that is
\* named Kick does as handleKick, and its answer goes to nobody.  The handlers use m_player.  One
\* that is named PlayerInfo brings no Player, so that the any_cast of line 38 throws.
AgentPlays(m) ==
  /\ AgentTakes(m, "Client")
  /\ agentBox' = [agentBox EXCEPT ![m.a] = Tail(@)]
  /\ \/ inRoom' \in {inRoom, inRoom \cup {m.a}, inRoom \ {m.a}} /\ down' = (m.a \notin informed)
     \/ UNCHANGED inRoom /\ down' = TRUE
  /\ UNCHANGED <<clientVars, gatewayVars, mgrVars, informed, roomBox, lost, gatewayBox, loginBox,
                 mgrBox>>

\* handleKick: a room that has the player is asked to remove it, and its answer waited for.
HandleKick(m) ==
  /\ AgentTakes(m, "Kick")
  /\ agentBox' = [agentBox EXCEPT ![m.a] = Tail(@)]
  /\ IF m.a \in informed \cap inRoom
     THEN roomBox' = Append(roomBox, m) /\ UNCHANGED mgrBox
     ELSE ToMgr(m, "Kicked") /\ UNCHANGED roomBox
  /\ UNCHANGED <<clientVars, gatewayVars, mgrVars, informed, inRoom, lost, down, gatewayBox,
                 loginBox>>

\* The room removes the player.
RemovePlayer(m) ==
  /\ Takes(roomBox, m, "Kick")
  /\ roomBox' = Tail(roomBox)
  /\ inRoom' = inRoom \ {m.a}
  /\ ToAgent(m, "Removed")
  /\ UNCHANGED <<clientVars, gatewayVars, mgrVars, informed, lost, down, gatewayBox, loginBox,
                 mgrBox>>

\* Or the room is removed first, and the message is lost with its queue (roommgr; RemoveRoom of
\* Lobby): nobody answers handleKick.  The player may have left the room before.
RoomRemoved(m) ==
  /\ Takes(roomBox, m, "Kick")
  /\ roomBox' = Tail(roomBox)
  /\ inRoom' \in {inRoom, inRoom \ {m.a}}
  /\ lost' = IF m.n = 0 THEN lost \cup {m.k} ELSE lost
  /\ UNCHANGED <<clientVars, gatewayVars, mgrVars, informed, down, boxVars>>

KickEnds(m) ==
  /\ AgentTakes(m, "Removed")
  /\ agentBox' = [agentBox EXCEPT ![m.a] = Tail(@)]
  /\ ToMgr(m, "Kicked")
  /\ UNCHANGED <<clientVars, gatewayVars, mgrVars, agentVars, down, gatewayBox, loginBox>>

-----------------------------------------------------------------------------
Init ==
  /\ gone = [k \in Conn |-> FALSE]
  /\ waiting = [k \in Conn |-> 0]
  /\ logins = 0
  /\ events = 0
  /\ names = [k \in Conn |-> {}]
  /\ link = [k \in Conn |-> "none"]
  /\ fd = [k \in Conn |-> 0]
  /\ agent = [k \in Conn |-> 0]
  /\ armed = [k \in Conn |-> FALSE]
  /\ reader = [k \in Conn |-> "done"]
  /\ m_clients = [f \in Fd |-> 0]
  /\ m_players = [n \in Name |-> 0]
  /\ erased = [n \in Name |-> 0]
  /\ m_agents = {}
  /\ player = [a \in Agent |-> [name |-> 0, fd |-> 0]]
  /\ lastAgent = 0
  /\ kicking = {}
  /\ informed = {}
  /\ inRoom = {}
  /\ lost = {}
  /\ down = FALSE
  /\ gatewayBox = <<>>
  /\ loginBox = <<>>
  /\ mgrBox = <<>>
  /\ roomBox = <<>>
  /\ agentBox = [a \in Agent |-> <<>>]

Client(k) ==
  \/ \E f \in Fd : Connect(k, f)
  \/ \E n \in Name : Login(k, n)
  \/ Play(k)
  \/ BadMessage(k)
  \/ Timeout(k)
  \/ Disconnect(k)

\* m ranges over the first messages of the queues.
Heads(box) == IF box = <<>> THEN {} ELSE {Head(box)}

Gateway == \E m \in Heads(gatewayBox) : Closed(m) \/ HandleResp(m) \/ HandleUpdateAgent(m)

LoginService == \E m \in Heads(loginBox) : HandleLogin(m) \/ LoginGoesOn(m)

AgentMgr ==
  \E m \in Heads(mgrBox) :
    \/ HandleReqLogin(m)
    \/ AgentCreated(m)
    \/ PlayerInformed(m)
    \/ AgentKicked(m)
    \/ OldPlayerErased(m)
    \/ HandleReqKick(m)
    \/ KickedForClose(m)

AgentService(a) ==
  \E m \in Heads(agentBox[a]) :
    \/ AgentStarts(m)
    \/ AgentPlays(m)
    \/ HandleKick(m)
    \/ KickEnds(m)

RoomService == \E m \in Heads(roomBox) : RemovePlayer(m) \/ RoomRemoved(m)

\* Nothing happens after a crash.
Next ==
  /\ ~down
  /\ \/ \E k \in Conn : Client(k) \/ ReaderEnds(k)
     \/ Gateway
     \/ LoginService
     \/ AgentMgr
     \/ \E a \in Agent : AgentService(a)
     \/ RoomService

\* A service with a message is scheduled (queue.h), a reader notices the end of its connection.
\* Clients and the heartbeat are not fair.
Spec ==
  /\ Init
  /\ [][Next]_vars
  /\ WF_vars(~down /\ Gateway)
  /\ WF_vars(~down /\ LoginService)
  /\ WF_vars(~down /\ AgentMgr)
  /\ WF_vars(~down /\ RoomService)
  /\ \A a \in Agent : WF_vars(~down /\ AgentService(a))
  /\ \A k \in Conn : WF_vars(~down /\ ReaderEnds(k))

-----------------------------------------------------------------------------
(* Properties *)

\* The gateway sends a client's messages to an agent only when the agent has its player, which
\* every handler of it uses unchecked (agent.cc:92, agentMgr.cc:45-50, login.cc:47-58).
AgentsAreReady == \A k \in Conn : agent[k] # 0 => agent[k] \in informed

\* Two connections never share an agent, through logins of one name at the same time, kicks and
\* descriptors that are used again (agentMgr.cc:21-40, gateway.cc:167-177).
NoSharedAgent ==
  \A f, g \in Fd :
    m_clients[f] # 0 /\ m_clients[g] # 0 /\ agent[m_clients[f]] = agent[m_clients[g]] =>
      f = g \/ agent[m_clients[f]] = 0

\* The agent a name stands for is registered under its own number, as that name's: kicks and
\* logins, cut by their calls, never leave a name that cannot be kicked (agentMgr.cc:33-42, 59-64).
NamesAreRegistered ==
  \A n \in Name :
    m_players[n] # 0 => m_players[n] \in m_agents /\ player[m_players[n]].name = n

\* When a client is gone, its connection is closed in the end and its agent is forgotten, though
\* close waits for agentmgr, agentmgr for the agent and the agent for the room, while agentmgr
\* may be waiting for the gateway (gateway.cc:194-207, agentMgr.cc:56-72).  A kick that is lost
\* with a removed room excepted.
GoneClientsAreForgotten ==
  \A k \in Conn :
    gone[k] ~> (link[k] = "closed" /\ agent[k] \notin m_agents) \/ k \in lost \/ down

\* The gateway has the connection in its list, so that an answer can reach the client.
Listed(k) == m_clients[fd[k]] = k

\* The logins of a client are answered, unless the gateway drops the connection first or a name
\* was in use (login.cc:20-64).
LoginsOfFreeNames ==
  \A k \in Conn : waiting[k] > 0 ~> (waiting[k] = 0 \/ ~Listed(k) \/ k \in kicking \/ down)

\* The logins of a client are answered, unless the gateway drops the connection first
\* (login.cc:61-64).
LoginsAreAnswered == \A k \in Conn : waiting[k] > 0 ~> (waiting[k] = 0 \/ ~Listed(k) \/ down)

\* A connection has an agent only if its own client has sent a login for the agent's player
\* (gateway.cc:139-146, 164-168).
AgentsAreForLogins == \A k \in Conn : agent[k] # 0 => player[agent[k]].name \in names[k]
=============================================================================
