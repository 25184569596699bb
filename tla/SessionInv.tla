----------------------------- MODULE SessionInv -----------------------------
(***************************************************************************)
(* The inductive invariant of Session: what holds of the messages on their *)
(* way, and what the properties rest on.                                   *)
(***************************************************************************)
EXTENDS Session, Queues

\* All messages but those to the login service.
Mail == In(gatewayBox) \cup In(mgrBox) \cup In(roomBox) \cup UNION {In(agentBox[a]) : a \in Agent}

\* A connection has a descriptor as soon as anything is to be done about it, and a descriptor
\* stands for a connection that has it.
Connected ==
  /\ \A k \in Conn : link[k] = "none" => fd[k] = 0
  /\ \A k \in Conn : fd[k] = 0 => reader[k] = "done" /\ ~armed[k] /\ agent[k] = 0
  /\ \A f \in Fd : m_clients[f] # 0 => fd[m_clients[f]] = f
  /\ \A m \in Mail \cup In(loginBox) : fd[m.k] # 0

\* The agents are numbered from 1, and everything is about agents that there are.
Numbered ==
  /\ \A k \in Conn : agent[k] <= lastAgent
  /\ \A a \in Agent : a > lastAgent => player[a].name = 0
  /\ \A m \in Mail \cup In(loginBox) : m.a <= lastAgent
  /\ \A a \in Agent : \A m \in In(agentBox[a]) : m.a = a

\* The messages of a login have its name, and from INIT on they have its agent.
Complete ==
  \A m \in Mail \cup In(loginBox) :
    /\ m.type \in {"MsgLogin", "ReqLogin", "INIT", "Inited", "PlayerInfo", "Informed", "Agent",
                   "ResetAgent"} => m.n # 0
    /\ m.type \in {"INIT", "Inited", "PlayerInfo", "Informed", "Agent", "UpdateAgent",
                   "ReqKick", "Kick", "Removed", "Kicked", "ResetAgent", "Client"} => m.a # 0
    /\ m.type = "Updated" /\ m \in Mail => m.n # 0 /\ m.a # 0
    /\ m.type = "ReqKick" => m.n = 0

\* The messages that take agent a to the connection that logged in.
Grants(a) ==
  [type : {"INIT", "Inited", "PlayerInfo", "Informed", "Agent", "UpdateAgent"}, k : Conn,
   n : Name \cup {0}, a : {a}, node : 0..MaxLogins]

GrantsOnTheWay(a) ==
  HowMany(loginBox, Grants(a)) + HowMany(mgrBox, Grants(a)) + HowMany(gatewayBox, Grants(a))
  + HowMany(roomBox, Grants(a)) + HowMany(agentBox[a], Grants(a))

\* An agent is on its way to one connection, or it has arrived at one.
GrantedOnce ==
  /\ \A a \in Agent : GrantsOnTheWay(a) <= 1
  /\ \A k \in Conn : agent[k] # 0 => GrantsOnTheWay(agent[k]) = 0
  /\ \A j, k \in Conn : agent[j] # 0 /\ agent[j] = agent[k] => j = k

\* An agent arrives after it took PlayerInfo; so do its client's messages.
Ready ==
  /\ AgentsAreReady
  /\ \A m \in Mail \cup In(loginBox) :
       m.type \in {"Informed", "Agent", "UpdateAgent", "Client"} => m.a \in informed

\* A player is registered once, under its own name.
Registered ==
  /\ NamesAreRegistered
  /\ \A a \in m_agents : player[a].name # 0
  /\ \A m \in Mail : m.type \in {"INIT", "Inited"} => player[m.a].name = 0

\* A login that kicks an agent kicks one of its own name; once the entry it found was erased,
\* the name does not stand for that agent any more.
Replaced ==
  \A m \in Mail :
    m.type \in {"Kick", "Removed", "Kicked", "ResetAgent", "Updated"} /\ m.n # 0 =>
      /\ player[m.a].name = m.n
      /\ m.node <= erased[m.n]
      /\ m.node < erased[m.n] => m_players[m.n] # m.a

\* The logins that agentmgr has still to take up.
Logging ==
  [type : {"MsgLogin", "ReqLogin"}, k : Conn, n : Name \cup {0}, a : Agent \cup {0},
   node : 0..MaxLogins]

LoginsOnTheWay == HowMany(loginBox, Logging) + HowMany(mgrBox, Logging)

\* No more entries are erased than were made, and no more agents created than logins sent.
Bounded ==
  /\ \A n \in Name :
       erased[n] + (IF m_players[n] # 0 THEN 1 ELSE 0)
         <= Cardinality({a \in Agent : player[a].name # 0})
  /\ lastAgent + LoginsOnTheWay <= logins

SessionInvariant ==
  /\ TypeOK
  /\ Connected
  /\ Numbered
  /\ Complete
  /\ GrantedOnce
  /\ Ready
  /\ Registered
  /\ Replaced
  /\ Bounded
=============================================================================
