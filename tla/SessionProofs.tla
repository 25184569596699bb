---------------------------- MODULE SessionProofs ----------------------------
(***************************************************************************)
(* What TLAPS proves of Session, for every set of connections, descriptors *)
(* and names and every number of logins: its types, and that connections   *)
(* get agents that are ready, not shared, and registered under their name. *)
(***************************************************************************)
EXTENDS SessionInv, QueueProofs

-----------------------------------------------------------------------------
(* Messages *)

Kinds ==
  {"MsgLogin", "ReqLogin", "ReqKick", "INIT", "PlayerInfo", "Kick", "Removed", "Client",
   "UpdateAgent", "ResetAgent", "Resp", "Inited", "Informed", "Kicked", "Updated", "Agent"}

GrantKinds == {"INIT", "Inited", "PlayerInfo", "Informed", "Agent", "UpdateAgent"}

Everywhere == Mail \cup In(loginBox)

\* 1 for a message that takes agent a to its connection, and for a login that waits for its own.
Counts(m, a) == IF m.type \in GrantKinds /\ m.a = a THEN 1 ELSE 0

Logs(m) == IF m.type \in {"MsgLogin", "ReqLogin"} THEN 1 ELSE 0

LEMMA Renamed ==
  ASSUME NEW m \in Msg, NEW t \in Kinds
  PROVE  LET e == [m EXCEPT !.type = t]
         IN  e \in Msg /\ e.type = t /\ e.k = m.k /\ e.n = m.n /\ e.a = m.a /\ e.node = m.node
BY DEF Msg, Kinds

LEMMA CountedMessage ==
  ASSUME NEW m \in Msg
  PROVE  /\ \A a \in Agent : (IF m \in Grants(a) THEN 1 ELSE 0) = Counts(m, a)
         /\ (IF m \in Logging THEN 1 ELSE 0) = Logs(m)
BY DEF Grants, Counts, Msg, GrantKinds, Logging, Logs

\* Queue s becomes queue t: the message in M is taken from it, and the one in E put into it.
Queue(s, t, M, E) ==
  /\ t \in Seq(Msg)
  /\ M \subseteq In(s)
  /\ \A x \in In(t) : x \in In(s) \/ x \in E
  /\ \A T : /\ HowMany(s, T) \in Nat
            /\ HowMany(t, T) \in Nat
            /\ HowMany(t, T) = HowMany(s, T) - (IF M \cap T = {} THEN 0 ELSE 1)
                                             + (IF E \cap T = {} THEN 0 ELSE 1)

LEMMA SameQueue ==
  ASSUME NEW s \in Seq(Msg)
  PROVE  Queue(s, s, {}, {})
BY HowManyType DEF Queue

LEMMA PutQueue ==
  ASSUME NEW s \in Seq(Msg), NEW e \in Msg
  PROVE  Queue(s, Append(s, e), {}, {e})
<1>1. \A T : ({e} \cap T = {}) <=> e \notin T
  OBVIOUS
<1>2. \A T : HowMany(s, T) \in Nat
  BY HowManyType
<1>. QED BY <1>1, <1>2, QueuePut DEF Queue

LEMMA TakeQueue ==
  ASSUME NEW s \in Seq(Msg), NEW m, NEW type, Takes(s, m, type)
  PROVE  Queue(s, Tail(s), {m}, {}) /\ m \in Msg /\ m \in In(s) /\ m.type = type
<1>1. \A T : ({m} \cap T = {}) <=> m \notin T
  OBVIOUS
<1>2. s # <<>> /\ m = Head(s) /\ m.type = type
  BY DEF Takes
<1>3. /\ Tail(s) \in Seq(Msg) /\ m \in Msg /\ m \in In(s)
      /\ \A x \in In(Tail(s)) : x \in In(s)
  BY <1>2, QueueTaken
<1>4. \A T : /\ HowMany(s, T) \in Nat
             /\ HowMany(Tail(s), T) \in Nat
             /\ HowMany(s, T) = HowMany(Tail(s), T) + IF m \in T THEN 1 ELSE 0
  BY <1>2, QueueTaken
<1>. QED BY <1>1, <1>2, <1>3, <1>4 DEF Queue

\* The same for the queues of the agents: a message knows its agent.
AgentQueues(M, E) ==
  /\ agentBox' \in [Agent -> Seq(Msg)]
  /\ \A a \in Agent :
       Queue(agentBox[a], agentBox'[a], {x \in M : x.a = a}, {x \in E : x.a = a})

LEMMA SameAgents ==
  ASSUME TypeOK, UNCHANGED agentBox
  PROVE  AgentQueues({}, {})
BY SameQueue DEF TypeOK, AgentQueues

LEMMA PutAgent ==
  ASSUME TypeOK, NEW e \in Msg, e.a \in Agent,
         agentBox' = [agentBox EXCEPT ![e.a] = Append(@, e)]
  PROVE  AgentQueues({}, {e})
<1>1. agentBox \in [Agent -> Seq(Msg)]
  BY DEF TypeOK
<1>2. agentBox' \in [Agent -> Seq(Msg)]
  BY <1>1
<1>3. ASSUME NEW a \in Agent
      PROVE  Queue(agentBox[a], agentBox'[a], {x \in {} : x.a = a}, {x \in {e} : x.a = a})
  <2>1. CASE a = e.a
    <3>1. {x \in {} : x.a = a} = {} /\ {x \in {e} : x.a = a} = {e}
      BY <2>1
    <3>2. agentBox'[a] = Append(agentBox[a], e) /\ agentBox[a] \in Seq(Msg)
      BY <1>1, <2>1
    <3>. QED BY <3>1, <3>2, PutQueue
  <2>2. CASE a # e.a
    <3>1. {x \in {} : x.a = a} = {} /\ {x \in {e} : x.a = a} = {}
      BY <2>2
    <3>2. agentBox'[a] = agentBox[a] /\ agentBox[a] \in Seq(Msg)
      BY <1>1, <2>2
    <3>. QED BY <3>1, <3>2, SameQueue
  <2>. QED BY <2>1, <2>2
<1>. QED BY <1>2, <1>3 DEF AgentQueues

LEMMA TakeAgent ==
  ASSUME TypeOK, NEW m, NEW type, AgentTakes(m, type),
         agentBox' = [agentBox EXCEPT ![m.a] = Tail(@)]
  PROVE  /\ AgentQueues({m}, {})
         /\ m \in Msg /\ m.a \in Agent /\ m \in In(agentBox[m.a]) /\ m.type = type
<1>1. agentBox \in [Agent -> Seq(Msg)] /\ m.a \in Agent /\ Takes(agentBox[m.a], m, type)
  BY DEF TypeOK, AgentTakes
<1>2. /\ Queue(agentBox[m.a], Tail(agentBox[m.a]), {m}, {})
      /\ m \in Msg /\ m \in In(agentBox[m.a]) /\ m.type = type
  BY <1>1, TakeQueue
<1>3. agentBox' \in [Agent -> Seq(Msg)]
  BY <1>1, <1>2 DEF Queue
<1>4. ASSUME NEW a \in Agent
      PROVE  Queue(agentBox[a], agentBox'[a], {x \in {m} : x.a = a}, {x \in {} : x.a = a})
  <2>1. CASE a = m.a
    <3>1. {x \in {} : x.a = a} = {} /\ {x \in {m} : x.a = a} = {m}
      BY <2>1
    <3>2. agentBox'[a] = Tail(agentBox[a])
      BY <1>1, <2>1
    <3>. QED BY <1>2, <2>1, <3>1, <3>2
  <2>2. CASE a # m.a
    <3>1. {x \in {} : x.a = a} = {} /\ {x \in {m} : x.a = a} = {}
      BY <2>2
    <3>2. agentBox'[a] = agentBox[a] /\ agentBox[a] \in Seq(Msg)
      BY <1>1, <2>2
    <3>. QED BY <3>1, <3>2, SameQueue
  <2>. QED BY <2>1, <2>2
<1>. QED BY <1>1, <1>2, <1>3, <1>4 DEF AgentQueues

-----------------------------------------------------------------------------
(* The messages of a step *)

Share(here, there, m) == IF here = there THEN {m} ELSE {}

\* A step takes m from one queue, and puts e into another one, unless they are none.
Delivers(m, from, e, to) ==
  /\ Queue(gatewayBox, gatewayBox', Share("gateway", from, m), Share("gateway", to, e))
  /\ Queue(loginBox, loginBox', Share("login", from, m), Share("login", to, e))
  /\ Queue(mgrBox, mgrBox', Share("mgr", from, m), Share("mgr", to, e))
  /\ Queue(roomBox, roomBox', Share("room", from, m), Share("room", to, e))
  /\ AgentQueues(Share("agent", from, m), Share("agent", to, e))
  /\ from = "agent" => m.a \in Agent
  /\ to = "agent" => e.a \in Agent
  /\ from # "none" => m \in Msg
  /\ to # "none" => e \in Msg

Places == {"gateway", "login", "mgr", "room", "agent", "none"}

\* What follows of the messages as a whole.
Moves(m, from, e, to) ==
  /\ from # "none" => m \in Msg /\ m \in Everywhere
  /\ from \notin {"none", "login"} => m \in Mail
  /\ to # "none" => e \in Msg
  /\ \A x \in Everywhere' : x \in Everywhere \/ (to # "none" /\ x = e)
  /\ \A x \in Mail' : x \in Mail \/ (to \notin {"none", "login"} /\ x = e)
  /\ \A a \in Agent : \A x \in In(agentBox'[a]) :
       x \in In(agentBox[a]) \/ (to = "agent" /\ x = e /\ x.a = a)
  /\ \A a \in Agent :
       /\ GrantsOnTheWay(a) \in Nat
       /\ GrantsOnTheWay(a)' \in Nat
       /\ GrantsOnTheWay(a)' = GrantsOnTheWay(a)
                               - (IF from = "none" THEN 0 ELSE Counts(m, a))
                               + (IF to = "none" THEN 0 ELSE Counts(e, a))
  /\ LoginsOnTheWay \in Nat
  /\ LoginsOnTheWay' \in Nat
  /\ LoginsOnTheWay' = LoginsOnTheWay - (IF from \in {"login", "mgr"} THEN Logs(m) ELSE 0)
                                      + (IF to \in {"login", "mgr"} THEN Logs(e) ELSE 0)

\* The queues are queues of messages again.
BoxesOK ==
  /\ gatewayBox \in Seq(Msg) /\ loginBox \in Seq(Msg) /\ mgrBox \in Seq(Msg)
  /\ roomBox \in Seq(Msg) /\ agentBox \in [Agent -> Seq(Msg)]

LEMMA Delivery ==
  ASSUME NEW from \in Places, NEW to \in Places, NEW m, NEW e, Delivers(m, from, e, to)
  PROVE  Moves(m, from, e, to) /\ BoxesOK'
<1>1. BoxesOK'
  BY DEF Delivers, Queue, AgentQueues, BoxesOK
<1>2. /\ from # "none" => m \in Msg /\ m \in Everywhere
      /\ from \notin {"none", "login"} => m \in Mail
  <2>1. CASE from = "agent"
    <3>1. m \in In(agentBox[m.a])
      <4>1. Queue(agentBox[m.a], agentBox'[m.a], {x \in {m} : x.a = m.a},
                  {x \in Share("agent", to, e) : x.a = m.a})
        BY <2>1 DEF Delivers, AgentQueues, Share
      <4>. QED BY <4>1 DEF Queue
    <3>. QED BY <2>1, <3>1 DEF Delivers, Mail, Everywhere
  <2>2. CASE from # "agent"
    BY <2>2 DEF Delivers, Mail, Everywhere, Queue, Share, Places
  <2>. QED BY <2>1, <2>2
<1>3. ASSUME NEW a \in Agent, NEW x \in In(agentBox'[a])
      PROVE  x \in In(agentBox[a]) \/ (to = "agent" /\ x = e /\ x.a = a)
  BY DEF Delivers, AgentQueues, Queue, Share
<1>4. /\ \A x \in In(gatewayBox') : x \in In(gatewayBox) \/ (to = "gateway" /\ x = e)
      /\ \A x \in In(loginBox') : x \in In(loginBox) \/ (to = "login" /\ x = e)
      /\ \A x \in In(mgrBox') : x \in In(mgrBox) \/ (to = "mgr" /\ x = e)
      /\ \A x \in In(roomBox') : x \in In(roomBox) \/ (to = "room" /\ x = e)
  BY DEF Delivers, Queue, Share
<1>5. ASSUME NEW x \in Mail'
      PROVE  x \in Mail \/ (to \notin {"none", "login"} /\ x = e)
  <2>1. CASE \E a \in Agent : x \in In(agentBox'[a])
    BY <1>3, <2>1 DEF Mail
  <2>2. CASE x \in In(gatewayBox') \/ x \in In(mgrBox') \/ x \in In(roomBox')
    BY <1>4, <2>2 DEF Mail
  <2>. QED BY <2>1, <2>2 DEF Mail
<1>6. \A x \in Everywhere' : x \in Everywhere \/ (to # "none" /\ x = e)
  BY <1>4, <1>5 DEF Everywhere
<1>7. ASSUME NEW a \in Agent
      PROVE  /\ GrantsOnTheWay(a) \in Nat
             /\ GrantsOnTheWay(a)' \in Nat
             /\ GrantsOnTheWay(a)' = GrantsOnTheWay(a)
                                     - (IF from = "none" THEN 0 ELSE Counts(m, a))
                                     + (IF to = "none" THEN 0 ELSE Counts(e, a))
  <2>. DEFINE One(x) == IF x \in Grants(a) THEN 1 ELSE 0
              In1(place) == IF place = from THEN One(m) ELSE 0
              Out1(place) == IF place = to THEN One(e) ELSE 0
  <2>1. \A place : /\ (IF Share(place, from, m) \cap Grants(a) = {} THEN 0 ELSE 1) = In1(place)
                   /\ (IF Share(place, to, e) \cap Grants(a) = {} THEN 0 ELSE 1) = Out1(place)
    BY DEF Share
  <2>2. /\ (IF {x \in Share("agent", from, m) : x.a = a} \cap Grants(a) = {} THEN 0 ELSE 1)
             = In1("agent")
        /\ (IF {x \in Share("agent", to, e) : x.a = a} \cap Grants(a) = {} THEN 0 ELSE 1)
             = Out1("agent")
    BY DEF Share, Grants
  <2>3. /\ HowMany(gatewayBox, Grants(a)) \in Nat /\ HowMany(gatewayBox', Grants(a)) \in Nat
        /\ HowMany(gatewayBox', Grants(a)) =
             HowMany(gatewayBox, Grants(a)) - In1("gateway") + Out1("gateway")
    BY <2>1 DEF Delivers, Queue
  <2>4. /\ HowMany(loginBox, Grants(a)) \in Nat /\ HowMany(loginBox', Grants(a)) \in Nat
        /\ HowMany(loginBox', Grants(a)) =
             HowMany(loginBox, Grants(a)) - In1("login") + Out1("login")
    BY <2>1 DEF Delivers, Queue
  <2>5. /\ HowMany(mgrBox, Grants(a)) \in Nat /\ HowMany(mgrBox', Grants(a)) \in Nat
        /\ HowMany(mgrBox', Grants(a)) =
             HowMany(mgrBox, Grants(a)) - In1("mgr") + Out1("mgr")
    BY <2>1 DEF Delivers, Queue
  <2>6. /\ HowMany(roomBox, Grants(a)) \in Nat /\ HowMany(roomBox', Grants(a)) \in Nat
        /\ HowMany(roomBox', Grants(a)) =
             HowMany(roomBox, Grants(a)) - In1("room") + Out1("room")
    BY <2>1 DEF Delivers, Queue
  <2>7. /\ HowMany(agentBox[a], Grants(a)) \in Nat /\ HowMany(agentBox'[a], Grants(a)) \in Nat
        /\ HowMany(agentBox'[a], Grants(a)) =
             HowMany(agentBox[a], Grants(a)) - In1("agent") + Out1("agent")
    <3>. DEFINE M == {x \in Share("agent", from, m) : x.a = a}
                E == {x \in Share("agent", to, e) : x.a = a}
    <3>1. Queue(agentBox[a], agentBox'[a], M, E)
      BY DEF Delivers, AgentQueues
    <3>. HIDE DEF M, E
    <3>2. /\ HowMany(agentBox[a], Grants(a)) \in Nat /\ HowMany(agentBox'[a], Grants(a)) \in Nat
          /\ HowMany(agentBox'[a], Grants(a)) =
               HowMany(agentBox[a], Grants(a)) - (IF M \cap Grants(a) = {} THEN 0 ELSE 1)
                                               + (IF E \cap Grants(a) = {} THEN 0 ELSE 1)
      BY <3>1 DEF Queue
    <3>. QED BY <2>2, <3>2 DEF M, E
  <2>8. /\ from # "none" => One(m) = Counts(m, a)
        /\ to # "none" => One(e) = Counts(e, a)
        /\ One(m) \in {0, 1} /\ One(e) \in {0, 1}
    BY CountedMessage DEF Delivers
  <2>. HIDE DEF One
  <2>9. /\ GrantsOnTheWay(a) = HowMany(loginBox, Grants(a)) + HowMany(mgrBox, Grants(a))
                     + HowMany(gatewayBox, Grants(a)) + HowMany(roomBox, Grants(a))
                     + HowMany(agentBox[a], Grants(a))
        /\ GrantsOnTheWay(a)' = HowMany(loginBox', Grants(a)) + HowMany(mgrBox', Grants(a))
                     + HowMany(gatewayBox', Grants(a)) + HowMany(roomBox', Grants(a))
                     + HowMany(agentBox'[a], Grants(a))
    BY DEF GrantsOnTheWay, Grants
  <2>10. /\ In1("gateway") + In1("login") + In1("mgr") + In1("room") + In1("agent") =
             (IF from = "none" THEN 0 ELSE Counts(m, a))
        /\ Out1("gateway") + Out1("login") + Out1("mgr") + Out1("room") + Out1("agent") =
             (IF to = "none" THEN 0 ELSE Counts(e, a))
        /\ \A place : In1(place) \in Int /\ Out1(place) \in Int
    BY <2>8 DEF Places
  <2>. HIDE DEF In1, Out1
  <2>. QED BY <2>3, <2>4, <2>5, <2>6, <2>7, <2>9, <2>10
<1>8. /\ LoginsOnTheWay \in Nat
      /\ LoginsOnTheWay' \in Nat
      /\ LoginsOnTheWay' = LoginsOnTheWay - (IF from \in {"login", "mgr"} THEN Logs(m) ELSE 0)
                                          + (IF to \in {"login", "mgr"} THEN Logs(e) ELSE 0)
  <2>. DEFINE One(x) == IF x \in Logging THEN 1 ELSE 0
              In1(place) == IF place = from THEN One(m) ELSE 0
              Out1(place) == IF place = to THEN One(e) ELSE 0
  <2>1. \A place : /\ (IF Share(place, from, m) \cap Logging = {} THEN 0 ELSE 1) = In1(place)
                   /\ (IF Share(place, to, e) \cap Logging = {} THEN 0 ELSE 1) = Out1(place)
    BY DEF Share
  <2>2. /\ HowMany(loginBox, Logging) \in Nat /\ HowMany(loginBox', Logging) \in Nat
        /\ HowMany(loginBox', Logging) =
             HowMany(loginBox, Logging) - In1("login") + Out1("login")
    BY <2>1 DEF Delivers, Queue
  <2>3. /\ HowMany(mgrBox, Logging) \in Nat /\ HowMany(mgrBox', Logging) \in Nat
        /\ HowMany(mgrBox', Logging) =
             HowMany(mgrBox, Logging) - In1("mgr") + Out1("mgr")
    BY <2>1 DEF Delivers, Queue
  <2>4. /\ from # "none" => One(m) = Logs(m)
        /\ to # "none" => One(e) = Logs(e)
        /\ One(m) \in {0, 1} /\ One(e) \in {0, 1}
    BY CountedMessage DEF Delivers
  <2>. HIDE DEF One
  <2>5. /\ LoginsOnTheWay = HowMany(loginBox, Logging) + HowMany(mgrBox, Logging)
        /\ LoginsOnTheWay' = HowMany(loginBox', Logging) + HowMany(mgrBox', Logging)
    BY DEF LoginsOnTheWay, Logging
  <2>. QED BY <2>2, <2>3, <2>4, <2>5 DEF Places
<1>. QED
  <2>1. to # "none" => e \in Msg
    BY DEF Delivers
  <2>. QED BY <1>1, <1>2, <1>3, <1>5, <1>6, <1>7, <1>8, <2>1 DEF Moves

-----------------------------------------------------------------------------
(* The messages that are passed on *)

\* What a service makes of a message that it passes on, and to whom.
Follows(m, from, e, to) ==
  /\ e.k = m.k /\ e.n = m.n /\ e.a = m.a /\ e.node = m.node
  /\ \/ /\ from = "login" /\ to = "gateway"
        /\ \/ m.type \in {"MsgLogin", "Updated"} /\ e.type = "Resp"
           \/ m.type = "Agent" /\ e.type = "UpdateAgent"
     \/ from = "login" /\ to = "mgr" /\ m.type = "MsgLogin" /\ e.type = "ReqLogin"
     \/ from = "mgr" /\ to = "login" /\ m.type = "Informed" /\ e.type = "Agent"
     \/ from = "mgr" /\ to = "agent" /\ m.type = "ReqKick" /\ e.type = "Kick"
     \/ from = "mgr" /\ to = "gateway" /\ m.type = "Kicked" /\ m.n # 0 /\ e.type = "ResetAgent"
     \/ /\ from = "agent" /\ to = "mgr"
        /\ \/ m.type = "INIT" /\ e.type = "Inited"
           \/ m.type = "PlayerInfo" /\ e.type = "Informed" /\ m.a \in informed'
           \/ m.type \in {"Kick", "Removed"} /\ e.type = "Kicked"
     \/ from = "agent" /\ to = "room" /\ m.type = "Kick" /\ e.type = "Kick"
     \/ from = "room" /\ to = "agent" /\ m.type = "Kick" /\ e.type = "Removed"

LEMMA RelayStep ==
  ASSUME SessionInvariant, NEW m, NEW from, NEW e, NEW to, Moves(m, from, e, to),
         Follows(m, from, e, to), UNCHANGED <<gatewayVars, mgrVars, logins>>,
         informed \subseteq informed'
  PROVE  /\ Connected' /\ Numbered' /\ Complete' /\ GrantedOnce' /\ Ready' /\ Registered'
         /\ Replaced' /\ Bounded'
<1>0. /\ TypeOK /\ Connected /\ Numbered /\ Complete /\ GrantedOnce /\ Ready /\ Registered
      /\ Replaced /\ Bounded
  BY DEF SessionInvariant
<1>1. /\ link' = link /\ fd' = fd /\ agent' = agent /\ armed' = armed /\ reader' = reader
      /\ m_clients' = m_clients /\ m_players' = m_players /\ erased' = erased
      /\ m_agents' = m_agents /\ player' = player /\ lastAgent' = lastAgent
      /\ logins' = logins
  BY DEF gatewayVars, mgrVars
<1>2. /\ \A x \in Everywhere' : x \in Everywhere \/ x = e
      /\ \A x \in Mail' : x \in Mail \/ (x = e /\ m \in Mail) \/ (x = e /\ from = "login")
      /\ \A a \in Agent : \A x \in In(agentBox'[a]) : x \in In(agentBox[a]) \/ x.a = a
      /\ m \in Everywhere /\ m \in Msg /\ e \in Msg
  BY DEF Moves, Follows
<1>3. Connected'
  BY <1>0, <1>1, <1>2 DEF Connected, Follows, Everywhere
<1>4. Numbered'
  BY <1>0, <1>1, <1>2 DEF Numbered, Follows, Everywhere
<1>5. Complete'
  BY <1>0, <1>1, <1>2 DEF Complete, Follows, Everywhere
<1>6. GrantedOnce'
  <2>1. ASSUME NEW a \in Agent
        PROVE  /\ GrantsOnTheWay(a) \in Nat /\ GrantsOnTheWay(a)' \in Nat
               /\ GrantsOnTheWay(a)' <= GrantsOnTheWay(a)
    <3>1. /\ (IF from = "none" THEN 0 ELSE Counts(m, a)) \in {0, 1}
          /\ (IF to = "none" THEN 0 ELSE Counts(e, a))
               <= (IF from = "none" THEN 0 ELSE Counts(m, a))
          /\ (IF to = "none" THEN 0 ELSE Counts(e, a)) \in {0, 1}
      BY DEF Counts, GrantKinds, Follows
    <3>. QED BY <3>1 DEF Moves
  <2>2. \A k \in Conn : agent[k] # 0 => agent[k] \in Agent
    BY <1>0 DEF TypeOK
  <2>. QED BY <1>0, <1>1, <2>1, <2>2 DEF GrantedOnce
<1>7. Ready'
  BY <1>0, <1>1, <1>2 DEF Ready, AgentsAreReady, Follows, Everywhere
<1>8. Registered'
  BY <1>0, <1>1, <1>2 DEF Registered, NamesAreRegistered, Follows
<1>9. Replaced'
  BY <1>0, <1>1, <1>2 DEF Replaced, Complete, Follows, Everywhere
<1>10. Bounded'
  <2>1. /\ (IF from \in {"login", "mgr"} THEN Logs(m) ELSE 0) \in {0, 1}
        /\ (IF to \in {"login", "mgr"} THEN Logs(e) ELSE 0)
             <= (IF from \in {"login", "mgr"} THEN Logs(m) ELSE 0)
        /\ (IF to \in {"login", "mgr"} THEN Logs(e) ELSE 0) \in {0, 1}
    BY DEF Logs, Follows
  <2>2. LoginsOnTheWay' <= LoginsOnTheWay /\ LoginsOnTheWay \in Nat /\ LoginsOnTheWay' \in Nat
    BY <2>1 DEF Moves
  <2>3. lastAgent + LoginsOnTheWay' <= logins
    <3>1. lastAgent \in Int /\ logins \in Int /\ lastAgent + LoginsOnTheWay <= logins
      BY <1>0 DEF TypeOK, Bounded
    <3>2. \A x, y, z, w \in Int : x + y <= z /\ w <= y => x + w <= z
      OBVIOUS
    <3>3. LoginsOnTheWay' <= LoginsOnTheWay /\ LoginsOnTheWay \in Int /\ LoginsOnTheWay' \in Int
      BY <2>2
    <3>. QED BY <3>1, <3>2, <3>3, Zenon
  <2>. QED BY <1>0, <1>1, <2>3 DEF Bounded
<1>. QED BY <1>3, <1>4, <1>5, <1>6, <1>7, <1>8, <1>9, <1>10

LEMMA Relay ==
  ASSUME SessionInvariant, NEW m, NEW from \in Places, NEW e, NEW to \in Places,
         Delivers(m, from, e, to), Follows(m, from, e, to),
         UNCHANGED <<clientVars, gatewayVars, mgrVars>>,
         informed \subseteq informed', informed' \subseteq Agent, inRoom' \subseteq Agent,
         lost' \subseteq Conn, down' \in BOOLEAN
  PROVE  SessionInvariant'
<1>1. Moves(m, from, e, to) /\ BoxesOK'
  BY Delivery
<1>2. TypeOK'
  BY <1>1 DEF SessionInvariant, TypeOK, clientVars, gatewayVars, mgrVars, BoxesOK
<1>3. UNCHANGED <<gatewayVars, mgrVars, logins>>
  BY DEF clientVars
<1>. QED BY <1>1, <1>2, <1>3, RelayStep DEF SessionInvariant

\* The queues that a service leaves alone.
LEMMA SameQueues ==
  ASSUME TypeOK
  PROVE  /\ gatewayBox' = gatewayBox => Queue(gatewayBox, gatewayBox', {}, {})
         /\ loginBox' = loginBox => Queue(loginBox, loginBox', {}, {})
         /\ mgrBox' = mgrBox => Queue(mgrBox, mgrBox', {}, {})
         /\ roomBox' = roomBox => Queue(roomBox, roomBox', {}, {})
         /\ agentBox' = agentBox => AgentQueues({}, {})
BY SameQueue, SameAgents DEF TypeOK

\* What a service does to the queue that it takes a message from, and to the one it puts one in.
LEMMA TakenQueues ==
  ASSUME TypeOK, NEW m, NEW type
  PROVE  /\ Takes(gatewayBox, m, type) /\ gatewayBox' = Tail(gatewayBox) =>
              Queue(gatewayBox, gatewayBox', {m}, {}) /\ m \in Msg /\ m.type = type /\ m \in Mail
         /\ Takes(loginBox, m, type) /\ loginBox' = Tail(loginBox) =>
              Queue(loginBox, loginBox', {m}, {}) /\ m \in Msg /\ m.type = type /\ m \in Everywhere
         /\ Takes(mgrBox, m, type) /\ mgrBox' = Tail(mgrBox) =>
              Queue(mgrBox, mgrBox', {m}, {}) /\ m \in Msg /\ m.type = type /\ m \in Mail
         /\ Takes(roomBox, m, type) /\ roomBox' = Tail(roomBox) =>
              Queue(roomBox, roomBox', {m}, {}) /\ m \in Msg /\ m.type = type /\ m \in Mail
         /\ AgentTakes(m, type) /\ agentBox' = [agentBox EXCEPT ![m.a] = Tail(@)] =>
              AgentQueues({m}, {}) /\ m \in Msg /\ m.type = type /\ m \in Mail /\ m.a \in Agent
<1>1. \A s \in Seq(Msg) :
        Takes(s, m, type) =>
          Queue(s, Tail(s), {m}, {}) /\ m \in Msg /\ m.type = type /\ m \in In(s)
  BY TakeQueue
<1>2. gatewayBox \in Seq(Msg) /\ loginBox \in Seq(Msg) /\ mgrBox \in Seq(Msg)
      /\ roomBox \in Seq(Msg)
  BY DEF TypeOK
<1>3. AgentTakes(m, type) /\ agentBox' = [agentBox EXCEPT ![m.a] = Tail(@)] =>
        /\ AgentQueues({m}, {})
        /\ m \in Msg /\ m.a \in Agent /\ m \in In(agentBox[m.a]) /\ m.type = type
  BY TakeAgent
<1>. QED BY <1>1, <1>2, <1>3 DEF Mail, Everywhere

LEMMA FilledQueues ==
  ASSUME TypeOK, NEW e \in Msg
  PROVE  /\ gatewayBox' = Append(gatewayBox, e) => Queue(gatewayBox, gatewayBox', {}, {e})
         /\ loginBox' = Append(loginBox, e) => Queue(loginBox, loginBox', {}, {e})
         /\ mgrBox' = Append(mgrBox, e) => Queue(mgrBox, mgrBox', {}, {e})
         /\ roomBox' = Append(roomBox, e) => Queue(roomBox, roomBox', {}, {e})
BY PutQueue DEF TypeOK

LEMMA FilledAgents ==
  ASSUME TypeOK, NEW m \in Msg, m.a \in Agent, NEW type \in Kinds, ToAgent(m, type)
  PROVE  AgentQueues({}, {[m EXCEPT !.type = type]})
<1>1. /\ [m EXCEPT !.type = type] \in Msg
      /\ [m EXCEPT !.type = type].a = m.a
  BY Renamed
<1>. DEFINE e == [m EXCEPT !.type = type]
<1>2. agentBox' = [agentBox EXCEPT ![m.a] = Append(@, e)]
  BY DEF ToAgent
<1>3. e \in Msg /\ e.a = m.a
  BY <1>1
<1>. HIDE DEF e
<1>4. agentBox' = [agentBox EXCEPT ![e.a] = Append(@, e)]
  BY <1>2, <1>3
<1>5. AgentQueues({}, {e})
  BY <1>3, <1>4, PutAgent
<1>. QED BY <1>5 DEF e

LEMMA HandleLoginKeeps ==
  ASSUME SessionInvariant, NEW m, HandleLogin(m)
  PROVE  SessionInvariant'
<1>1. TypeOK /\ Complete
  BY DEF SessionInvariant
<1>2. UNCHANGED <<clientVars, gatewayVars, mgrVars>>
  BY DEF HandleLogin, agentVars
<1>3. CASE ToGateway(m, "Resp") /\ UNCHANGED mgrBox
  <2>. DEFINE e == [m EXCEPT !.type = "Resp"]
  <2>1. /\ Queue(loginBox, loginBox', {m}, {})
        /\ m \in Msg /\ m.type = "MsgLogin" /\ m \in Everywhere
    BY <1>1, <1>3, TakenQueues DEF HandleLogin, Everywhere
  <2>2. /\ informed \subseteq informed' /\ informed' \subseteq Agent /\ inRoom' \subseteq Agent
        /\ lost' \subseteq Conn /\ down' \in BOOLEAN
    BY <1>1, <2>1, <1>3 DEF HandleLogin, TypeOK, agentVars
  <2>3. e \in Msg /\ Follows(m, "login", e, "gateway")
    BY <2>1, <1>3, Renamed DEF HandleLogin, Kinds, Follows
  <2>4. Delivers(m, "login", e, "gateway")
    <3>1. Queue(gatewayBox, gatewayBox', {}, {e})
      BY <1>1, <1>3, <2>1, <2>3, FilledQueues DEF HandleLogin, ToGateway
    <3>. QED BY <1>1, <1>3, <2>1, <2>3, <3>1, SameQueues, Renamed DEF HandleLogin, Delivers, Share, agentVars
  <2>. QED BY <1>2, <2>2, <2>3, <2>4, Relay DEF Places
<1>4. CASE ToMgr(m, "ReqLogin") /\ UNCHANGED gatewayBox
  <2>. DEFINE e == [m EXCEPT !.type = "ReqLogin"]
  <2>1. /\ Queue(loginBox, loginBox', {m}, {})
        /\ m \in Msg /\ m.type = "MsgLogin" /\ m \in Everywhere
    BY <1>1, <1>4, TakenQueues DEF HandleLogin, Everywhere
  <2>2. /\ informed \subseteq informed' /\ informed' \subseteq Agent /\ inRoom' \subseteq Agent
        /\ lost' \subseteq Conn /\ down' \in BOOLEAN
    BY <1>1, <2>1, <1>4 DEF HandleLogin, TypeOK, agentVars
  <2>3. e \in Msg /\ Follows(m, "login", e, "mgr")
    BY <2>1, <1>4, Renamed DEF HandleLogin, Kinds, Follows
  <2>4. Delivers(m, "login", e, "mgr")
    <3>1. Queue(mgrBox, mgrBox', {}, {e})
      BY <1>1, <1>4, <2>1, <2>3, FilledQueues DEF HandleLogin, ToMgr
    <3>. QED BY <1>1, <1>4, <2>1, <2>3, <3>1, SameQueues, Renamed DEF HandleLogin, Delivers, Share, agentVars
  <2>. QED BY <1>2, <2>2, <2>3, <2>4, Relay DEF Places
<1>. QED BY <1>3, <1>4 DEF HandleLogin

LEMMA LoginGoesOnKeeps ==
  ASSUME SessionInvariant, NEW m, LoginGoesOn(m)
  PROVE  SessionInvariant'
<1>1. TypeOK /\ Complete
  BY DEF SessionInvariant
<1>2. UNCHANGED <<clientVars, gatewayVars, mgrVars>>
  BY DEF LoginGoesOn, agentVars
<1>3. CASE Takes(loginBox, m, "Agent") /\ ToGateway(m, "UpdateAgent")
  <2>. DEFINE e == [m EXCEPT !.type = "UpdateAgent"]
  <2>1. /\ Queue(loginBox, loginBox', {m}, {})
        /\ m \in Msg /\ m.type = "Agent" /\ m \in Everywhere
    BY <1>1, <1>3, TakenQueues DEF LoginGoesOn, Everywhere
  <2>2. /\ informed \subseteq informed' /\ informed' \subseteq Agent /\ inRoom' \subseteq Agent
        /\ lost' \subseteq Conn /\ down' \in BOOLEAN
    BY <1>1, <2>1, <1>3 DEF LoginGoesOn, TypeOK, agentVars
  <2>3. e \in Msg /\ Follows(m, "login", e, "gateway")
    BY <2>1, <1>3, Renamed DEF LoginGoesOn, Kinds, Follows
  <2>4. Delivers(m, "login", e, "gateway")
    <3>1. Queue(gatewayBox, gatewayBox', {}, {e})
      BY <1>1, <1>3, <2>1, <2>3, FilledQueues DEF LoginGoesOn, ToGateway
    <3>. QED BY <1>1, <1>3, <2>1, <2>3, <3>1, SameQueues, Renamed DEF LoginGoesOn, Delivers, Share, agentVars
  <2>. QED BY <1>2, <2>2, <2>3, <2>4, Relay DEF Places
<1>4. CASE Takes(loginBox, m, "Updated") /\ ToGateway(m, "Resp")
  <2>. DEFINE e == [m EXCEPT !.type = "Resp"]
  <2>1. /\ Queue(loginBox, loginBox', {m}, {})
        /\ m \in Msg /\ m.type = "Updated" /\ m \in Everywhere
    BY <1>1, <1>4, TakenQueues DEF LoginGoesOn, Everywhere
  <2>2. /\ informed \subseteq informed' /\ informed' \subseteq Agent /\ inRoom' \subseteq Agent
        /\ lost' \subseteq Conn /\ down' \in BOOLEAN
    BY <1>1, <2>1, <1>4 DEF LoginGoesOn, TypeOK, agentVars
  <2>3. e \in Msg /\ Follows(m, "login", e, "gateway")
    BY <2>1, <1>4, Renamed DEF LoginGoesOn, Kinds, Follows
  <2>4. Delivers(m, "login", e, "gateway")
    <3>1. Queue(gatewayBox, gatewayBox', {}, {e})
      BY <1>1, <1>4, <2>1, <2>3, FilledQueues DEF LoginGoesOn, ToGateway
    <3>. QED BY <1>1, <1>4, <2>1, <2>3, <3>1, SameQueues, Renamed DEF LoginGoesOn, Delivers, Share, agentVars
  <2>. QED BY <1>2, <2>2, <2>3, <2>4, Relay DEF Places
<1>. QED BY <1>3, <1>4 DEF LoginGoesOn

LEMMA PlayerInformedKeeps ==
  ASSUME SessionInvariant, NEW m, PlayerInformed(m)
  PROVE  SessionInvariant'
<1>1. TypeOK /\ Complete
  BY DEF SessionInvariant
<1>2. UNCHANGED <<clientVars, gatewayVars, mgrVars>>
  BY DEF PlayerInformed, agentVars
<1>. DEFINE e == [m EXCEPT !.type = "Agent"]
<1>3. /\ Queue(mgrBox, mgrBox', {m}, {})
      /\ m \in Msg /\ m.type = "Informed" /\ m \in Everywhere
  BY <1>1, TakenQueues DEF PlayerInformed, Everywhere
<1>4. /\ informed \subseteq informed' /\ informed' \subseteq Agent /\ inRoom' \subseteq Agent
      /\ lost' \subseteq Conn /\ down' \in BOOLEAN
  BY <1>1, <1>3 DEF PlayerInformed, TypeOK, agentVars
<1>5. e \in Msg /\ Follows(m, "mgr", e, "login")
  BY <1>3, Renamed DEF PlayerInformed, Kinds, Follows
<1>6. Delivers(m, "mgr", e, "login")
  <2>1. Queue(loginBox, loginBox', {}, {e})
    BY <1>1, <1>3, <1>5, FilledQueues DEF PlayerInformed, ToLogin
  <2>. QED BY <1>1, <1>3, <1>5, <2>1, SameQueues, Renamed DEF PlayerInformed, Delivers, Share, agentVars
<1>. QED BY <1>2, <1>4, <1>5, <1>6, Relay DEF Places

LEMMA AgentKickedKeeps ==
  ASSUME SessionInvariant, NEW m, AgentKicked(m)
  PROVE  SessionInvariant'
<1>1. TypeOK /\ Complete
  BY DEF SessionInvariant
<1>2. UNCHANGED <<clientVars, gatewayVars, mgrVars>>
  BY DEF AgentKicked, agentVars
<1>. DEFINE e == [m EXCEPT !.type = "ResetAgent"]
<1>3. /\ Queue(mgrBox, mgrBox', {m}, {})
      /\ m \in Msg /\ m.type = "Kicked" /\ m \in Everywhere
  BY <1>1, TakenQueues DEF AgentKicked, Everywhere
<1>4. /\ informed \subseteq informed' /\ informed' \subseteq Agent /\ inRoom' \subseteq Agent
      /\ lost' \subseteq Conn /\ down' \in BOOLEAN
  BY <1>1, <1>3 DEF AgentKicked, TypeOK, agentVars
<1>5. e \in Msg /\ Follows(m, "mgr", e, "gateway")
  BY <1>3, Renamed DEF AgentKicked, Kinds, Follows
<1>6. Delivers(m, "mgr", e, "gateway")
  <2>1. Queue(gatewayBox, gatewayBox', {}, {e})
    BY <1>1, <1>3, <1>5, FilledQueues DEF AgentKicked, ToGateway
  <2>. QED BY <1>1, <1>3, <1>5, <2>1, SameQueues, Renamed DEF AgentKicked, Delivers, Share, agentVars
<1>. QED BY <1>2, <1>4, <1>5, <1>6, Relay DEF Places

LEMMA HandleReqKickKeeps ==
  ASSUME SessionInvariant, NEW m, HandleReqKick(m)
  PROVE  SessionInvariant'
<1>1. TypeOK /\ Complete
  BY DEF SessionInvariant
<1>2. UNCHANGED <<clientVars, gatewayVars, mgrVars>>
  BY DEF HandleReqKick, agentVars
<1>. DEFINE e == [m EXCEPT !.type = "Kick"]
<1>3. /\ Queue(mgrBox, mgrBox', {m}, {})
      /\ m \in Msg /\ m.type = "ReqKick" /\ m \in Everywhere
      /\ m.a \in Agent
  BY <1>1, TakenQueues DEF HandleReqKick, Everywhere, Complete, Msg
<1>4. /\ informed \subseteq informed' /\ informed' \subseteq Agent /\ inRoom' \subseteq Agent
      /\ lost' \subseteq Conn /\ down' \in BOOLEAN
  BY <1>1, <1>3 DEF HandleReqKick, TypeOK, agentVars
<1>5. e \in Msg /\ Follows(m, "mgr", e, "agent")
  BY <1>3, Renamed DEF HandleReqKick, Kinds, Follows
<1>6. Delivers(m, "mgr", e, "agent")
  <2>1. AgentQueues({}, {e})
    BY <1>1, <1>3, <1>5, FilledAgents DEF HandleReqKick, Kinds
  <2>. QED BY <1>1, <1>3, <1>5, <2>1, SameQueues, Renamed DEF HandleReqKick, Delivers, Share, agentVars, Kinds
<1>. QED BY <1>2, <1>4, <1>5, <1>6, Relay DEF Places

LEMMA AgentStartsKeeps ==
  ASSUME SessionInvariant, NEW m, AgentStarts(m)
  PROVE  SessionInvariant'
<1>1. TypeOK /\ Complete
  BY DEF SessionInvariant
<1>2. UNCHANGED <<clientVars, gatewayVars, mgrVars>>
  BY DEF AgentStarts, agentVars
<1>3. CASE AgentTakes(m, "INIT") /\ ToMgr(m, "Inited") /\ UNCHANGED informed
  <2>. DEFINE e == [m EXCEPT !.type = "Inited"]
  <2>1. /\ AgentQueues({m}, {})
        /\ m \in Msg /\ m.type = "INIT" /\ m \in Everywhere
        /\ m.a \in Agent
    BY <1>1, <1>3, TakenQueues DEF AgentStarts, Everywhere
  <2>2. /\ informed \subseteq informed' /\ informed' \subseteq Agent /\ inRoom' \subseteq Agent
        /\ lost' \subseteq Conn /\ down' \in BOOLEAN
    BY <1>1, <2>1, <1>3 DEF AgentStarts, TypeOK, agentVars, AgentTakes
  <2>3. e \in Msg /\ Follows(m, "agent", e, "mgr")
    BY <2>1, <1>3, Renamed DEF AgentStarts, Kinds, Follows
  <2>4. Delivers(m, "agent", e, "mgr")
    <3>1. Queue(mgrBox, mgrBox', {}, {e})
      BY <1>1, <1>3, <2>1, <2>3, FilledQueues DEF AgentStarts, ToMgr
    <3>. QED BY <1>1, <1>3, <2>1, <2>3, <3>1, SameQueues, Renamed DEF AgentStarts, Delivers, Share, agentVars
  <2>. QED BY <1>2, <2>2, <2>3, <2>4, Relay DEF Places
<1>4. CASE AgentTakes(m, "PlayerInfo") /\ ToMgr(m, "Informed") /\ informed' = informed \cup {m.a}
  <2>. DEFINE e == [m EXCEPT !.type = "Informed"]
  <2>1. /\ AgentQueues({m}, {})
        /\ m \in Msg /\ m.type = "PlayerInfo" /\ m \in Everywhere
        /\ m.a \in Agent
    BY <1>1, <1>4, TakenQueues DEF AgentStarts, Everywhere
  <2>2. /\ informed \subseteq informed' /\ informed' \subseteq Agent /\ inRoom' \subseteq Agent
        /\ lost' \subseteq Conn /\ down' \in BOOLEAN
    BY <1>1, <2>1, <1>4 DEF AgentStarts, TypeOK, agentVars, AgentTakes
  <2>3. e \in Msg /\ Follows(m, "agent", e, "mgr")
    BY <2>1, <1>4, Renamed DEF AgentStarts, Kinds, Follows
  <2>4. Delivers(m, "agent", e, "mgr")
    <3>1. Queue(mgrBox, mgrBox', {}, {e})
      BY <1>1, <1>4, <2>1, <2>3, FilledQueues DEF AgentStarts, ToMgr
    <3>. QED BY <1>1, <1>4, <2>1, <2>3, <3>1, SameQueues, Renamed DEF AgentStarts, Delivers, Share, agentVars
  <2>. QED BY <1>2, <2>2, <2>3, <2>4, Relay DEF Places
<1>. QED BY <1>3, <1>4 DEF AgentStarts

LEMMA HandleKickKeeps ==
  ASSUME SessionInvariant, NEW m, HandleKick(m)
  PROVE  SessionInvariant'
<1>1. TypeOK /\ Complete
  BY DEF SessionInvariant
<1>2. UNCHANGED <<clientVars, gatewayVars, mgrVars>>
  BY DEF HandleKick, agentVars
<1>3. CASE m.a \in informed \cap inRoom
  <2>1. /\ AgentQueues({m}, {})
        /\ m \in Msg /\ m.type = "Kick" /\ m \in Everywhere
        /\ m.a \in Agent
    BY <1>1, <1>3, TakenQueues DEF HandleKick, Everywhere
  <2>2. /\ informed \subseteq informed' /\ informed' \subseteq Agent /\ inRoom' \subseteq Agent
        /\ lost' \subseteq Conn /\ down' \in BOOLEAN
    BY <1>1, <2>1, <1>3 DEF HandleKick, TypeOK, agentVars, AgentTakes
  <2>3. m \in Msg /\ Follows(m, "agent", m, "room")
    BY <2>1, <1>3, Renamed DEF HandleKick, Kinds, Follows
  <2>4. Delivers(m, "agent", m, "room")
    <3>1. Queue(roomBox, roomBox', {}, {m})
      BY <1>1, <1>3, <2>1, <2>3, FilledQueues DEF HandleKick
    <3>. QED BY <1>1, <1>3, <2>1, <2>3, <3>1, SameQueues, Renamed DEF HandleKick, Delivers, Share, agentVars
  <2>. QED BY <1>2, <2>2, <2>3, <2>4, Relay DEF Places
<1>4. CASE m.a \notin informed \cap inRoom
  <2>. DEFINE e == [m EXCEPT !.type = "Kicked"]
  <2>1. /\ AgentQueues({m}, {})
        /\ m \in Msg /\ m.type = "Kick" /\ m \in Everywhere
        /\ m.a \in Agent
    BY <1>1, <1>4, TakenQueues DEF HandleKick, Everywhere
  <2>2. /\ informed \subseteq informed' /\ informed' \subseteq Agent /\ inRoom' \subseteq Agent
        /\ lost' \subseteq Conn /\ down' \in BOOLEAN
    BY <1>1, <2>1, <1>4 DEF HandleKick, TypeOK, agentVars, AgentTakes
  <2>3. e \in Msg /\ Follows(m, "agent", e, "mgr")
    BY <2>1, <1>4, Renamed DEF HandleKick, Kinds, Follows
  <2>4. Delivers(m, "agent", e, "mgr")
    <3>1. Queue(mgrBox, mgrBox', {}, {e})
      BY <1>1, <1>4, <2>1, <2>3, FilledQueues DEF HandleKick, ToMgr
    <3>. QED BY <1>1, <1>4, <2>1, <2>3, <3>1, SameQueues, Renamed DEF HandleKick, Delivers, Share, agentVars
  <2>. QED BY <1>2, <2>2, <2>3, <2>4, Relay DEF Places
<1>. QED BY <1>3, <1>4 DEF HandleKick

LEMMA RemovePlayerKeeps ==
  ASSUME SessionInvariant, NEW m, RemovePlayer(m)
  PROVE  SessionInvariant'
<1>1. TypeOK /\ Complete
  BY DEF SessionInvariant
<1>2. UNCHANGED <<clientVars, gatewayVars, mgrVars>>
  BY DEF RemovePlayer, agentVars
<1>. DEFINE e == [m EXCEPT !.type = "Removed"]
<1>3. /\ Queue(roomBox, roomBox', {m}, {})
      /\ m \in Msg /\ m.type = "Kick" /\ m \in Everywhere
      /\ m.a \in Agent
  BY <1>1, TakenQueues DEF RemovePlayer, Everywhere, Complete, Msg
<1>4. /\ informed \subseteq informed' /\ informed' \subseteq Agent /\ inRoom' \subseteq Agent
      /\ lost' \subseteq Conn /\ down' \in BOOLEAN
  BY <1>1, <1>3 DEF RemovePlayer, TypeOK, agentVars
<1>5. e \in Msg /\ Follows(m, "room", e, "agent")
  BY <1>3, Renamed DEF RemovePlayer, Kinds, Follows
<1>6. Delivers(m, "room", e, "agent")
  <2>1. AgentQueues({}, {e})
    BY <1>1, <1>3, <1>5, FilledAgents DEF RemovePlayer, Kinds
  <2>. QED BY <1>1, <1>3, <1>5, <2>1, SameQueues, Renamed DEF RemovePlayer, Delivers, Share, agentVars, Kinds
<1>. QED BY <1>2, <1>4, <1>5, <1>6, Relay DEF Places

LEMMA KickEndsKeeps ==
  ASSUME SessionInvariant, NEW m, KickEnds(m)
  PROVE  SessionInvariant'
<1>1. TypeOK /\ Complete
  BY DEF SessionInvariant
<1>2. UNCHANGED <<clientVars, gatewayVars, mgrVars>>
  BY DEF KickEnds, agentVars
<1>. DEFINE e == [m EXCEPT !.type = "Kicked"]
<1>3. /\ AgentQueues({m}, {})
      /\ m \in Msg /\ m.type = "Removed" /\ m \in Everywhere
      /\ m.a \in Agent
  BY <1>1, TakenQueues DEF KickEnds, Everywhere
<1>4. /\ informed \subseteq informed' /\ informed' \subseteq Agent /\ inRoom' \subseteq Agent
      /\ lost' \subseteq Conn /\ down' \in BOOLEAN
  BY <1>1, <1>3 DEF KickEnds, TypeOK, agentVars, AgentTakes
<1>5. e \in Msg /\ Follows(m, "agent", e, "mgr")
  BY <1>3, Renamed DEF KickEnds, Kinds, Follows
<1>6. Delivers(m, "agent", e, "mgr")
  <2>1. Queue(mgrBox, mgrBox', {}, {e})
    BY <1>1, <1>3, <1>5, FilledQueues DEF KickEnds, ToMgr
  <2>. QED BY <1>1, <1>3, <1>5, <2>1, SameQueues, Renamed DEF KickEnds, Delivers, Share, agentVars
<1>. QED BY <1>2, <1>4, <1>5, <1>6, Relay DEF Places

-----------------------------------------------------------------------------
(* The steps that send nothing *)

LEMMA MessagesTyped ==
  ASSUME TypeOK
  PROVE  \A x \in Everywhere : x \in Msg
<1>1. \A s \in Seq(Msg) : \A x \in In(s) : x \in Msg
  BY DEF In
<1>. QED BY <1>1 DEF Everywhere, Mail, TypeOK

LEMMA EventsBounded ==
  ASSUME TypeOK, Happens
  PROVE  events' \in 0..MaxEvents
<1>1. events \in 0..MaxEvents
  BY DEF TypeOK
<1>. QED BY <1>1, SessionAssumption DEF Happens

LEMMA NoDelivery ==
  ASSUME TypeOK, UNCHANGED <<boxVars, roomBox>>
  PROVE  \A m : Delivers(m, "none", m, "none")
BY SameQueues DEF Delivers, Share, boxVars

LEMMA Quiet ==
  ASSUME SessionInvariant, NEW m, NEW from \in Places, Moves(m, from, m, "none"),
         UNCHANGED <<agent, m_players, erased, m_agents, player, lastAgent, logins>>,
         informed \subseteq informed'
  PROVE  /\ Numbered' /\ Complete' /\ GrantedOnce' /\ Ready' /\ Registered' /\ Replaced'
         /\ Bounded'
         /\ \A x \in Everywhere' : x \in Everywhere
<1>1. /\ TypeOK /\ Numbered /\ Complete /\ GrantedOnce /\ Ready /\ Registered
      /\ Replaced /\ Bounded
  BY DEF SessionInvariant
<1>2. /\ \A x \in Everywhere' : x \in Everywhere
      /\ \A x \in Mail' : x \in Mail
      /\ \A a \in Agent : \A x \in In(agentBox'[a]) : x \in In(agentBox[a])
  BY DEF Moves
<1>3. Numbered'
  BY <1>1, <1>2 DEF Numbered, Everywhere
<1>4. Complete'
  BY <1>1, <1>2 DEF Complete, Everywhere
<1>5. GrantedOnce'
  <2>1. ASSUME NEW a \in Agent
        PROVE  /\ GrantsOnTheWay(a) \in Nat /\ GrantsOnTheWay(a)' \in Nat
               /\ GrantsOnTheWay(a)' <= GrantsOnTheWay(a)
    BY DEF Moves, Counts
  <2>2. \A k \in Conn : agent[k] # 0 => agent[k] \in Agent
    BY <1>1 DEF TypeOK
  <2>. QED BY <1>1, <2>1, <2>2 DEF GrantedOnce
<1>6. Ready'
  BY <1>1, <1>2 DEF Ready, AgentsAreReady, Everywhere
<1>7. Registered'
  BY <1>1, <1>2 DEF Registered, NamesAreRegistered
<1>8. Replaced'
  BY <1>1, <1>2 DEF Replaced
<1>9. Bounded'
  <2>1. LoginsOnTheWay' <= LoginsOnTheWay /\ LoginsOnTheWay \in Int /\ LoginsOnTheWay' \in Int
    BY DEF Moves, Logs
  <2>2. lastAgent \in Int /\ logins \in Int /\ lastAgent + LoginsOnTheWay <= logins
    BY <1>1 DEF TypeOK, Bounded
  <2>3. \A x, y, z, w \in Int : x + y <= z /\ w <= y => x + w <= z
    OBVIOUS
  <2>4. lastAgent + LoginsOnTheWay' <= logins
    BY <2>1, <2>2, <2>3, Zenon
  <2>. QED BY <1>1, <2>4 DEF Bounded
<1>. QED BY <1>2, <1>3, <1>4, <1>5, <1>6, <1>7, <1>8, <1>9

LEMMA ConnectKeeps ==
  ASSUME SessionInvariant, NEW k \in Conn, NEW f \in Fd, Connect(k, f)
  PROVE  SessionInvariant'
<1>1. TypeOK /\ Connected
  BY DEF SessionInvariant
<1>2. Moves(0, "none", 0, "none") /\ BoxesOK'
  BY <1>1, NoDelivery, Delivery DEF Connect, agentVars, Places
<1>3. TypeOK'
  BY <1>1, <1>2 DEF TypeOK, Connect, BoxesOK, clientVars, mgrVars, agentVars
<1>4. /\ Numbered' /\ Complete' /\ GrantedOnce' /\ Ready' /\ Registered' /\ Replaced' /\ Bounded'
      /\ \A x \in Everywhere' : x \in Everywhere
  BY <1>2, Quiet DEF Connect, clientVars, mgrVars, agentVars, Places
<1>5. Connected'
  <2>1. /\ fd' = [fd EXCEPT ![k] = f] /\ f # 0 /\ fd[k] = 0 /\ agent' = agent
        /\ link' = [link EXCEPT ![k] = "open"] /\ armed' = [armed EXCEPT ![k] = TRUE]
        /\ reader' = [reader EXCEPT ![k] = "reading"]
        /\ m_clients' = [m_clients EXCEPT ![f] = k]
    BY <1>1, SessionAssumption DEF Connect, Connected
  <2>2. \A x \in Everywhere : x.k \in Conn
    BY <1>1, MessagesTyped DEF Msg
  <2>3. /\ \A x \in Everywhere : x.k # k
        /\ \A g \in Fd : m_clients[g] # k
    <3>1. \A x \in Everywhere : x.k # k
      BY <1>1, <2>1 DEF Connected, Everywhere
    <3>2. ASSUME NEW g \in Fd, m_clients[g] = k
          PROVE  FALSE
      <4>1. k # 0 /\ g # 0
        BY SessionAssumption
      <4>. QED BY <1>1, <2>1, <3>2, <4>1 DEF Connected
    <3>. QED BY <3>1, <3>2
  <2>4. /\ fd \in [Conn -> Fd \cup {0}] /\ link \in [Conn -> {"none", "open", "closed"}]
        /\ armed \in [Conn -> BOOLEAN] /\ reader \in [Conn -> {"reading", "closing", "done"}]
        /\ m_clients \in [Fd -> Conn \cup {0}]
    BY <1>1 DEF TypeOK
  <2>5. /\ \A j \in Conn : link'[j] = "none" => fd'[j] = 0
        /\ \A j \in Conn : fd'[j] = 0 => reader'[j] = "done" /\ ~armed'[j] /\ agent'[j] = 0
    BY <1>1, <2>1, <2>4 DEF Connected
  <2>6. \A g \in Fd : m_clients'[g] # 0 => fd'[m_clients'[g]] = g
    BY <1>1, <2>1, <2>3, <2>4 DEF Connected
  <2>7. \A x \in Everywhere' : fd'[x.k] # 0
    BY <1>1, <1>4, <2>1, <2>2, <2>3, <2>4 DEF Connected, Everywhere
  <2>. QED BY <2>5, <2>6, <2>7 DEF Connected, Everywhere
<1>. QED BY <1>3, <1>4, <1>5 DEF SessionInvariant

LEMMA DisconnectKeeps ==
  ASSUME SessionInvariant, NEW k \in Conn, Disconnect(k)
  PROVE  SessionInvariant'
<1>1. TypeOK /\ Connected
  BY DEF SessionInvariant
<1>2. Moves(0, "none", 0, "none") /\ BoxesOK'
  BY <1>1, NoDelivery, Delivery DEF Disconnect, agentVars, Places
<1>3. TypeOK'
  BY <1>1, <1>2, EventsBounded
     DEF TypeOK, Disconnect, BoxesOK, gatewayVars, mgrVars, agentVars
<1>4. /\ Numbered' /\ Complete' /\ GrantedOnce' /\ Ready' /\ Registered' /\ Replaced' /\ Bounded'
      /\ \A x \in Everywhere' : x \in Everywhere
  BY <1>2, Quiet DEF Disconnect, gatewayVars, mgrVars, agentVars, Places
<1>5. Connected'
  BY <1>1, <1>4 DEF Connected, Everywhere, Disconnect, gatewayVars
<1>. QED BY <1>3, <1>4, <1>5 DEF SessionInvariant

LEMMA ClosedKeeps ==
  ASSUME SessionInvariant, NEW m, Closed(m)
  PROVE  SessionInvariant'
<1>1. TypeOK /\ Connected
  BY DEF SessionInvariant
<1>2. Queue(gatewayBox, gatewayBox', {m}, {}) /\ m \in Msg /\ m \in Everywhere
  BY <1>1, TakenQueues DEF Closed, Everywhere
<1>3. Delivers(m, "gateway", m, "none")
  BY <1>1, <1>2, SameQueues DEF Closed, Delivers, Share, agentVars
<1>4. Moves(m, "gateway", m, "none") /\ BoxesOK'
  BY <1>3, Delivery DEF Places
<1>5. TypeOK'
  BY <1>1, <1>2, <1>4 DEF TypeOK, Closed, BoxesOK, clientVars, mgrVars, agentVars
<1>6. /\ Numbered' /\ Complete' /\ GrantedOnce' /\ Ready' /\ Registered' /\ Replaced' /\ Bounded'
      /\ \A x \in Everywhere' : x \in Everywhere
  BY <1>4, Quiet DEF Closed, clientVars, mgrVars, agentVars, Places
<1>7. Connected'
  BY <1>1, <1>6 DEF Connected, Everywhere, Closed, TypeOK
<1>. QED BY <1>5, <1>6, <1>7 DEF SessionInvariant

LEMMA HandleRespKeeps ==
  ASSUME SessionInvariant, NEW m, HandleResp(m)
  PROVE  SessionInvariant'
<1>1. TypeOK /\ Connected
  BY DEF SessionInvariant
<1>2. Queue(gatewayBox, gatewayBox', {m}, {}) /\ m \in Msg /\ m \in Everywhere
  BY <1>1, TakenQueues DEF HandleResp, Everywhere
<1>3. Delivers(m, "gateway", m, "none")
  BY <1>1, <1>2, SameQueues DEF HandleResp, Delivers, Share, agentVars
<1>4. Moves(m, "gateway", m, "none") /\ BoxesOK'
  BY <1>3, Delivery DEF Places
<1>5. TypeOK'
  <2>1. waiting' \in [Conn -> Nat]
    <3>1. waiting \in [Conn -> Nat]
      BY <1>1 DEF TypeOK
    <3>2. PICK j : waiting' = IF j = 0 THEN waiting
                              ELSE [waiting EXCEPT ![j] = IF @ > 0 THEN @ - 1 ELSE 0]
      BY DEF HandleResp
    <3>. DEFINE less(i) == IF waiting[i] > 0 THEN waiting[i] - 1 ELSE 0
    <3>3. waiting' = waiting \/ waiting' = [i \in Conn |-> IF i = j THEN less(i) ELSE waiting[i]]
      BY <3>1, <3>2
    <3>4. \A i \in Conn : less(i) \in Nat
      BY <3>1
    <3>. HIDE DEF less
    <3>. QED BY <3>1, <3>3, <3>4
  <2>. QED BY <1>1, <1>4, <2>1 DEF TypeOK, HandleResp, BoxesOK, gatewayVars, mgrVars, agentVars
<1>6. /\ Numbered' /\ Complete' /\ GrantedOnce' /\ Ready' /\ Registered' /\ Replaced' /\ Bounded'
      /\ \A x \in Everywhere' : x \in Everywhere
  BY <1>4, Quiet DEF HandleResp, gatewayVars, mgrVars, agentVars, Places
<1>7. Connected'
  BY <1>1, <1>6 DEF Connected, Everywhere, HandleResp, gatewayVars
<1>. QED BY <1>5, <1>6, <1>7 DEF SessionInvariant

LEMMA RoomRemovedKeeps ==
  ASSUME SessionInvariant, NEW m, RoomRemoved(m)
  PROVE  SessionInvariant'
<1>1. TypeOK /\ Connected
  BY DEF SessionInvariant
<1>2. Queue(roomBox, roomBox', {m}, {}) /\ m \in Msg
  BY <1>1, TakenQueues DEF RoomRemoved
<1>3. Delivers(m, "room", m, "none")
  BY <1>1, <1>2, SameQueues DEF RoomRemoved, Delivers, Share, boxVars
<1>4. Moves(m, "room", m, "none") /\ BoxesOK'
  BY <1>3, Delivery DEF Places
<1>5. TypeOK'
  <2>1. m.k \in Conn
    BY <1>2 DEF Msg
  <2>. QED BY <1>1, <1>4, <2>1 DEF TypeOK, RoomRemoved, BoxesOK, clientVars, gatewayVars, mgrVars
<1>6. /\ Numbered' /\ Complete' /\ GrantedOnce' /\ Ready' /\ Registered' /\ Replaced' /\ Bounded'
      /\ \A x \in Everywhere' : x \in Everywhere
  BY <1>4, Quiet DEF RoomRemoved, clientVars, gatewayVars, mgrVars, Places
<1>7. Connected'
  BY <1>1, <1>6 DEF Connected, Everywhere, RoomRemoved, gatewayVars
<1>. QED BY <1>5, <1>6, <1>7 DEF SessionInvariant

LEMMA AgentPlaysKeeps ==
  ASSUME SessionInvariant, NEW m, AgentPlays(m)
  PROVE  SessionInvariant'
<1>1. TypeOK /\ Connected
  BY DEF SessionInvariant
<1>2. AgentQueues({m}, {}) /\ m \in Msg /\ m.a \in Agent
  BY <1>1, TakenQueues DEF AgentPlays
<1>3. Delivers(m, "agent", m, "none")
  <2>1. \A S : {x \in {} : x \in S} = {}
    OBVIOUS
  <2>. QED BY <1>1, <1>2, SameQueues DEF AgentPlays, Delivers, Share
<1>4. Moves(m, "agent", m, "none") /\ BoxesOK'
  BY <1>3, Delivery DEF Places
<1>5. TypeOK'
  BY <1>1, <1>2, <1>4 DEF TypeOK, AgentPlays, BoxesOK, clientVars, gatewayVars, mgrVars
<1>6. /\ Numbered' /\ Complete' /\ GrantedOnce' /\ Ready' /\ Registered' /\ Replaced' /\ Bounded'
      /\ \A x \in Everywhere' : x \in Everywhere
  BY <1>4, Quiet DEF AgentPlays, clientVars, gatewayVars, mgrVars, Places
<1>7. Connected'
  BY <1>1, <1>6 DEF Connected, Everywhere, AgentPlays, gatewayVars
<1>. QED BY <1>5, <1>6, <1>7 DEF SessionInvariant

-----------------------------------------------------------------------------
(* The messages that a connection begins *)

\* What the gateway sends of its own.
Begins(e) ==
  /\ e \in Msg
  /\ e.a <= lastAgent
  /\ \/ e.type = "MsgLogin" /\ e.n # 0
     \/ e.type = "ReqKick" /\ e.n = 0 /\ e.a # 0
     \/ e.type = "Client" /\ e.a # 0 /\ e.a \in informed

LEMMA Fresh ==
  ASSUME SessionInvariant, NEW e, NEW to \in {"login", "mgr", "agent"},
         Moves(e, "none", e, to), Begins(e), to \in {"login", "mgr"} <=> e.type # "Client",
         UNCHANGED <<agent, m_players, erased, m_agents, player, lastAgent, informed>>,
         logins' = logins + Logs(e)
  PROVE  /\ Numbered' /\ Complete' /\ GrantedOnce' /\ Ready' /\ Registered' /\ Replaced'
         /\ Bounded'
         /\ \A x \in Everywhere' : x \in Everywhere \/ x = e
<1>1. /\ TypeOK /\ Numbered /\ Complete /\ GrantedOnce /\ Ready /\ Registered
      /\ Replaced /\ Bounded
  BY DEF SessionInvariant
<1>2. /\ \A x \in Everywhere' : x \in Everywhere \/ x = e
      /\ \A x \in Mail' : x \in Mail \/ x = e
      /\ \A a \in Agent : \A x \in In(agentBox'[a]) : x \in In(agentBox[a]) \/ (x = e /\ x.a = a)
  BY DEF Moves
<1>3. Numbered'
  BY <1>1, <1>2 DEF Numbered, Everywhere, Begins
<1>4. Complete'
  BY <1>1, <1>2 DEF Complete, Everywhere, Begins
<1>5. GrantedOnce'
  <2>1. ASSUME NEW a \in Agent
        PROVE  /\ GrantsOnTheWay(a) \in Nat /\ GrantsOnTheWay(a)' \in Nat
               /\ GrantsOnTheWay(a)' <= GrantsOnTheWay(a)
    BY DEF Moves, Counts, GrantKinds, Begins
  <2>2. \A k \in Conn : agent[k] # 0 => agent[k] \in Agent
    BY <1>1 DEF TypeOK
  <2>. QED BY <1>1, <2>1, <2>2 DEF GrantedOnce
<1>6. Ready'
  BY <1>1, <1>2 DEF Ready, AgentsAreReady, Everywhere, Begins
<1>7. Registered'
  BY <1>1, <1>2 DEF Registered, NamesAreRegistered, Begins
<1>8. Replaced'
  BY <1>1, <1>2 DEF Replaced, Begins
<1>9. Bounded'
  <2>1. /\ LoginsOnTheWay \in Int /\ LoginsOnTheWay' \in Int /\ Logs(e) \in Int
        /\ LoginsOnTheWay' = LoginsOnTheWay + Logs(e)
    BY DEF Moves, Logs, Begins
  <2>2. lastAgent \in Int /\ logins \in Int /\ lastAgent + LoginsOnTheWay <= logins
    BY <1>1 DEF TypeOK, Bounded
  <2>3. \A x, y, z, d \in Int : x + y <= z => x + (y + d) <= z + d
    OBVIOUS
  <2>4. lastAgent + (LoginsOnTheWay + Logs(e)) <= logins + Logs(e)
    BY <2>1, <2>2, <2>3, Zenon
  <2>5. lastAgent + LoginsOnTheWay' <= logins'
    BY <2>1, <2>4
  <2>. QED BY <1>1, <2>5 DEF Bounded
<1>. QED BY <1>2, <1>3, <1>4, <1>5, <1>6, <1>7, <1>8, <1>9

LEMMA LoginKeeps ==
  ASSUME SessionInvariant, NEW k \in Conn, NEW n \in Name, Login(k, n)
  PROVE  SessionInvariant'
<1>. DEFINE e == [type |-> "MsgLogin", k |-> k, n |-> n, a |-> 0, node |-> 0]
<1>1. TypeOK /\ Connected
  BY DEF SessionInvariant
<1>2. e \in Msg /\ e.type = "MsgLogin" /\ e.n # 0 /\ e.a = 0 /\ e.k = k
  BY SessionAssumption DEF Msg
<1>3. ToLogin(e, "MsgLogin") /\ [e EXCEPT !.type = "MsgLogin"] = e
  BY DEF Login
<1>. HIDE DEF e
<1>4. Queue(loginBox, loginBox', {}, {e})
  BY <1>1, <1>2, <1>3, FilledQueues DEF ToLogin
<1>5. Delivers(e, "none", e, "login")
  BY <1>1, <1>2, <1>4, SameQueues DEF Login, Delivers, Share, agentVars
<1>6. Moves(e, "none", e, "login") /\ BoxesOK'
  BY <1>5, Delivery DEF Places
<1>7. logins' = logins + Logs(e) /\ logins' \in 0..MaxLogins
  <2>1. logins \in 0..MaxLogins
    BY <1>1 DEF TypeOK
  <2>. QED BY <1>2, <2>1, SessionAssumption DEF Login, Logs
<1>8. Begins(e)
  <2>1. lastAgent \in 0..MaxLogins
    BY <1>1 DEF TypeOK
  <2>. QED BY <1>2, <2>1 DEF Begins
<1>9. TypeOK'
  <2>1. waiting' \in [Conn -> Nat]
    BY <1>1 DEF TypeOK, Login
  <2>. QED BY <1>1, <1>6, <1>7, <2>1 DEF TypeOK, Login, BoxesOK, gatewayVars, mgrVars, agentVars
<1>10. /\ Numbered' /\ Complete' /\ GrantedOnce' /\ Ready' /\ Registered' /\ Replaced' /\ Bounded'
       /\ \A x \in Everywhere' : x \in Everywhere \/ x = e
  BY <1>2, <1>6, <1>7, <1>8, Fresh DEF Login, gatewayVars, mgrVars, agentVars
<1>11. Connected'
  <2>1. fd[k] # 0
    BY <1>1 DEF Connected, Login, Sends
  <2>. QED BY <1>1, <1>2, <1>10, <2>1 DEF Connected, Everywhere, Login, gatewayVars
<1>. QED BY <1>9, <1>10, <1>11 DEF SessionInvariant

LEMMA PlayKeeps ==
  ASSUME SessionInvariant, NEW k \in Conn, Play(k)
  PROVE  SessionInvariant'
<1>. DEFINE e == [type |-> "Client", k |-> k, n |-> 0, a |-> agent[k], node |-> 0]
<1>1. TypeOK /\ Connected /\ Numbered /\ Ready
  BY DEF SessionInvariant
<1>2. agent[k] \in Agent /\ agent[k] # 0
  BY <1>1 DEF TypeOK, Play
<1>3. e \in Msg /\ e.type = "Client" /\ e.n = 0 /\ e.a = agent[k] /\ e.k = k
  BY <1>2, SessionAssumption DEF Msg
<1>4. ToAgent(e, "Client") /\ [e EXCEPT !.type = "Client"] = e
  BY DEF Play
<1>. HIDE DEF e
<1>5. AgentQueues({}, {e})
  BY <1>1, <1>2, <1>3, <1>4, FilledAgents DEF Kinds
<1>6. Delivers(e, "none", e, "agent")
  BY <1>1, <1>2, <1>3, <1>5, SameQueues DEF Play, Delivers, Share, agentVars
<1>7. Moves(e, "none", e, "agent") /\ BoxesOK'
  BY <1>6, Delivery DEF Places
<1>8. logins' = logins + Logs(e)
  <2>1. logins \in 0..MaxLogins
    BY <1>1 DEF TypeOK
  <2>. QED BY <1>3, <2>1, SessionAssumption DEF Play, Logs
<1>9. Begins(e)
  BY <1>1, <1>2, <1>3 DEF Begins, Numbered, Ready, AgentsAreReady
<1>10. TypeOK'
  BY <1>1, <1>7, EventsBounded DEF TypeOK, Play, BoxesOK, gatewayVars, mgrVars, agentVars
<1>11. /\ Numbered' /\ Complete' /\ GrantedOnce' /\ Ready' /\ Registered' /\ Replaced' /\ Bounded'
       /\ \A x \in Everywhere' : x \in Everywhere \/ x = e
  BY <1>3, <1>7, <1>8, <1>9, Fresh DEF Play, gatewayVars, mgrVars, agentVars
<1>12. Connected'
  <2>1. fd[k] # 0
    BY <1>1, <1>2 DEF Connected
  <2>. QED BY <1>1, <1>3, <1>11, <2>1 DEF Connected, Everywhere, Play, gatewayVars
<1>. QED BY <1>10, <1>11, <1>12 DEF SessionInvariant

LEMMA CloseKeeps ==
  ASSUME SessionInvariant, NEW k \in Conn, Close(k), fd[k] # 0,
         UNCHANGED <<gone, waiting, logins, names, fd, agent, mgrVars, agentVars, down,
                     gatewayBox, loginBox, agentBox>>,
         events' \in 0..MaxEvents,
         reader' \in [Conn -> {"reading", "closing", "done"}],
         \A j \in Conn : j # k => reader'[j] = reader[j]
  PROVE  SessionInvariant'
<1>. DEFINE e == [type |-> "ReqKick", k |-> k, n |-> 0, a |-> agent[k], node |-> 0]
<1>1. TypeOK /\ Connected /\ Numbered
  BY DEF SessionInvariant
<1>2. /\ armed' = [armed EXCEPT ![k] = FALSE]
      /\ m_clients' = [m_clients EXCEPT ![fd[k]] = 0]
      /\ link' = link \/ link' = [link EXCEPT ![k] = "closed"]
  BY DEF Close
<1>3. /\ link' \in [Conn -> {"none", "open", "closed"}] /\ armed' \in [Conn -> BOOLEAN]
      /\ m_clients' \in [Fd -> Conn \cup {0}]
  BY <1>1, <1>2 DEF TypeOK
<1>4. BoxesOK' => TypeOK'
  BY <1>1, <1>3 DEF TypeOK, BoxesOK, mgrVars, agentVars
<1>5. (\A x \in Everywhere' : x \in Everywhere \/ x.k = k) => Connected'
  <2>1. /\ \A j \in Conn : link'[j] = "none" => link[j] = "none"
        /\ \A j \in Conn : armed'[j] => armed[j]
        /\ \A f \in Fd : m_clients'[f] # 0 => m_clients'[f] = m_clients[f]
    BY <1>1, <1>2 DEF TypeOK
  <2>. QED BY <1>1, <2>1 DEF Connected, Everywhere
<1>6. CASE agent[k] = 0
  <2>1. Moves(0, "none", 0, "none") /\ BoxesOK'
    BY <1>1, <1>6, NoDelivery, Delivery DEF Close, boxVars, agentVars, Places
  <2>2. /\ Numbered' /\ Complete' /\ GrantedOnce' /\ Ready' /\ Registered' /\ Replaced' /\ Bounded'
        /\ \A x \in Everywhere' : x \in Everywhere
    BY <2>1, Quiet DEF mgrVars, agentVars, Places
  <2>. QED BY <1>4, <1>5, <2>1, <2>2 DEF SessionInvariant
<1>7. CASE agent[k] # 0
  <2>1. agent[k] \in Agent
    BY <1>1, <1>7 DEF TypeOK
  <2>2. e \in Msg /\ e.type = "ReqKick" /\ e.n = 0 /\ e.a = agent[k] /\ e.k = k
    BY <2>1, SessionAssumption DEF Msg
  <2>3. ToMgr(e, "ReqKick") /\ [e EXCEPT !.type = "ReqKick"] = e
    BY <1>7 DEF Close
  <2>. HIDE DEF e
  <2>4. Queue(mgrBox, mgrBox', {}, {e})
    BY <1>1, <2>2, <2>3, FilledQueues DEF ToMgr
  <2>5. Delivers(e, "none", e, "mgr")
    BY <1>1, <2>2, <2>4, SameQueues DEF Delivers, Share, agentVars
  <2>6. Moves(e, "none", e, "mgr") /\ BoxesOK'
    BY <2>5, Delivery DEF Places
  <2>7. logins' = logins + Logs(e)
    <3>1. logins \in 0..MaxLogins
      BY <1>1 DEF TypeOK
    <3>. QED BY <2>2, <3>1 DEF Logs
  <2>8. Begins(e)
    BY <1>1, <1>7, <2>2 DEF Begins, Numbered
  <2>9. /\ Numbered' /\ Complete' /\ GrantedOnce' /\ Ready' /\ Registered' /\ Replaced' /\ Bounded'
        /\ \A x \in Everywhere' : x \in Everywhere \/ x = e
    BY <2>2, <2>6, <2>7, <2>8, Fresh DEF mgrVars, agentVars
  <2>. QED BY <1>4, <1>5, <2>2, <2>6, <2>9 DEF SessionInvariant
<1>. QED BY <1>6, <1>7

LEMMA ClosesKeep ==
  ASSUME SessionInvariant, NEW k \in Conn, Timeout(k) \/ BadMessage(k) \/ ReaderEnds(k)
  PROVE  SessionInvariant'
<1>1. TypeOK /\ Connected
  BY DEF SessionInvariant
<1>2. Close(k) /\ events' \in 0..MaxEvents
  <2>1. events \in 0..MaxEvents
    BY <1>1 DEF TypeOK
  <2>. QED BY <1>1, <2>1, EventsBounded DEF Timeout, BadMessage, ReaderEnds, clientVars
<1>3. fd[k] # 0
  BY <1>1 DEF Connected, Timeout, BadMessage, ReaderEnds, Sends
<1>4. /\ reader' \in [Conn -> {"reading", "closing", "done"}]
      /\ \A j \in Conn : j # k => reader'[j] = reader[j]
  BY <1>1 DEF TypeOK, Timeout, BadMessage, ReaderEnds
<1>5. UNCHANGED <<gone, waiting, logins, names, fd, agent, mgrVars, agentVars, down,
                  gatewayBox, loginBox, agentBox>>
  BY DEF Timeout, BadMessage, ReaderEnds, clientVars
<1>. QED BY <1>2, <1>3, <1>4, <1>5, CloseKeeps

-----------------------------------------------------------------------------
(* agentmgr's entries *)

\* The agents with a player are no more than the agents.
LEMMA PlayersFinite ==
  ASSUME TypeOK
  PROVE  LET A == {a \in Agent : player[a].name # 0}
         IN  IsFiniteSet(A) /\ Cardinality(A) \in 0..MaxLogins
<1>. DEFINE A == {a \in Agent : player[a].name # 0}
<1>1. IsFiniteSet(Agent) /\ Cardinality(Agent) = MaxLogins /\ MaxLogins \in Nat
  BY SessionAssumption, FS_Interval DEF Agent
<1>2. A \in SUBSET Agent
  OBVIOUS
<1>. HIDE DEF A
<1>3. IsFiniteSet(A) /\ Cardinality(A) <= MaxLogins /\ Cardinality(A) \in Nat
  BY <1>1, <1>2, FS_Subset, FS_CardinalityType
<1>4. IsFiniteSet(A) /\ Cardinality(A) \in 0..MaxLogins
  BY <1>1, <1>3
<1>. QED BY <1>4 DEF A

\* What erasing an entry, if any, does to the entries.
Erases ==
  /\ m_players' \in [Name -> Agent \cup {0}]
  /\ erased' \in [Name -> 0..MaxLogins]
  /\ \A n \in Name :
       /\ m_players'[n] \in {m_players[n], 0}
       /\ erased'[n] >= erased[n]
       /\ erased'[n] # erased[n] => m_players'[n] = 0
       /\ erased'[n] + (IF m_players'[n] # 0 THEN 1 ELSE 0)
            = erased[n] + (IF m_players[n] # 0 THEN 1 ELSE 0)

LEMMA ErasesName ==
  ASSUME TypeOK, Bounded, NEW n \in Name, EraseName(n)
  PROVE  Erases /\ m_players'[n] = 0
<1>1. /\ m_players \in [Name -> Agent \cup {0}]
      /\ erased \in [Name -> 0..MaxLogins]
  BY DEF TypeOK
<1>2. /\ m_players' = [m_players EXCEPT ![n] = 0]
      /\ erased' = [erased EXCEPT ![n] = IF m_players[n] # 0 THEN @ + 1 ELSE @]
  BY DEF EraseName
<1>3. /\ m_players' \in [Name -> Agent \cup {0}] /\ m_players'[n] = 0
      /\ \A j \in Name : j # n => m_players'[j] = m_players[j] /\ erased'[j] = erased[j]
      /\ erased'[n] = IF m_players[n] # 0 THEN erased[n] + 1 ELSE erased[n]
  BY <1>1, <1>2
<1>4. m_players[n] # 0 => erased[n] + 1 \in 0..MaxLogins
  <2>. SUFFICES ASSUME m_players[n] # 0
                PROVE  erased[n] + 1 \in 0..MaxLogins
    OBVIOUS
  <2>. DEFINE c == Cardinality({a \in Agent : player[a].name # 0})
  <2>1. erased[n] + 1 <= c
    BY DEF Bounded
  <2>2. c \in 0..MaxLogins
    BY PlayersFinite
  <2>3. erased[n] \in 0..MaxLogins /\ MaxLogins \in Nat
    BY <1>1, SessionAssumption
  <2>. HIDE DEF c
  <2>. QED BY <2>1, <2>2, <2>3
<1>5. erased' \in [Name -> 0..MaxLogins]
  BY <1>1, <1>2, <1>4
<1>6. \A j \in Name : erased[j] \in Nat /\ erased'[j] \in Nat
  BY <1>1, <1>5
<1>. QED BY <1>1, <1>3, <1>5, <1>6 DEF Erases

LEMMA ErasesNothing ==
  ASSUME TypeOK, UNCHANGED <<m_players, erased>>
  PROVE  Erases
BY DEF TypeOK, Erases

\* A step that erases entries, and forgets an agent that no name stands for any more.
LEMMA Erasing ==
  ASSUME SessionInvariant, NEW m, NEW e, NEW to \in {"none", "gateway"}, Moves(m, "mgr", e, to),
         to = "gateway" => e.k = m.k /\ e.a = m.a /\ e.n = 0 /\ e.type = "Kicked" /\ m.type = "Kicked",
         Erases, m_agents' = m_agents \ {m.a}, \A n \in Name : m_players'[n] # m.a,
         UNCHANGED <<gatewayVars, player, lastAgent, kicking, informed, logins>>
  PROVE  /\ Connected' /\ Numbered' /\ Complete' /\ GrantedOnce' /\ Ready' /\ Registered'
         /\ Replaced' /\ Bounded'
<1>1. /\ TypeOK /\ Connected /\ Numbered /\ Complete /\ GrantedOnce /\ Ready /\ Registered
      /\ Replaced /\ Bounded
  BY DEF SessionInvariant
<1>2. /\ link' = link /\ fd' = fd /\ agent' = agent /\ armed' = armed /\ reader' = reader
      /\ m_clients' = m_clients /\ player' = player /\ lastAgent' = lastAgent
      /\ informed' = informed /\ logins' = logins
  BY DEF gatewayVars
<1>3. /\ \A x \in Everywhere' : x \in Everywhere \/ (to = "gateway" /\ x = e)
      /\ \A x \in Mail' : x \in Mail \/ (to = "gateway" /\ x = e)
      /\ \A a \in Agent : \A x \in In(agentBox'[a]) : x \in In(agentBox[a])
      /\ m \in Mail /\ m \in Everywhere
  BY DEF Moves
<1>4. Connected'
  BY <1>1, <1>2, <1>3 DEF Connected, Everywhere
<1>5. Numbered'
  BY <1>1, <1>2, <1>3 DEF Numbered, Everywhere
<1>6. Complete'
  BY <1>1, <1>2, <1>3 DEF Complete, Everywhere
<1>7. GrantedOnce'
  <2>1. ASSUME NEW a \in Agent
        PROVE  /\ GrantsOnTheWay(a) \in Nat /\ GrantsOnTheWay(a)' \in Nat
               /\ GrantsOnTheWay(a)' <= GrantsOnTheWay(a)
    BY DEF Moves, Counts, GrantKinds
  <2>2. \A k \in Conn : agent[k] # 0 => agent[k] \in Agent
    BY <1>1 DEF TypeOK
  <2>. QED BY <1>1, <1>2, <2>1, <2>2 DEF GrantedOnce
<1>8. Ready'
  BY <1>1, <1>2, <1>3 DEF Ready, AgentsAreReady, Everywhere
<1>9. Registered'
  BY <1>1, <1>2, <1>3 DEF Registered, NamesAreRegistered, Erases
<1>10. Replaced'
  <2>. SUFFICES ASSUME NEW x \in Mail', x.n # 0,
                       x.type \in {"Kick", "Removed", "Kicked", "ResetAgent", "Updated"}
                PROVE  /\ player[x.a].name = x.n
                       /\ x.node <= erased'[x.n]
                       /\ x.node < erased'[x.n] => m_players'[x.n] # x.a
    BY <1>2 DEF Replaced
  <2>1. x \in Mail /\ x.a # 0
    BY <1>1, <1>3 DEF Complete
  <2>2. x \in Msg
    BY <1>1, <2>1, MessagesTyped DEF Everywhere
  <2>3. x.n \in Name /\ x.node \in Int
    BY <2>2 DEF Msg
  <2>4. erased[x.n] \in Int /\ erased'[x.n] \in Int
    BY <1>1, <2>3 DEF TypeOK, Erases
  <2>5. /\ player[x.a].name = x.n
        /\ x.node <= erased[x.n]
        /\ x.node < erased[x.n] => m_players[x.n] # x.a
    BY <1>1, <2>1 DEF Replaced
  <2>6. x.node <= erased'[x.n]
    BY <2>3, <2>4, <2>5 DEF Erases
  <2>7. CASE erased'[x.n] # erased[x.n]
    BY <2>1, <2>3, <2>5, <2>6, <2>7 DEF Erases
  <2>8. CASE erased'[x.n] = erased[x.n]
    BY <2>1, <2>3, <2>5, <2>6, <2>8 DEF Erases
  <2>. QED BY <2>7, <2>8
<1>11. Bounded'
  <2>1. LoginsOnTheWay' <= LoginsOnTheWay /\ LoginsOnTheWay \in Int /\ LoginsOnTheWay' \in Int
    BY DEF Moves, Logs
  <2>2. lastAgent \in Int /\ logins \in Int /\ lastAgent + LoginsOnTheWay <= logins
    BY <1>1 DEF TypeOK, Bounded
  <2>3. \A x, y, z, w \in Int : x + y <= z /\ w <= y => x + w <= z
    OBVIOUS
  <2>4. lastAgent + LoginsOnTheWay' <= logins
    BY <2>1, <2>2, <2>3, Zenon
  <2>5. \A n \in Name : erased'[n] + (IF m_players'[n] # 0 THEN 1 ELSE 0)
                          <= Cardinality({a \in Agent : player[a].name # 0})
    BY <1>1 DEF Erases, Bounded
  <2>. QED BY <1>2, <2>4, <2>5 DEF Bounded
<1>. QED BY <1>4, <1>5, <1>6, <1>7, <1>8, <1>9, <1>10, <1>11

LEMMA OldPlayerErasedKeeps ==
  ASSUME SessionInvariant, NEW m, OldPlayerErased(m)
  PROVE  SessionInvariant'
<1>1. TypeOK /\ Complete /\ Replaced /\ Registered /\ Bounded
  BY DEF SessionInvariant
<1>2. Queue(mgrBox, mgrBox', {m}, {}) /\ m \in Msg /\ m.type = "Updated" /\ m \in Mail
  BY <1>1, TakenQueues DEF OldPlayerErased
<1>3. Delivers(m, "mgr", m, "none")
  BY <1>1, <1>2, SameQueues DEF OldPlayerErased, Delivers, Share, agentVars
<1>4. Moves(m, "mgr", m, "none") /\ BoxesOK'
  BY <1>3, Delivery DEF Places
<1>5. /\ m.n # 0 /\ m.a # 0 /\ m.n \in Name /\ m.node \in Int
      /\ player[m.a].name = m.n
      /\ m.node <= erased[m.n]
      /\ m.node < erased[m.n] => m_players[m.n] # m.a
  BY <1>1, <1>2 DEF Complete, Replaced, Everywhere, Msg
<1>6. \A n \in Name : m_players[n] = m.a => n = m.n
  BY <1>1, <1>5 DEF Registered, NamesAreRegistered
<1>7. Erases /\ \A n \in Name : m_players'[n] # m.a
  <2>1. CASE m.node = erased[m.n]
    <3>1. EraseName(m.n)
      BY <2>1 DEF OldPlayerErased
    <3>2. Erases /\ m_players'[m.n] = 0
      BY <1>1, <1>5, <3>1, ErasesName
    <3>. QED BY <1>5, <1>6, <3>2 DEF Erases
  <2>2. CASE m.node # erased[m.n]
    <3>1. erased[m.n] \in Int
      BY <1>1, <1>5 DEF TypeOK
    <3>2. m_players[m.n] # m.a
      BY <1>5, <2>2, <3>1
    <3>3. Erases
      BY <1>1, <2>2, ErasesName, ErasesNothing DEF OldPlayerErased
    <3>. QED BY <1>5, <1>6, <3>2, <3>3 DEF Erases
  <2>. QED BY <2>1, <2>2
<1>8. down' \in BOOLEAN
  BY <1>1 DEF OldPlayerErased, TypeOK
<1>9. TypeOK'
  BY <1>1, <1>4, <1>7, <1>8
     DEF TypeOK, OldPlayerErased, BoxesOK, clientVars, gatewayVars, agentVars, Erases
<1>10. /\ Connected' /\ Numbered' /\ Complete' /\ GrantedOnce' /\ Ready' /\ Registered'
       /\ Replaced' /\ Bounded'
  BY <1>4, <1>7, Erasing DEF OldPlayerErased, clientVars, agentVars
<1>. QED BY <1>9, <1>10 DEF SessionInvariant

LEMMA KickedForCloseKeeps ==
  ASSUME SessionInvariant, NEW m, KickedForClose(m)
  PROVE  SessionInvariant'
<1>. DEFINE e == [m EXCEPT !.type = "Kicked"]
<1>1. TypeOK /\ Complete /\ Registered /\ Bounded
  BY DEF SessionInvariant
<1>2. Queue(mgrBox, mgrBox', {m}, {}) /\ m \in Msg /\ m.type = "Kicked" /\ m \in Mail
  BY <1>1, TakenQueues DEF KickedForClose
<1>3. e \in Msg /\ e.type = "Kicked" /\ e.k = m.k /\ e.a = m.a /\ e.n = m.n /\ m.n = 0
  BY <1>2, Renamed DEF Kinds, KickedForClose
<1>4. Queue(gatewayBox, gatewayBox', {}, {e})
  BY <1>1, <1>3, FilledQueues DEF KickedForClose, ToGateway
<1>5. Delivers(m, "mgr", e, "gateway")
  BY <1>1, <1>2, <1>3, <1>4, SameQueues DEF KickedForClose, Delivers, Share, agentVars
<1>6. Moves(m, "mgr", e, "gateway") /\ BoxesOK'
  BY <1>5, Delivery DEF Places
<1>7. m.a # 0 /\ m.a \in Agent
  BY <1>1, <1>2 DEF Complete, Msg
<1>8. Erases /\ m_agents' = m_agents \ {m.a} /\ \A n \in Name : m_players'[n] # m.a
  <2>1. m_agents' = m_agents \ {m.a}
    BY DEF KickedForClose, Forget
  <2>2. \A n \in Name : m_players[n] = m.a => m.a \in m_agents /\ n = player[m.a].name
    BY <1>1, <1>7 DEF Registered, NamesAreRegistered
  <2>3. CASE m.a \in m_agents
    <3>1. player[m.a].name \in Name
      BY <1>1, <1>7, <2>3 DEF TypeOK, Registered
    <3>2. EraseName(player[m.a].name)
      BY <2>3 DEF KickedForClose, Forget
    <3>3. Erases /\ m_players'[player[m.a].name] = 0
      BY <1>1, <3>1, <3>2, ErasesName
    <3>. QED BY <1>7, <2>1, <2>2, <3>3 DEF Erases
  <2>4. CASE m.a \notin m_agents
    <3>1. UNCHANGED <<m_players, erased>>
      BY <2>4 DEF KickedForClose, Forget
    <3>. QED BY <1>1, <2>1, <2>2, <2>4, <3>1, ErasesNothing
  <2>. QED BY <2>3, <2>4
<1>9. TypeOK'
  BY <1>1, <1>6, <1>8
     DEF TypeOK, KickedForClose, BoxesOK, clientVars, gatewayVars, agentVars, Erases
<1>10. /\ Connected' /\ Numbered' /\ Complete' /\ GrantedOnce' /\ Ready' /\ Registered'
       /\ Replaced' /\ Bounded'
  <2>. HIDE DEF e
  <2>. QED BY <1>2, <1>3, <1>6, <1>8, Erasing DEF KickedForClose, clientVars, agentVars
<1>. QED BY <1>9, <1>10 DEF SessionInvariant

-----------------------------------------------------------------------------
(* The agent of a connection *)

\* An agent arrives at the connection that has the descriptor.
LEMMA AgentArrives ==
  ASSUME SessionInvariant, NEW m, Takes(gatewayBox, m, "UpdateAgent"), HandleUpdateAgent(m)
  PROVE  SessionInvariant'
<1>. DEFINE e == [m EXCEPT !.type = "Updated"]
<1>1. /\ TypeOK /\ Connected /\ Numbered /\ Complete /\ GrantedOnce /\ Ready /\ Registered
      /\ Replaced /\ Bounded
  BY DEF SessionInvariant
<1>2. /\ gatewayBox' = Tail(gatewayBox) /\ ToLogin(m, "Updated") /\ UNCHANGED mgrBox
      /\ UpdateAgent(fd[m.k], m.a)
      /\ UNCHANGED <<clientVars, link, fd, armed, reader, m_clients, mgrVars, agentVars, agentBox>>
  BY DEF HandleUpdateAgent, Takes
<1>3. Queue(gatewayBox, gatewayBox', {m}, {}) /\ m \in Msg /\ m.type = "UpdateAgent" /\ m \in Mail
  BY <1>1, <1>2, TakenQueues
<1>4. e \in Msg /\ e.type = "Updated" /\ e.k = m.k /\ e.a = m.a /\ e.n = m.n
  BY <1>3, Renamed DEF Kinds
<1>5. Queue(loginBox, loginBox', {}, {e})
  BY <1>1, <1>2, <1>4, FilledQueues DEF ToLogin
<1>. HIDE DEF e
<1>6. Delivers(m, "gateway", e, "login")
  BY <1>1, <1>2, <1>3, <1>4, <1>5, SameQueues DEF Delivers, Share, agentVars
<1>7. Moves(m, "gateway", e, "login") /\ BoxesOK'
  BY <1>6, Delivery DEF Places
<1>8. /\ \A x \in Everywhere' : x \in Everywhere \/ x = e
      /\ \A x \in Mail' : x \in Mail
      /\ \A a \in Agent : \A x \in In(agentBox'[a]) : x \in In(agentBox[a])
      /\ m \in Everywhere
  BY <1>7 DEF Moves
<1>9. m.a \in Agent /\ m.a # 0 /\ m.a <= lastAgent /\ m.a \in informed /\ m.k \in Conn /\ fd[m.k] # 0
  BY <1>1, <1>3 DEF Complete, Numbered, Ready, Connected, Msg
<1>10. /\ link' = link /\ fd' = fd /\ armed' = armed /\ reader' = reader
       /\ m_clients' = m_clients /\ m_players' = m_players /\ erased' = erased
       /\ m_agents' = m_agents /\ player' = player /\ lastAgent' = lastAgent
       /\ logins' = logins /\ informed' = informed
  BY <1>2 DEF mgrVars, clientVars, agentVars
\* The connection whose agent it is now.
<1>. DEFINE j == m_clients[fd[m.k]]
<1>11. /\ agent' \in [Conn -> Agent \cup {0}]
       /\ \A k \in Conn : agent'[k] = IF k = j THEN m.a ELSE agent[k]
       /\ j \in Conn => fd[j] # 0
       /\ down' \in BOOLEAN
  <2>1. fd[m.k] \in Fd /\ fd[m.k] # 0
    BY <1>1, <1>9 DEF TypeOK
  <2>2. agent \in [Conn -> Agent \cup {0}] /\ 0 \notin Conn
    BY <1>1, SessionAssumption DEF TypeOK
  <2>3. j # 0 => fd[j] # 0
    BY <1>1, <2>1 DEF Connected
  <2>4. agent' = (IF j = 0 THEN agent ELSE [agent EXCEPT ![j] = m.a]) /\ down' \in BOOLEAN
    BY <1>2 DEF UpdateAgent
  <2>. HIDE DEF j
  <2>. QED BY <1>9, <2>2, <2>3, <2>4
<1>. HIDE DEF j
<1>12. TypeOK'
  BY <1>1, <1>2, <1>7, <1>11 DEF TypeOK, BoxesOK, clientVars, mgrVars, agentVars
<1>13. Connected'
  BY <1>1, <1>4, <1>8, <1>9, <1>10, <1>11 DEF Connected, Everywhere
<1>14. Numbered'
  BY <1>1, <1>4, <1>8, <1>9, <1>10, <1>11 DEF Numbered, Everywhere
<1>15. Complete'
  BY <1>1, <1>4, <1>8 DEF Complete, Everywhere
<1>16. GrantedOnce'
  <2>1. /\ \A a \in Agent : Counts(e, a) = 0 /\ Counts(m, a) = IF a = m.a THEN 1 ELSE 0
        /\ \A a \in Agent : /\ GrantsOnTheWay(a) \in Nat /\ GrantsOnTheWay(a)' \in Nat
                            /\ GrantsOnTheWay(a)' = GrantsOnTheWay(a) - Counts(m, a) + Counts(e, a)
    BY <1>3, <1>4, <1>7 DEF Moves, Counts, GrantKinds
  <2>2. /\ \A a \in Agent : GrantsOnTheWay(a)' <= GrantsOnTheWay(a)
        /\ GrantsOnTheWay(m.a)' = GrantsOnTheWay(m.a) - 1
        /\ \A a \in Agent : GrantsOnTheWay(a) <= 1
    BY <1>1, <1>9, <2>1 DEF GrantedOnce
  <2>3. GrantsOnTheWay(m.a) = 1 /\ GrantsOnTheWay(m.a)' = 0
    BY <1>9, <2>1, <2>2
  <2>4. \A k \in Conn : agent[k] # m.a
    BY <1>1, <1>9, <2>3 DEF GrantedOnce
  <2>5. \A k \in Conn : agent[k] # 0 => agent[k] \in Agent /\ GrantsOnTheWay(agent[k]) = 0
    BY <1>1 DEF TypeOK, GrantedOnce
  <2>6. ASSUME NEW k \in Conn, NEW a \in Agent, agent'[k] = a
        PROVE  GrantsOnTheWay(a)' = 0
    <3>1. CASE k = j
      BY <1>11, <2>3, <2>6, <3>1
    <3>2. CASE k # j
      <4>1. agent[k] = a
        BY <1>11, <2>6, <3>2
      <4>2. a # 0
        BY DEF Agent
      <4>3. GrantsOnTheWay(a) = 0
        BY <2>5, <4>1, <4>2
      <4>. QED BY <2>1, <2>2, <4>3
    <3>. QED BY <3>1, <3>2
  <2>7. \A k, l \in Conn : agent'[k] # 0 /\ agent'[k] = agent'[l] => k = l
    BY <1>1, <1>11, <2>4 DEF GrantedOnce
  <2>8. \A a \in Agent : GrantsOnTheWay(a)' <= 1
    BY <2>1, <2>2
  <2>9. \A k \in Conn : agent'[k] # 0 => agent'[k] \in Agent
    BY <1>11
  <2>. QED BY <2>6, <2>7, <2>8, <2>9 DEF GrantedOnce
<1>17. Ready'
  BY <1>1, <1>4, <1>8, <1>9, <1>10, <1>11 DEF Ready, AgentsAreReady, Everywhere
<1>18. Registered'
  BY <1>1, <1>8, <1>10 DEF Registered, NamesAreRegistered
<1>19. Replaced'
  BY <1>1, <1>8, <1>10 DEF Replaced
<1>20. Bounded'
  <2>1. LoginsOnTheWay' = LoginsOnTheWay
    BY <1>3, <1>4, <1>7 DEF Moves, Logs
  <2>. QED BY <1>1, <1>10, <2>1 DEF Bounded
<1>. QED BY <1>12, <1>13, <1>14, <1>15, <1>16, <1>17, <1>18, <1>19, <1>20 DEF SessionInvariant

\* An agent is taken away from the connection that has the descriptor.
LEMMA AgentTakenAway ==
  ASSUME SessionInvariant, NEW m, Takes(gatewayBox, m, "ResetAgent"), HandleUpdateAgent(m)
  PROVE  SessionInvariant'
<1>. DEFINE e == [m EXCEPT !.type = "Updated"]
<1>1. /\ TypeOK /\ Connected /\ Numbered /\ Complete /\ GrantedOnce /\ Ready /\ Registered
      /\ Replaced /\ Bounded
  BY DEF SessionInvariant
<1>2. /\ gatewayBox' = Tail(gatewayBox) /\ ToMgr(m, "Updated") /\ UNCHANGED loginBox
      /\ UpdateAgent(player[m.a].fd, 0)
      /\ UNCHANGED <<clientVars, link, fd, armed, reader, m_clients, mgrVars, agentVars, agentBox>>
  BY DEF HandleUpdateAgent, Takes
<1>3. Queue(gatewayBox, gatewayBox', {m}, {}) /\ m \in Msg /\ m.type = "ResetAgent" /\ m \in Mail
  BY <1>1, <1>2, TakenQueues
<1>4. e \in Msg /\ e.type = "Updated" /\ e.k = m.k /\ e.a = m.a /\ e.n = m.n /\ e.node = m.node
  BY <1>3, Renamed DEF Kinds
<1>5. Queue(mgrBox, mgrBox', {}, {e})
  BY <1>1, <1>2, <1>4, FilledQueues DEF ToMgr
<1>. HIDE DEF e
<1>6. Delivers(m, "gateway", e, "mgr")
  BY <1>1, <1>2, <1>3, <1>4, <1>5, SameQueues DEF Delivers, Share, agentVars
<1>7. Moves(m, "gateway", e, "mgr") /\ BoxesOK'
  BY <1>6, Delivery DEF Places
<1>8. /\ \A x \in Everywhere' : x \in Everywhere \/ x = e
      /\ \A x \in Mail' : x \in Mail \/ x = e
      /\ \A a \in Agent : \A x \in In(agentBox'[a]) : x \in In(agentBox[a])
      /\ m \in Everywhere
  BY <1>7 DEF Moves
<1>9. m.a # 0 /\ m.n # 0 /\ m.a <= lastAgent /\ fd[m.k] # 0
  BY <1>1, <1>3 DEF Complete, Numbered, Connected, Everywhere
<1>10. /\ link' = link /\ fd' = fd /\ armed' = armed /\ reader' = reader
       /\ m_clients' = m_clients /\ m_players' = m_players /\ erased' = erased
       /\ m_agents' = m_agents /\ player' = player /\ lastAgent' = lastAgent
       /\ logins' = logins /\ informed' = informed
  BY <1>2 DEF mgrVars, clientVars, agentVars
<1>11. /\ agent' \in [Conn -> Agent \cup {0}]
       /\ \A k \in Conn : agent'[k] \in {agent[k], 0}
       /\ down' \in BOOLEAN
  <2>1. agent \in [Conn -> Agent \cup {0}]
    BY <1>1 DEF TypeOK
  <2>2. \/ agent' = agent
        \/ agent' = [agent EXCEPT ![m_clients[player[m.a].fd]] = 0]
    BY <1>2 DEF UpdateAgent
  <2>. QED BY <1>2, <2>1, <2>2 DEF UpdateAgent
<1>12. TypeOK'
  BY <1>1, <1>2, <1>7, <1>11 DEF TypeOK, BoxesOK, clientVars, mgrVars, agentVars
<1>13. Connected'
  BY <1>1, <1>4, <1>8, <1>9, <1>10, <1>11 DEF Connected, Everywhere
<1>14. Numbered'
  <2>1. \A k \in Conn : agent'[k] <= lastAgent
    <3>1. lastAgent \in 0..MaxLogins
      BY <1>1 DEF TypeOK
    <3>. QED BY <1>1, <1>11, <3>1, SessionAssumption DEF Numbered
  <2>. QED BY <1>1, <1>4, <1>8, <1>9, <1>10, <2>1 DEF Numbered, Everywhere
<1>15. Complete'
  BY <1>1, <1>4, <1>8, <1>9 DEF Complete, Everywhere
<1>16. GrantedOnce'
  <2>1. /\ \A a \in Agent : Counts(e, a) = 0 /\ Counts(m, a) = 0
        /\ \A a \in Agent : /\ GrantsOnTheWay(a) \in Nat
                            /\ GrantsOnTheWay(a)' = GrantsOnTheWay(a) - Counts(m, a) + Counts(e, a)
    BY <1>3, <1>4, <1>7 DEF Moves, Counts, GrantKinds
  <2>2. \A a \in Agent : GrantsOnTheWay(a)' = GrantsOnTheWay(a)
    BY <2>1
  <2>3. \A k \in Conn : agent[k] # 0 => agent[k] \in Agent
    BY <1>1 DEF TypeOK
  <2>. QED BY <1>1, <1>11, <2>2, <2>3 DEF GrantedOnce
<1>17. Ready'
  BY <1>1, <1>4, <1>8, <1>10, <1>11 DEF Ready, AgentsAreReady, Everywhere
<1>18. Registered'
  BY <1>1, <1>4, <1>8, <1>10 DEF Registered, NamesAreRegistered
<1>19. Replaced'
  BY <1>1, <1>3, <1>4, <1>8, <1>10 DEF Replaced
<1>20. Bounded'
  <2>1. LoginsOnTheWay' = LoginsOnTheWay
    BY <1>3, <1>4, <1>7 DEF Moves, Logs
  <2>. QED BY <1>1, <1>10, <2>1 DEF Bounded
<1>. QED BY <1>12, <1>13, <1>14, <1>15, <1>16, <1>17, <1>18, <1>19, <1>20 DEF SessionInvariant

-----------------------------------------------------------------------------
(* The agents that agentmgr kicks and creates *)

\* A login of a name in use: the agent of the name is kicked.
LEMMA NameInUse ==
  ASSUME SessionInvariant, NEW m, HandleReqLogin(m), m_players[m.n] # 0
  PROVE  SessionInvariant'
<1>. DEFINE a == m_players[m.n]
            p == [m EXCEPT !.a = a, !.node = erased[m.n]]
            e == [p EXCEPT !.type = "Kick"]
<1>1. /\ TypeOK /\ Connected /\ Numbered /\ Complete /\ GrantedOnce /\ Ready /\ Registered
      /\ Replaced /\ Bounded
  BY DEF SessionInvariant
<1>2. /\ Takes(mgrBox, m, "ReqLogin") /\ mgrBox' = Tail(mgrBox)
      /\ kicking' = kicking \cup {m.k}
      /\ ToAgent(p, "Kick")
      /\ UNCHANGED <<clientVars, gatewayVars, m_players, erased, m_agents, player, agentVars, down,
                     gatewayBox, loginBox, lastAgent>>
  BY DEF HandleReqLogin
<1>3. Queue(mgrBox, mgrBox', {m}, {}) /\ m \in Msg /\ m.type = "ReqLogin" /\ m \in Mail
  BY <1>1, <1>2, TakenQueues
<1>4. m.n \in Name /\ m.n # 0 /\ m.k \in Conn /\ fd[m.k] # 0
  BY <1>1, <1>3 DEF Complete, Connected, Msg
<1>5. /\ a \in Agent /\ a # 0 /\ player[a].name = m.n /\ a <= lastAgent
      /\ erased[m.n] \in 0..MaxLogins
  <2>1. a \in Agent /\ erased[m.n] \in 0..MaxLogins /\ lastAgent \in Int
    BY <1>1, <1>4 DEF TypeOK
  <2>2. player[a].name = m.n
    BY <1>1, <1>4 DEF Registered, NamesAreRegistered
  <2>3. ~(a > lastAgent)
    BY <1>1, <1>4, <2>1, <2>2 DEF Numbered
  <2>4. a \in Int /\ a # 0
    BY <2>1 DEF Agent
  <2>. HIDE DEF a
  <2>. QED BY <2>1, <2>2, <2>3, <2>4
<1>6. p \in Msg /\ p.k = m.k /\ p.n = m.n /\ p.a = a /\ p.node = erased[m.n]
  BY <1>3, <1>5 DEF Msg
<1>. HIDE DEF p
<1>7. e \in Msg /\ e.type = "Kick" /\ e.k = m.k /\ e.n = m.n /\ e.a = a /\ e.node = erased[m.n]
  BY <1>6, Renamed DEF Kinds
<1>8. AgentQueues({}, {e})
  BY <1>1, <1>2, <1>5, <1>6, FilledAgents DEF Kinds
<1>. HIDE DEF e, a
<1>9. Delivers(m, "mgr", e, "agent")
  BY <1>1, <1>2, <1>3, <1>5, <1>7, <1>8, SameQueues DEF Delivers, Share, agentVars
<1>10. Moves(m, "mgr", e, "agent") /\ BoxesOK'
  BY <1>9, Delivery DEF Places
<1>11. /\ \A x \in Everywhere' : x \in Everywhere \/ x = e
       /\ \A x \in Mail' : x \in Mail \/ x = e
       /\ \A b \in Agent : \A x \in In(agentBox'[b]) : x \in In(agentBox[b]) \/ (x = e /\ x.a = b)
  BY <1>10 DEF Moves
<1>12. /\ link' = link /\ fd' = fd /\ armed' = armed /\ reader' = reader /\ agent' = agent
       /\ m_clients' = m_clients /\ m_players' = m_players /\ erased' = erased
       /\ m_agents' = m_agents /\ player' = player /\ lastAgent' = lastAgent
       /\ logins' = logins /\ informed' = informed
  BY <1>2 DEF gatewayVars, clientVars, agentVars
<1>13. TypeOK'
  BY <1>1, <1>2, <1>4, <1>10 DEF TypeOK, BoxesOK, clientVars, gatewayVars, agentVars
<1>14. Connected'
  BY <1>1, <1>4, <1>7, <1>11, <1>12 DEF Connected, Everywhere
<1>15. Numbered'
  BY <1>1, <1>5, <1>7, <1>11, <1>12 DEF Numbered, Everywhere
<1>16. Complete'
  BY <1>1, <1>4, <1>5, <1>7, <1>11 DEF Complete, Everywhere
<1>17. GrantedOnce'
  <2>1. ASSUME NEW b \in Agent
        PROVE  /\ GrantsOnTheWay(b) \in Nat /\ GrantsOnTheWay(b)' \in Nat
               /\ GrantsOnTheWay(b)' <= GrantsOnTheWay(b)
    BY <1>3, <1>7, <1>10 DEF Moves, Counts, GrantKinds
  <2>2. \A k \in Conn : agent[k] # 0 => agent[k] \in Agent
    BY <1>1 DEF TypeOK
  <2>. QED BY <1>1, <1>12, <2>1, <2>2 DEF GrantedOnce
<1>18. Ready'
  BY <1>1, <1>7, <1>11, <1>12 DEF Ready, AgentsAreReady, Everywhere
<1>19. Registered'
  BY <1>1, <1>7, <1>11, <1>12 DEF Registered, NamesAreRegistered
<1>20. Replaced'
  <2>1. e.node <= erased[e.n] /\ ~(e.node < erased[e.n])
    BY <1>5, <1>7
  <2>. QED BY <1>1, <1>5, <1>7, <1>11, <1>12, <2>1 DEF Replaced
<1>21. Bounded'
  <2>1. LoginsOnTheWay' <= LoginsOnTheWay /\ LoginsOnTheWay \in Int /\ LoginsOnTheWay' \in Int
    BY <1>3, <1>7, <1>10 DEF Moves, Logs
  <2>2. lastAgent \in Int /\ logins \in Int /\ lastAgent + LoginsOnTheWay <= logins
    BY <1>1 DEF TypeOK, Bounded
  <2>3. \A x, y, z, w \in Int : x + y <= z /\ w <= y => x + w <= z
    OBVIOUS
  <2>4. lastAgent + LoginsOnTheWay' <= logins
    BY <2>1, <2>2, <2>3, Zenon
  <2>. QED BY <1>1, <1>12, <2>4 DEF Bounded
<1>. QED BY <1>13, <1>14, <1>15, <1>16, <1>17, <1>18, <1>19, <1>20, <1>21 DEF SessionInvariant

\* No message is about an agent that is not created yet.
LEMMA NotCreatedYet ==
  ASSUME TypeOK, Numbered, NEW a \in Agent, a > lastAgent
  PROVE  GrantsOnTheWay(a) = 0
<1>1. lastAgent \in Int
  BY DEF TypeOK
<1>2. \A x \in Everywhere : x \in Msg /\ x.a <= lastAgent
  BY MessagesTyped DEF Numbered, Everywhere
<1>3. \A x \in Everywhere : x \notin Grants(a)
  BY <1>1, <1>2 DEF Grants, Msg, Agent
<1>4. /\ In(gatewayBox) \cap Grants(a) = {} /\ In(loginBox) \cap Grants(a) = {}
      /\ In(mgrBox) \cap Grants(a) = {} /\ In(roomBox) \cap Grants(a) = {}
      /\ In(agentBox[a]) \cap Grants(a) = {}
  BY <1>3 DEF Everywhere, Mail
<1>5. \A s \in Seq(Msg) : In(s) \cap Grants(a) = {} => HowMany(s, Grants(a)) = 0
  BY HowManyType
<1>6. /\ gatewayBox \in Seq(Msg) /\ loginBox \in Seq(Msg) /\ mgrBox \in Seq(Msg)
      /\ roomBox \in Seq(Msg) /\ agentBox[a] \in Seq(Msg)
  BY DEF TypeOK
<1>. QED BY <1>4, <1>5, <1>6 DEF GrantsOnTheWay

\* A login of a free name: an agent is created.
LEMMA NameIsFree ==
  ASSUME SessionInvariant, NEW m, HandleReqLogin(m), m_players[m.n] = 0
  PROVE  SessionInvariant'
<1>. DEFINE a == lastAgent + 1
            p == [m EXCEPT !.a = a]
            e == [p EXCEPT !.type = "INIT"]
<1>1. /\ TypeOK /\ Connected /\ Numbered /\ Complete /\ GrantedOnce /\ Ready /\ Registered
      /\ Replaced /\ Bounded
  BY DEF SessionInvariant
<1>2. /\ Takes(mgrBox, m, "ReqLogin") /\ mgrBox' = Tail(mgrBox)
      /\ lastAgent' = a
      /\ ToAgent(p, "INIT")
      /\ UNCHANGED <<clientVars, gatewayVars, m_players, erased, m_agents, player, agentVars, down,
                     gatewayBox, loginBox, kicking>>
  BY DEF HandleReqLogin
<1>3. Queue(mgrBox, mgrBox', {m}, {}) /\ m \in Msg /\ m.type = "ReqLogin" /\ m \in Mail
  BY <1>1, <1>2, TakenQueues
<1>4. m.n \in Name /\ m.n # 0 /\ m.k \in Conn /\ fd[m.k] # 0
  BY <1>1, <1>3 DEF Complete, Connected, Msg
<1>5. lastAgent \in Nat /\ logins \in 0..MaxLogins /\ MaxLogins \in Nat
  BY <1>1, SessionAssumption DEF TypeOK
<1>6. a \in Agent /\ a # 0 /\ a > lastAgent
  <2>1. HowMany(mgrBox, Logging) \in Nat /\ HowMany(mgrBox', Logging) \in Nat
        /\ HowMany(mgrBox', Logging) = HowMany(mgrBox, Logging) - 1
    <3>1. ~({m} \cap Logging = {})
      BY <1>3 DEF Logging, Msg
    <3>2. /\ HowMany(mgrBox, Logging) \in Nat /\ HowMany(mgrBox', Logging) \in Nat
          /\ HowMany(mgrBox', Logging) = HowMany(mgrBox, Logging)
               - (IF {m} \cap Logging = {} THEN 0 ELSE 1) + (IF {} \cap Logging = {} THEN 0 ELSE 1)
      BY <1>3 DEF Queue
    <3>. QED BY <3>1, <3>2
  <2>2. HowMany(loginBox, Logging) \in Nat
    BY <1>1, HowManyType DEF TypeOK
  <2>3. lastAgent + (HowMany(loginBox, Logging) + HowMany(mgrBox, Logging)) <= logins
    BY <1>1 DEF Bounded, LoginsOnTheWay
  <2>4. lastAgent + 1 <= MaxLogins
    BY <1>5, <2>1, <2>2, <2>3
  <2>. QED BY <1>5, <2>4 DEF Agent
<1>7. p \in Msg /\ p.k = m.k /\ p.n = m.n /\ p.a = a
  <2>. HIDE DEF a
  <2>. QED BY <1>3, <1>6 DEF Msg
<1>. HIDE DEF p
<1>8. e \in Msg /\ e.type = "INIT" /\ e.k = m.k /\ e.n = m.n /\ e.a = a
  BY <1>7, Renamed DEF Kinds
<1>9. AgentQueues({}, {e})
  BY <1>1, <1>2, <1>6, <1>7, FilledAgents DEF Kinds
<1>. HIDE DEF e
<1>10. Delivers(m, "mgr", e, "agent")
  BY <1>1, <1>2, <1>3, <1>6, <1>8, <1>9, SameQueues DEF Delivers, Share, agentVars
<1>11. Moves(m, "mgr", e, "agent") /\ BoxesOK'
  BY <1>10, Delivery DEF Places
<1>12. /\ \A x \in Everywhere' : x \in Everywhere \/ x = e
       /\ \A x \in Mail' : x \in Mail \/ x = e
       /\ \A b \in Agent : \A x \in In(agentBox'[b]) : x \in In(agentBox[b]) \/ (x = e /\ x.a = b)
  BY <1>11 DEF Moves
<1>13. /\ link' = link /\ fd' = fd /\ armed' = armed /\ reader' = reader /\ agent' = agent
       /\ m_clients' = m_clients /\ m_players' = m_players /\ erased' = erased
       /\ m_agents' = m_agents /\ player' = player
       /\ logins' = logins /\ informed' = informed
  BY <1>2 DEF gatewayVars, clientVars, agentVars
<1>14. TypeOK'
  <2>1. lastAgent' \in 0..MaxLogins
    BY <1>2, <1>5, <1>6 DEF Agent
  <2>. QED BY <1>1, <1>2, <1>11, <2>1 DEF TypeOK, BoxesOK, clientVars, gatewayVars, agentVars
<1>15. Connected'
  BY <1>1, <1>4, <1>8, <1>12, <1>13 DEF Connected, Everywhere
<1>16. Numbered'
  <2>1. \A i \in Int : i <= lastAgent => i <= a
    BY <1>5
  <2>2. \A x \in Everywhere : x.a \in Int
    BY <1>1, MessagesTyped DEF Msg, Agent
  <2>3. \A x \in Everywhere' : x.a <= a
    BY <1>1, <1>5, <1>8, <1>12, <2>1, <2>2 DEF Numbered, Everywhere
  <2>4. \A k \in Conn : agent[k] <= a
    <3>1. \A k \in Conn : agent[k] \in Int
      BY <1>1 DEF TypeOK, Agent
    <3>. QED BY <1>1, <2>1, <3>1 DEF Numbered
  <2>5. \A b \in Agent : b > a => player[b].name = 0
    BY <1>1, <1>5 DEF Numbered, Agent
  <2>6. \A b \in Agent : \A x \in In(agentBox'[b]) : x.a = b
    BY <1>1, <1>12 DEF Numbered
  <2>. QED BY <1>2, <1>13, <2>3, <2>4, <2>5, <2>6 DEF Numbered, Everywhere
<1>17. Complete'
  BY <1>1, <1>4, <1>6, <1>8, <1>12 DEF Complete, Everywhere
<1>18. GrantedOnce'
  <2>1. /\ \A b \in Agent : Counts(e, b) = (IF b = a THEN 1 ELSE 0) /\ Counts(m, b) = 0
        /\ \A b \in Agent : /\ GrantsOnTheWay(b) \in Nat
                            /\ GrantsOnTheWay(b)' = GrantsOnTheWay(b) - Counts(m, b) + Counts(e, b)
    BY <1>3, <1>8, <1>11 DEF Moves, Counts, GrantKinds
  <2>2. GrantsOnTheWay(a) = 0
    BY <1>1, <1>6, NotCreatedYet
  <2>3. \A b \in Agent : GrantsOnTheWay(b)' = IF b = a THEN 1 ELSE GrantsOnTheWay(b)
    <3>. SUFFICES ASSUME NEW b \in Agent
                  PROVE  GrantsOnTheWay(b)' = IF b = a THEN 1 ELSE GrantsOnTheWay(b)
      OBVIOUS
    <3>1. /\ GrantsOnTheWay(b) \in Nat
          /\ GrantsOnTheWay(b)' = GrantsOnTheWay(b) + IF b = a THEN 1 ELSE 0
      <4>. HIDE DEF a
      <4>. QED BY <2>1
    <3>2. b = a => GrantsOnTheWay(b) = 0
      BY <2>2
    <3>. HIDE DEF a
    <3>. QED BY <3>1, <3>2
  <2>4. \A k \in Conn : agent[k] # a
    BY <1>1, <1>5 DEF Numbered
  <2>5. \A b \in Agent : GrantsOnTheWay(b)' <= 1
    <3>. HIDE DEF a
    <3>. QED BY <1>1, <2>3 DEF GrantedOnce
  <2>6. \A k \in Conn : agent[k] # 0 => agent[k] \in Agent
    BY <1>1 DEF TypeOK
  <2>. HIDE DEF a
  <2>. QED BY <1>1, <1>13, <2>3, <2>4, <2>5, <2>6 DEF GrantedOnce
<1>19. Ready'
  BY <1>1, <1>8, <1>12, <1>13 DEF Ready, AgentsAreReady, Everywhere
<1>20. Registered'
  <2>1. player[a].name = 0
    BY <1>1, <1>6 DEF Numbered
  <2>. HIDE DEF a
  <2>. QED BY <1>1, <1>8, <1>12, <1>13, <2>1 DEF Registered, NamesAreRegistered
<1>21. Replaced'
  BY <1>1, <1>8, <1>12, <1>13 DEF Replaced
<1>22. Bounded'
  <2>1. LoginsOnTheWay' = LoginsOnTheWay - 1 /\ LoginsOnTheWay \in Int
    BY <1>3, <1>8, <1>11 DEF Moves, Logs
  <2>2. lastAgent \in Int /\ logins \in Int /\ lastAgent + LoginsOnTheWay <= logins
    BY <1>1 DEF TypeOK, Bounded
  <2>3. \A x, y, z \in Int : x + y <= z => (x + 1) + (y - 1) <= z
    OBVIOUS
  <2>4. (lastAgent + 1) + (LoginsOnTheWay - 1) <= logins
    BY <2>1, <2>2, <2>3, Zenon
  <2>5. lastAgent' + LoginsOnTheWay' <= logins
    BY <1>2, <2>1, <2>4
  <2>. QED BY <1>1, <1>13, <2>5 DEF Bounded
<1>. QED BY <1>14, <1>15, <1>16, <1>17, <1>18, <1>19, <1>20, <1>21, <1>22 DEF SessionInvariant

-----------------------------------------------------------------------------
(* The players that agentmgr registers *)

\* While the message that grants an agent is out of its queue, there is none for that agent.
LEMMA OnlyGrant ==
  ASSUME TypeOK, Numbered, GrantedOnce, NEW m \in Msg, m.a \in Agent, m.type \in GrantKinds,
         Queue(mgrBox, mgrBox', {m}, {})
  PROVE  \A x \in In(gatewayBox) \cup In(loginBox) \cup In(mgrBox') \cup In(roomBox)
                 \cup UNION {In(agentBox[a]) : a \in Agent} :
           ~(x.type \in GrantKinds /\ x.a = m.a)
<1>. DEFINE a == m.a
<1>1. ~({m} \cap Grants(a) = {})
  BY CountedMessage DEF Counts
<1>2. /\ HowMany(mgrBox, Grants(a)) \in Nat /\ HowMany(mgrBox', Grants(a)) \in Nat
      /\ HowMany(mgrBox', Grants(a)) = HowMany(mgrBox, Grants(a)) - 1
  <2>1. /\ HowMany(mgrBox, Grants(a)) \in Nat /\ HowMany(mgrBox', Grants(a)) \in Nat
        /\ HowMany(mgrBox', Grants(a)) = HowMany(mgrBox, Grants(a))
             - (IF {m} \cap Grants(a) = {} THEN 0 ELSE 1)
             + (IF {} \cap Grants(a) = {} THEN 0 ELSE 1)
    BY DEF Queue
  <2>. HIDE DEF a
  <2>. QED BY <1>1, <2>1
<1>3. /\ HowMany(gatewayBox, Grants(a)) \in Nat /\ HowMany(loginBox, Grants(a)) \in Nat
      /\ HowMany(roomBox, Grants(a)) \in Nat /\ HowMany(agentBox[a], Grants(a)) \in Nat
  <2>1. \A s \in Seq(Msg) : HowMany(s, Grants(a)) \in Nat
    BY HowManyType
  <2>. QED BY <2>1 DEF TypeOK
<1>4. HowMany(loginBox, Grants(a)) + HowMany(mgrBox, Grants(a)) + HowMany(gatewayBox, Grants(a))
      + HowMany(roomBox, Grants(a)) + HowMany(agentBox[a], Grants(a)) <= 1
  BY DEF GrantedOnce, GrantsOnTheWay
<1>5. /\ HowMany(gatewayBox, Grants(a)) = 0 /\ HowMany(loginBox, Grants(a)) = 0
      /\ HowMany(mgrBox', Grants(a)) = 0
      /\ HowMany(roomBox, Grants(a)) = 0 /\ HowMany(agentBox[a], Grants(a)) = 0
  <2>. HIDE DEF a
  <2>. QED BY <1>2, <1>3, <1>4
<1>6. /\ gatewayBox \in Seq(Msg) /\ loginBox \in Seq(Msg) /\ mgrBox' \in Seq(Msg)
      /\ roomBox \in Seq(Msg) /\ \A b \in Agent : agentBox[b] \in Seq(Msg)
  BY DEF TypeOK, Queue
<1>7. \A s \in Seq(Msg) : HowMany(s, Grants(a)) = 0 =>
        \A x \in In(s) : ~(x.type \in GrantKinds /\ x.a = a)
  <2>. SUFFICES ASSUME NEW s \in Seq(Msg), HowMany(s, Grants(a)) = 0, NEW x \in In(s)
                PROVE  ~(x.type \in GrantKinds /\ x.a = a)
    OBVIOUS
  <2>1. In(s) \cap Grants(a) = {}
    BY HowManyType
  <2>2. x \in Msg /\ x \notin Grants(a)
    BY <2>1 DEF In
  <2>. HIDE DEF a
  <2>3. a \in Agent
    BY DEF a
  <2>. QED BY <2>2, <2>3, CountedMessage DEF Counts
<1>8. /\ \A x \in In(gatewayBox) \cup In(loginBox) \cup In(mgrBox') \cup In(roomBox) :
           ~(x.type \in GrantKinds /\ x.a = a)
      /\ \A x \in In(agentBox[a]) : ~(x.type \in GrantKinds /\ x.a = a)
  BY <1>5, <1>6, <1>7
<1>9. \A b \in Agent : b # a => \A x \in In(agentBox[b]) : x.a # a
  BY DEF Numbered
<1>. QED BY <1>8, <1>9

LEMMA AgentCreatedKeeps ==
  ASSUME SessionInvariant, NEW m, AgentCreated(m)
  PROVE  SessionInvariant'
<1>. DEFINE e == [m EXCEPT !.type = "PlayerInfo"]
<1>1. /\ TypeOK /\ Connected /\ Numbered /\ Complete /\ GrantedOnce /\ Ready /\ Registered
      /\ Replaced /\ Bounded
  BY DEF SessionInvariant
<1>2. /\ Takes(mgrBox, m, "Inited") /\ mgrBox' = Tail(mgrBox) /\ ToAgent(m, "PlayerInfo")
      /\ m_players' = [m_players EXCEPT ![m.n] = m.a]
      /\ m_agents' = m_agents \cup {m.a}
      /\ player' = [player EXCEPT ![m.a] = [name |-> m.n, fd |-> fd[m.k]]]
      /\ UNCHANGED <<clientVars, gatewayVars, erased, lastAgent, kicking, agentVars, down,
                     gatewayBox, loginBox>>
  BY DEF AgentCreated
<1>3. Queue(mgrBox, mgrBox', {m}, {}) /\ m \in Msg /\ m.type = "Inited" /\ m \in Mail
  BY <1>1, <1>2, TakenQueues
<1>4. /\ m.n \in Name /\ m.n # 0 /\ m.k \in Conn /\ fd[m.k] # 0
      /\ m.a \in Agent /\ m.a # 0 /\ m.a <= lastAgent /\ player[m.a].name = 0
  BY <1>1, <1>3 DEF Complete, Connected, Numbered, Registered, Msg
<1>5. e \in Msg /\ e.type = "PlayerInfo" /\ e.k = m.k /\ e.n = m.n /\ e.a = m.a
  BY <1>3, Renamed DEF Kinds
<1>6. AgentQueues({}, {e})
  BY <1>1, <1>2, <1>3, <1>4, FilledAgents DEF Kinds
<1>. HIDE DEF e
<1>7. Delivers(m, "mgr", e, "agent")
  BY <1>1, <1>2, <1>3, <1>4, <1>5, <1>6, SameQueues DEF Delivers, Share, agentVars
<1>8. Moves(m, "mgr", e, "agent") /\ BoxesOK'
  BY <1>7, Delivery DEF Places
<1>9. /\ \A x \in Everywhere' : x \in Everywhere \/ x = e
      /\ \A x \in Mail' : x \in Mail \/ x = e
      /\ \A b \in Agent : \A x \in In(agentBox'[b]) : x \in In(agentBox[b]) \/ (x = e /\ x.a = b)
  BY <1>8 DEF Moves
<1>10. /\ link' = link /\ fd' = fd /\ armed' = armed /\ reader' = reader /\ agent' = agent
       /\ m_clients' = m_clients /\ erased' = erased /\ lastAgent' = lastAgent
       /\ logins' = logins /\ informed' = informed
  BY <1>2 DEF gatewayVars, clientVars, agentVars
<1>11. /\ player' \in [Agent -> [name : Name \cup {0}, fd : Fd \cup {0}]]
       /\ player'[m.a].name = m.n
       /\ \A b \in Agent : b # m.a => player'[b] = player[b]
       /\ m_players' \in [Name -> Agent \cup {0}]
       /\ m_players'[m.n] = m.a
       /\ \A n \in Name : n # m.n => m_players'[n] = m_players[n]
  <2>1. player \in [Agent -> [name : Name \cup {0}, fd : Fd \cup {0}]]
        /\ m_players \in [Name -> Agent \cup {0}] /\ fd[m.k] \in Fd \cup {0}
    BY <1>1, <1>4 DEF TypeOK
  <2>. QED BY <1>2, <1>4, <2>1
<1>12. TypeOK'
  BY <1>1, <1>2, <1>4, <1>8, <1>11 DEF TypeOK, BoxesOK, clientVars, gatewayVars, agentVars
<1>13. Connected'
  BY <1>1, <1>4, <1>5, <1>9, <1>10 DEF Connected, Everywhere
<1>14. Numbered'
  <2>1. lastAgent \in Int /\ m.a \in Int
    BY <1>1, <1>4 DEF TypeOK, Agent
  <2>2. \A b \in Agent : b > lastAgent => player'[b].name = 0
    BY <1>1, <1>4, <1>11, <2>1 DEF Numbered
  <2>. QED BY <1>1, <1>4, <1>5, <1>9, <1>10, <2>2 DEF Numbered, Everywhere
<1>15. Complete'
  BY <1>1, <1>4, <1>5, <1>9 DEF Complete, Everywhere
<1>16. GrantedOnce'
  <2>1. /\ \A b \in Agent : Counts(e, b) = Counts(m, b) /\ Counts(m, b) \in {0, 1}
        /\ \A b \in Agent : /\ GrantsOnTheWay(b) \in Nat
                            /\ GrantsOnTheWay(b)' = GrantsOnTheWay(b) - Counts(m, b) + Counts(e, b)
    BY <1>3, <1>5, <1>8 DEF Moves, Counts, GrantKinds
  <2>2. \A b \in Agent : GrantsOnTheWay(b)' = GrantsOnTheWay(b)
    BY <2>1
  <2>3. \A k \in Conn : agent[k] # 0 => agent[k] \in Agent
    BY <1>1 DEF TypeOK
  <2>. QED BY <1>1, <1>10, <2>2, <2>3 DEF GrantedOnce
<1>17. Ready'
  BY <1>1, <1>5, <1>9, <1>10 DEF Ready, AgentsAreReady, Everywhere
<1>18. Registered'
  <2>1. NamesAreRegistered'
    <3>. SUFFICES ASSUME NEW n \in Name, m_players'[n] # 0
                  PROVE  m_players'[n] \in m_agents' /\ player'[m_players'[n]].name = n
      BY DEF NamesAreRegistered
    <3>1. CASE n = m.n
      BY <1>2, <1>11, <3>1
    <3>2. CASE n # m.n
      <4>1. /\ m_players'[n] = m_players[n] /\ m_players[n] \in Agent
            /\ m_players[n] \in m_agents /\ player[m_players[n]].name = n
        BY <1>1, <1>11, <3>2 DEF Registered, NamesAreRegistered, TypeOK
      <4>2. n # 0
        BY SessionAssumption
      <4>3. m_players[n] # m.a
        BY <1>4, <4>1, <4>2
      <4>. QED BY <1>2, <1>11, <4>1, <4>3
    <3>. QED BY <3>1, <3>2
  <2>2. \A b \in m_agents' : player'[b].name # 0
    <3>1. m_agents \subseteq Agent
      BY <1>1 DEF TypeOK
    <3>. QED BY <1>1, <1>2, <1>4, <1>11, <3>1 DEF Registered
  <2>3. ASSUME NEW x \in Mail', x.type \in {"INIT", "Inited"}
        PROVE  player'[x.a].name = 0
    <3>1. x \in Mail /\ x # e
      BY <1>5, <1>9, <2>3
    <3>2. x.a \in Agent /\ player[x.a].name = 0
      <4>1. x \in Msg
        BY <1>1, <3>1, MessagesTyped DEF Everywhere
      <4>. QED BY <1>1, <2>3, <3>1, <4>1 DEF Complete, Registered, Msg
    <3>3. x \in In(gatewayBox) \cup In(mgrBox') \cup In(roomBox)
                 \cup UNION {In(agentBox[a]) : a \in Agent}
      <4>1. gatewayBox' = gatewayBox /\ roomBox' = roomBox
        BY <1>2 DEF agentVars
      <4>. QED BY <1>9, <3>1, <4>1 DEF Mail
    <3>4. x.a # m.a
      BY <1>1, <1>3, <1>4, <2>3, <3>3, OnlyGrant DEF GrantKinds
    <3>. QED BY <1>11, <3>2, <3>4
  <2>. QED BY <2>1, <2>2, <2>3 DEF Registered
<1>19. Replaced'
  <2>. SUFFICES ASSUME NEW x \in Mail', x.n # 0,
                       x.type \in {"Kick", "Removed", "Kicked", "ResetAgent", "Updated"}
                PROVE  /\ player'[x.a].name = x.n
                       /\ x.node <= erased[x.n]
                       /\ x.node < erased[x.n] => m_players'[x.n] # x.a
    BY <1>10 DEF Replaced
  <2>1. x \in Mail
    BY <1>5, <1>9
  <2>2. x \in Msg /\ x.n \in Name
    BY <1>1, <2>1, MessagesTyped DEF Everywhere, Msg
  <2>3. /\ player[x.a].name = x.n
        /\ x.node <= erased[x.n]
        /\ x.node < erased[x.n] => m_players[x.n] # x.a
    BY <1>1, <2>1 DEF Replaced
  <2>4. x.a \in Agent
    BY <1>1, <2>1, <2>2 DEF Complete, Msg
  <2>5. x.a # m.a
    BY <1>4, <2>3
  <2>. QED BY <1>11, <2>2, <2>3, <2>4, <2>5
<1>20. Bounded'
  <2>. DEFINE A == {b \in Agent : player[b].name # 0}
              B == {b \in Agent : player'[b].name # 0}
  <2>1. LoginsOnTheWay' = LoginsOnTheWay
    BY <1>3, <1>5, <1>8 DEF Moves, Logs
  <2>2. B = A \cup {m.a} /\ m.a \notin A
    BY <1>4, <1>11
  <2>3. IsFiniteSet(A) /\ Cardinality(A) \in Nat
    <3>1. IsFiniteSet(A)
      BY <1>1, PlayersFinite
    <3>. QED BY <3>1, FS_CardinalityType
  <2>4. \A n \in Name : erased[n] \in Nat /\ erased[n] + (IF m_players[n] # 0 THEN 1 ELSE 0) <= Cardinality(A)
    BY <1>1 DEF Bounded, TypeOK
  <2>5. lastAgent + LoginsOnTheWay <= logins
    BY <1>1 DEF Bounded
  <2>. HIDE DEF A
  <2>6. Cardinality(A \cup {m.a}) = Cardinality(A) + 1
    BY <2>2, <2>3, FS_AddElement
  <2>7. \A n \in Name : erased[n] + (IF m_players'[n] # 0 THEN 1 ELSE 0) <= Cardinality(A) + 1
    BY <2>3, <2>4
  <2>8. \A n \in Name : erased[n] + (IF m_players'[n] # 0 THEN 1 ELSE 0) <= Cardinality(B)
    <3>. HIDE DEF B
    <3>. QED BY <2>2, <2>6, <2>7
  <2>. QED BY <1>10, <2>1, <2>5, <2>8 DEF Bounded
<1>. QED BY <1>12, <1>13, <1>14, <1>15, <1>16, <1>17, <1>18, <1>19, <1>20 DEF SessionInvariant

-----------------------------------------------------------------------------
(* The theorems *)

LEMMA InitialState == Init => SessionInvariant
<1>. SUFFICES ASSUME Init PROVE SessionInvariant
  OBVIOUS
<1>1. /\ In(<<>>) = {} /\ \A T : HowMany(<<>>, T) = 0
  BY EmptyQueue
<1>2. Everywhere = {} /\ Mail = {} /\ \A a \in Agent : In(agentBox[a]) = {}
  BY <1>1 DEF Everywhere, Mail, Init
<1>3. /\ \A a \in Agent : GrantsOnTheWay(a) = 0
      /\ LoginsOnTheWay = 0
  BY <1>1 DEF GrantsOnTheWay, LoginsOnTheWay, Init
<1>4. TypeOK
  <2>1. /\ gone \in [Conn -> BOOLEAN] /\ waiting \in [Conn -> Nat]
        /\ logins \in 0..MaxLogins /\ events \in 0..MaxEvents /\ names \in [Conn -> SUBSET Name]
    BY SessionAssumption DEF Init
  <2>2. /\ link \in [Conn -> {"none", "open", "closed"}] /\ fd \in [Conn -> Fd \cup {0}]
        /\ agent \in [Conn -> Agent \cup {0}] /\ armed \in [Conn -> BOOLEAN]
        /\ reader \in [Conn -> {"reading", "closing", "done"}]
        /\ m_clients \in [Fd -> Conn \cup {0}]
    BY DEF Init
  <2>3. /\ m_players \in [Name -> Agent \cup {0}] /\ erased \in [Name -> 0..MaxLogins]
        /\ m_agents \subseteq Agent
        /\ player \in [Agent -> [name : Name \cup {0}, fd : Fd \cup {0}]]
        /\ lastAgent \in 0..MaxLogins /\ kicking \subseteq Conn
    BY SessionAssumption DEF Init
  <2>4. /\ informed \subseteq Agent /\ inRoom \subseteq Agent /\ lost \subseteq Conn
        /\ down \in BOOLEAN
        /\ gatewayBox \in Seq(Msg) /\ loginBox \in Seq(Msg) /\ mgrBox \in Seq(Msg)
        /\ roomBox \in Seq(Msg) /\ agentBox \in [Agent -> Seq(Msg)]
    <3>1. <<>> \in Seq(Msg)
      OBVIOUS
    <3>2. [a \in Agent |-> <<>>] \in [Agent -> Seq(Msg)]
      BY <3>1
    <3>. QED BY <3>1, <3>2 DEF Init
  <2>. QED BY <2>1, <2>2, <2>3, <2>4 DEF TypeOK
<1>5. Connected /\ Numbered /\ Complete /\ Ready /\ Registered /\ Replaced
  BY <1>2, SessionAssumption DEF Init, Connected, Numbered, Complete, Ready, AgentsAreReady,
     Registered, NamesAreRegistered, Replaced, Everywhere, Agent
<1>6. GrantedOnce
  BY <1>3 DEF GrantedOnce, Init
<1>7. Bounded
  <2>. DEFINE c == Cardinality({a \in Agent : player[a].name # 0})
  <2>1. c \in 0..MaxLogins
    BY <1>4, PlayersFinite
  <2>2. \A n \in Name : erased[n] = 0 /\ m_players[n] = 0
    BY DEF Init
  <2>3. lastAgent + LoginsOnTheWay <= logins
    BY <1>3 DEF Init
  <2>. HIDE DEF c
  <2>4. \A n \in Name : erased[n] + (IF m_players[n] # 0 THEN 1 ELSE 0) <= c
    BY <2>1, <2>2
  <2>. QED BY <2>3, <2>4 DEF Bounded, c
<1>. QED BY <1>4, <1>5, <1>6, <1>7 DEF SessionInvariant

LEMMA Steps ==
  ASSUME SessionInvariant, [Next]_vars
  PROVE  SessionInvariant'
<1>1. ASSUME NEW k \in Conn, Client(k) \/ ReaderEnds(k)
      PROVE  SessionInvariant'
  BY <1>1, ConnectKeeps, LoginKeeps, PlayKeeps, ClosesKeep, DisconnectKeeps DEF Client
<1>2. ASSUME Gateway
      PROVE  SessionInvariant'
  <2>1. PICK m : Closed(m) \/ HandleResp(m) \/ HandleUpdateAgent(m)
    BY <1>2 DEF Gateway
  <2>2. HandleUpdateAgent(m) => Takes(gatewayBox, m, "UpdateAgent") \/ Takes(gatewayBox, m, "ResetAgent")
    BY DEF HandleUpdateAgent
  <2>. QED BY <2>1, <2>2, ClosedKeeps, HandleRespKeeps, AgentArrives, AgentTakenAway
<1>3. ASSUME LoginService
      PROVE  SessionInvariant'
  BY <1>3, HandleLoginKeeps, LoginGoesOnKeeps DEF LoginService
<1>4. ASSUME AgentMgr
      PROVE  SessionInvariant'
  BY <1>4, NameInUse, NameIsFree, AgentCreatedKeeps, PlayerInformedKeeps, AgentKickedKeeps,
     OldPlayerErasedKeeps, HandleReqKickKeeps, KickedForCloseKeeps DEF AgentMgr
<1>5. ASSUME NEW a \in Agent, AgentService(a)
      PROVE  SessionInvariant'
  BY <1>5, AgentStartsKeeps, AgentPlaysKeeps, HandleKickKeeps, KickEndsKeeps DEF AgentService
<1>6. ASSUME RoomService
      PROVE  SessionInvariant'
  BY <1>6, RemovePlayerKeeps, RoomRemovedKeeps DEF RoomService
<1>7. ASSUME UNCHANGED vars
      PROVE  SessionInvariant'
  <2>1. UNCHANGED <<clientVars, gatewayVars, mgrVars, agentVars, down, boxVars, roomBox>>
    BY <1>7 DEF vars, agentVars
  <2>2. TypeOK /\ Connected
    BY DEF SessionInvariant
  <2>3. Moves(0, "none", 0, "none") /\ BoxesOK'
    BY <2>1, <2>2, NoDelivery, Delivery DEF Places
  <2>4. TypeOK'
    BY <2>1, <2>2, <2>3 DEF TypeOK, BoxesOK, clientVars, gatewayVars, mgrVars, agentVars
  <2>5. /\ Numbered' /\ Complete' /\ GrantedOnce' /\ Ready' /\ Registered' /\ Replaced' /\ Bounded'
        /\ \A x \in Everywhere' : x \in Everywhere
    BY <2>1, <2>3, Quiet DEF clientVars, gatewayVars, mgrVars, agentVars, Places
  <2>6. Connected'
    BY <2>1, <2>2, <2>5 DEF Connected, Everywhere, gatewayVars
  <2>. QED BY <2>4, <2>5, <2>6 DEF SessionInvariant
<1>. QED BY <1>1, <1>2, <1>3, <1>4, <1>5, <1>6, <1>7 DEF Next

\* The inductive invariant holds in every state, for all connections, descriptors, names and
\* numbers of logins (gateway.cc, login.cc, agentMgr.cc, agent.cc:37-61).
THEOREM SessionInvariantHolds == Spec => []SessionInvariant
<1>1. Init => SessionInvariant
  BY InitialState
<1>2. SessionInvariant /\ [Next]_vars => SessionInvariant'
  BY Steps
<1>. QED BY <1>1, <1>2, PTL DEF Spec

\* The state keeps its types: no agent is created without a number, no iterator counts too far.
THEOREM SessionTyped == Spec => []TypeOK
<1>1. SessionInvariant => TypeOK
  BY DEF SessionInvariant
<1>. QED BY <1>1, SessionInvariantHolds, PTL

\* A client's messages go only to agents that have their player (agent.cc:92, gateway.cc:167).
THEOREM ReadyAgents == Spec => []AgentsAreReady
<1>1. SessionInvariant => AgentsAreReady
  BY DEF SessionInvariant, Ready
<1>. QED BY <1>1, SessionInvariantHolds, PTL

\* Two descriptors never lead to one agent (agentMgr.cc:21-40, gateway.cc:167-177).
THEOREM AgentsNotShared == Spec => []NoSharedAgent
<1>1. SessionInvariant => NoSharedAgent
  <2>. SUFFICES ASSUME SessionInvariant, NEW f \in Fd, NEW g \in Fd,
                       m_clients[f] # 0, m_clients[g] # 0,
                       agent[m_clients[f]] = agent[m_clients[g]], agent[m_clients[f]] # 0
                PROVE  f = g
    BY DEF NoSharedAgent
  <2>1. TypeOK /\ Connected /\ GrantedOnce
    BY DEF SessionInvariant
  <2>2. m_clients[f] \in Conn /\ m_clients[g] \in Conn
    BY <2>1 DEF TypeOK
  <2>3. m_clients[f] = m_clients[g]
    BY <2>1, <2>2 DEF GrantedOnce
  <2>. QED BY <2>1, <2>3 DEF Connected
<1>. QED BY <1>1, SessionInvariantHolds, PTL

\* The agent a name stands for is registered as that name's (agentMgr.cc:33-42, 59-64).
THEOREM NamesRegistered == Spec => []NamesAreRegistered
<1>1. SessionInvariant => NamesAreRegistered
  BY DEF SessionInvariant, Registered
<1>. QED BY <1>1, SessionInvariantHolds, PTL
=============================================================================
