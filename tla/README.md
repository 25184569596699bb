# Verification of the oimo tank battle server

The repository is the server of a small multiplayer tank game: four services started by
`src/src/main.cc`, one service per logged-in player and one per room, all running as actors on
a prebuilt library, `lib/liboimo.a` of `CMakeLists.txt`, of which the repository has the
headers only (message queues, coroutines, timers, sockets). This
directory holds TLA+ models of the services, the TLC configurations that check them, and
machine-checked proofs about the rooms, the lobby, the sessions and the connections.

## 1. The system

| part | source | state it keeps | operations |
|---|---|---|---|
| room service, one per room | `src/src/service/room.cc`, `player.h` | `m_players`, `m_status`, `m_ownerID`, `m_timeID`; the `Player` objects of its players (`roomId`, `camp`, `hp`, position, wins and defeats) | add, remove, start a battle, sync, fire, hit, two queries; the timer that ends a battle |
| room manager, `roommgr` | `roomMgr.cc` | `m_rooms` (room id to service id), the static `roomID` | create, remove, get, list rooms |
| agent, one per player | `agent.cc` | `m_room`, `m_player` | one handler per client message, `PlayerInfo`, `Kick` |
| agent manager, `agentmgr` | `agentMgr.cc` | `m_players`, `m_agents` | log in (create an agent), kick |
| login service, `login` | `login.cc` | none | register, log in |
| gateway | `gateway.cc`, `clientState.h` | `m_clients` (fd to connection, last ping, agent) | accept, parse and forward, answer, update the agent, ping and time-out, close |
| message names and framing | `msgType.h`, `JSONUtils.h` | none | name to number, length-prefixed JSON |
| runtime | `src/include/*.h` and the library | queues, suspended coroutines, timers | `call`, `send`, answers, `newService`, `removeService`, timers, scheduling |

**Interaction.** Services share no queue and no lock; they exchange messages. `send` is one way;
`call` suspends the coroutine of the handler until the answer comes, *and the service goes on
with other messages meanwhile*. So a handler is atomic between two calls and not across one.
What is shared in spite of that are the `Player` objects: the room, the agent and the agent
manager hold pointers to the same object and write or read it from different worker threads.

**What is hard.** The rules of a room have to hold for every order of joins, departures,
starts, hits and ticks. Everything that is read before a call and used after it can be stale:
the agents look at `roomId` before two calls, `handleCreateRoom` reads its counter again after
one, the agent manager keeps an iterator over two. Rooms remove themselves by a message that
other messages can overtake. Messages of a removed service are lost with their callers.
Connections close from three places, one of them a timer. `hazards` in `PROJECT.json` lists
each of these at its line.

**What makes each part correct.**
- Room: a player is in one room; the room has an owner; camps never outgrow the table of birth
  positions; the clients show what the room holds; every battle ends and gives every player one
  result, the right one; an empty room goes.
- Room manager: an entry names the running service of that room id; a room is removed only when
  it is empty.
- Agents: the agent knows the room its player is in; each request is answered once.
- Sessions (agent manager, login, gateway): one agent per name; each login is answered; a closed
  connection leaves no agent and no player in a room behind; a message goes to the client it is
  for.
- Framing: what was serialised is parsed back; lengths stay within the buffers.

## 2. The plan

| order | module | what it is | composes |
|---|---|---|---|
| 1, done | `Rooms` | the room services and their players | |
| 2, done | `RoomsProofs` | proofs of the invariants and of one action property of `Rooms` | `Rooms` |
| 3, done | `Lobby` | agents, room manager, rooms and their queues; refines `Rooms` | `Rooms` |
| 4, done | `Session` | connections, login, agent manager, kicks | |
| 5, done | `Match` | abstract specification of rooms and battles that `Rooms` implements | |
| 6, done | `Connection` | one connection of the gateway: framing, names, the read loop, the heartbeat | |
| 7, done | `MatchProofs` | `RoomsSpec => ImplementsMatch` from the invariants of `RoomsProofs` | `Rooms`, `Match` |
| 8, done | `Queues`, `QueueProofs` | what is in a queue and how many of a kind, and what adding and taking do to it | |
| 9, done | `SessionInv`, `SessionProofs` | the inductive invariant of `Session` and its proof | `Session`, `Queues` |
| 10, done | `LobbyInv`, `LobbyCalls`, `LobbyProofs` | the inductive invariant of `Lobby`, the lemmas about its calls, the proof, and the refinement of `Rooms` and `Match` | `Lobby`, `RoomsProofs`, `MatchProofs` |
| 11, done | `FrameProofs`, `ConnectionProofs` | the bytes of the messages; all invariants of `Connection` | `Connection` |

Left: `EnterAnswersAreTrue` and the refinements are proved for one creator and clients that wait for
their answers. A weaker hypothesis, clients that wait but several creators, leaves what does not
depend on the table of `roommgr` (`OneMessagePerCall`, the rooms' invariants) and would say how far
`lobby_create_race` reaches.

The queue of queues in `queue.h` was planned and dropped: what the header holds is a deque whose
methods each run under one lock, which is atomic by itself (`size` is not locked, and nobody calls
it). Where a wake-up could be lost, in `PackleQueue` and the workers, the bodies are in the library.

## 3. The models

### Rooms

Module `Rooms` models `RoomService`. No handler of it makes a call, so each handler is one
action, from the message to the last broadcast, and the messages may come in any order: `Enter`,
`Leave`, `Start`, `Sync`, `Fire`, `Hit` take the message of that name to a running room (`Handle...`
is the handler, with its early returns), `Tick` is the timer callback `update`, `Create` is `init`, `Remove`
the destruction of a room that asked for it. The variables carry the names of the data members;
a per-player field is a function on `Player`, a per-room field on `Room`.

`view` and `notice` are what each client was last sent: the player list, with the scores it carries, and
the last battle message. After a battle `update` changes the scores and sends the result only, so the
scores a client shows are behind until somebody joins or leaves; `ViewsAgree` says that the players,
camps and owner of the list are the room's, and the scores never ahead of the players' own.
`fought` is a history variable that counts the battles a player was in at the start.
`removing` says that the room sent `RemoveRoom`.

Abstracted: coordinates (an entry of `birthPos`, or "moved"), the JSON texts,
the damage (a constant) in a hit. A name is a number, its place in
the order of `std::map`, which decides the next owner and the birth positions.

`RoomsNext` and `RoomsSpec` are the rooms as they are, and what the proofs are about. `Next` and `Spec` are for
TLC: they add `MayStart` and `MayHit`, which bound the battles and the hits on the dead.

One discipline is assumed of the callers: an agent asks a room to add its player only while the
player's `roomId` is 0 or -1 (`Enter`), as `agent.cc:92` and `agent.cc:117` check. `Lobby` shows when
that is kept and when it is not.

### Match

Module `Match` is what the rooms promise, without messages, owners, hit points or timers: a player
joins one room at a time and never the larger team, nobody joins a battle, who leaves a battle has
lost it, and a battle ends with one team wiped out, which loses, while everybody else in the room
wins. `Rooms` implements it, and so does `Lobby` (`ImplementsMatch`, checked and proved) under the mapping of `Game`: `At` is
`roomId` (0 also stands for the -1 of a player who left), `team` is `camp`, `Standing` is the players
with hit points left, `Playing` the rooms that fight. Synchronisation and shots are stutters, and so are the creation and removal of rooms.

### Lobby

Module `Lobby` extends `Rooms` with the agents, the room manager and the queues. A handler that
calls is cut at its calls. The part before the first call is `Msg...` in an agent and `CreateRoom`,
`GetRoomList` in the room manager; the parts after are `JoinRoom` and `Finish`, `RoomCreated` and `NextInList`.
`job` holds the suspended handlers of the agents (`m_suspendingPool`), each with its own slot so
that two handlers of one agent can be suspended at once; `inbox` the answers on their way to an
agent; `mgrBox` and `box` the queues. A suspended handler of the room manager is the message that
will resume it, with the caller it will answer in `from`; the iterator of a suspended
`handleGetRoomList` is in `listing`.

`Room` is both the set of room ids and of room services. As `CreateRoom` counts up, the n-th
service belongs to the n-th creation, and `m_rooms` says which service an id names.

If the entry a suspended list iterator stands on was erased, using the iterator is undefined
behaviour: `NextInList` then goes on at any entry, or ends, or `ListCrashes` ends the process. After that
nothing happens any more (`down`), and `RequestsAnswered` excepts it.

The requests an agent refuses at once are left out, because they change nothing. `GetAchieve`
reads two numbers and is left out too. Clients send the messages of the protocol only; what other
names do is in `Session` (`Play`) and `Connection`.

The agent manager kicks an agent when its client is gone, or when another client logs in under the
name. `HandleKick` takes one such message in a run, at any moment, also while other handlers of the agent are
suspended. `kicked` remembers how: a client that is gone (`closed`) sends nothing more; one that is
`replaced` goes on until the gateway hears of it. Two things go wrong in the code then, and the properties except them by
name: a kick that finds the agent in the middle of joining a room (`closedJoining`) returns at once,
and the player is added later and stays; and a replaced client may enter another room before
`handleKick` sets `m_room` to 0.

`LobbyInv` has the inductive invariant of the lobby; it is checked by `lobby_calls` and proved in
`LobbyProofs`.

### Session

Module `Session` has the gateway, the login service, the agent manager, and the two messages the
agent manager sends to agents. Handlers are cut at their calls as in `Lobby`; here the services
wait for each other in many ways, so what a suspended handler remembers (the connection `k`, the
name `n`, the agent `a`, the node its iterator stands on) travels in the messages and comes back
with the answer. `Msg` lists them.

`Connect` is the start of `onConnect`; `Login` and `Play` are messages it forwards; `Timeout`,
`BadMessage` and `ReaderEnds` are the three ways into `close`, which runs up to its call to the
agent manager (`Close`) and goes on in `Closed`. `HandleReqLogin` starts an agent, or kicks the one
there is; `AgentCreated`, `PlayerInformed`, `AgentKicked` and `OldPlayerErased` are what follows its
calls. `inRoom` says whether the agent's player is in a room: a client's message may change it in any
way (`Lobby` says how), and a kick then waits for the room.

A client may send logins before the last one is answered, so `waiting` is a count. `Play` is a message of
any name on a connection that has an agent: one that is named `Kick` does what `handleKick` does, and one
that is named `PlayerInfo` has no player in it, so that the `any_cast` of `agent.cc:38` throws, and the process ends.

The room may be gone before it takes the message of a kick: the last player leaves, and
`handleRemoveRoom` removes the room with its queue. Then nobody answers `handleKick` (`RoomRemoved`), and if the
kick came from `close`, agent manager and gateway wait for ever: `conn->close()` is not reached, and the agent
not forgotten. `lost` has the connections to which that has happened, and `GoneClientsAreForgotten` excepts them.

The services know a connection by its descriptor, so `m_clients[fd[m.k]]` is whoever has the
descriptor now. `down` is a crash: `handleUpdaeAgent` for a descriptor without a state dereferences a
null pointer; `AgentPlays` has another, above. Erasing an entry of `m_players` through an iterator whose node is gone is undefined
behaviour: the process ends, or an entry is lost, or nothing happens. `erased` counts the nodes of
each name, so that a node that was made again is another one.

`SessionInv` has the inductive invariant of the sessions, checked by `session_logins` and proved in
`SessionProofs`. It counts messages with the operators of `Queues`.

A descriptor is free as soon as its connection is closed, though the loop of `onConnect` may not have
noticed. When it does, it calls `close` a second time, which erases the descriptor from `m_clients`, also if it
is another connection's by then: that one is not `Listed` any more and gets no answers, which
`LoginsOfFreeNames` excepts. Assumed of the library: a second `conn->close()` does nothing.
Registering is left out, since the handler keeps nothing; pings are in `Connection`.

### Connection

Module `Connection` looks at one connection from the inside. `wire` is the bytes that have arrived
and were not read; a byte is its value, and what it is part of. The client frames its messages as
`JSONUtils::serialize` does (`Send`), and the connection may be cut after any byte (`Cut`). At the end the
client may send lengths that leave no room for a text, the type and no text (`SendBad`, `BadFrame`).
`ReadLens`, `ReadType`, `ReadBody` are the three calls of `recvN` in the loop of `onConnect` and
what follows each; `ReadBody` includes `handleMsg`: a ping is answered here, a text that does not parse closes
the connection, every other message is forwarded under `toMsgType` of its `protoName`. While the close
waits for the agent manager the loop is inside `handleMsg` (`phase` is "handling"), and comes back when it is
through (`HandleMsgEnds`), to find the connection closed. `ReadEnds` is a short
read, or the condition of the loop. `CheckPing` is the heartbeat timer; `Close` is `close` up to its
call, `CloseEnds` the rest.

`checkLens` refuses a `msgLen` below `typeLen`, though the comparison should be with `typeLen + 2`, so that
`typeLen` and `typeLen + 1` pass and the length of the text is -2 or -1. `recvN` takes it as a `size_t`, and so many
bytes never come: the loop waits until the connection ends. `ReadsFit` says just that of these lengths.

A JSON text is its size and the name it carries, `""` for a text that does not parse; the parser
reads the text at the beginning of the buffer and does not look at what follows it. What the client
writes as the type of a message is read and not used by the code, nor by the model.

`MsgType` and `NameLen` are the list of `msgType.h` with the lengths beside the names. `GetRoomInfo` is
given a length one short there: the name is not found, and `GetRoomInf` stands for its number. `Dispatched` says
so (`Number`), for any name a client may send.

## 4. The runs

| run | question | result |
|---|---|---|
| `rooms_battles` | One room, three players (a camp of two), one battle each: types, owner, views, birth positions, results, with hits on the dead; the room implements `Match`; a decided battle ends. | holds |
| `rooms_two` | Two rooms of two places, three players: nobody is in two rooms, camps fit their table, an empty room asks to be removed; the inductive invariant of the proofs. | holds |
| `lobby_calls` | Two agents, `roommgr`, two rooms, and a kick at any time: the table names running rooms, a call is with one party, requests are answered, an agent knows its player's room, a player whose client is gone leaves, a battle is settled once, the lobby implements `Rooms`, and the inductive invariant of its proofs holds. | holds |
| `lobby_rooms` | Three players and rooms of two places, with battles and a kick: the lobby implements `Rooms`, and what a client is told about its entry is true when it is told. | holds |
| `lobby_late_entry` | Is a removed room empty? | no |
| `lobby_create_race` | Does an entry of `m_rooms` name the room of its id? | no |
| `lobby_pipelined` | Is a player in one room, if the client does not wait for its answers? | no |
| `session_logins` | Three connections on two descriptors, two logins of one name at once, also from one connection: an agent has its player before it gets messages, no two connections share it, every name is that of a registered agent; the inductive invariant of the proofs. | holds |
| `session_ends` | Two connections on one descriptor, two logins: when a client is gone its connection is closed and its agent forgotten, lost kicks excepted; a login of a free name is answered. Both would fail if the services waited in a circle. | holds |
| `session_answers` | Is every login answered? | no |
| `session_descriptor` | Does a connection have an agent only if its client has sent a login for it? | no |
| `connection` | Two messages of four kinds, lengths that do not fit and three rounds of the heartbeat: the loop stays in step with the bytes, what it reads fits its arrays, each message is forwarded once under its number, a silent client is given up in time, and every message is taken. | holds |

The five that fail are behaviours of the code, each found with a trace of a few steps:
- *late entry*: the last player leaves; the room sends `RemoveRoom`; a player whose `GetRoom` was
  answered before is added; `handleRemoveRoom` removes the room without asking it.
- *create race*: two `handleCreateRoom` overlap in `newService`; both make their entry under the
  second id.
- *pipelined*: two requests of one client pass the check of `roomId` before either room adds the
  player.
- *answers*: the login finds the name in use; the other player is kicked, and `handleReqLogin`
  returns without an answer. `LoginsOfFreeNames` is what holds instead.
- *descriptor*: a connection is closed during its login, the next one gets its descriptor, and
  `UpdateAgent` arrives.

Every property of a passing run is broken by a mutation of the modelled code, listed under
`mutants` in `PROJECT.json`; the mutated operators stand beside the operators they change.

### Bounds, and why they are enough

- `Player`, `Room`: three players make camps of different sizes, a tie and a change of owner among
  two candidates; two rooms make moving possible. The code treats all rooms alike and players
  differ by the order of their names only, which is why no symmetry is declared.
- `MaxPlayers`, `BirthSlots`: 6 and 3 in the code; the ratio is what matters, and the proof is for
  every pair with `MaxPlayers <= 2 * BirthSlots`.
- `FullHp`, `Damage`: one hit kills, or two do. `MinHp` bounds hits on the dead; `MaxBattles` the battles. In
  `rooms_*` these are what makes the state space finite; in the lobby they never bind, and `RoomsSpec` does not have them.
- `MaxRequests`: the messages an agent gets; three are enough to enter, leave and enter again, or to create, start and
  leave, two to enter and leave, or to create and start. `RoomsLeft` bounds creations by the rooms there are. `MaxPending` is
  1 for clients that wait for each answer, 2 in `lobby_pipelined`. `Creators` has one player in the
  passing runs, since two creations at a time break the table (`lobby_create_race`).
- `Session`: three connections on two descriptors are the least in which a descriptor is used again while
  another connection is open. Two logins and one event more are enough for two agents of one name, for a login that kicks an
  agent while its connection is closed, which is where the iterator dangles, and for a client that logs in again before
  it is answered. What takes a third login, an entry that was made again under a dangling iterator, is left to the proofs.
  In `session_ends` one descriptor serves both connections, so that every answer to the first can reach the
  second. `MaxLogins` bounds logins and therefore agents; `MaxEvents` everything else that clients do.
  One name suffices: logins of different names meet in the queues only.
- `Connection`: `Byte` is 8 instead of 256 and `MAX_TYPE_LENGTH` 10, so that a length of two bytes, a type
  as long as its array and a longer one are short enough to count through; two messages show whether the loop is in step
  after the first. `MaxTime` is long enough for a ping just before a check and two checks after it, one of
  them late (`MaxLate`). Four kinds of messages: a ping, a name that only begins like one of the list, `GetRoomInf`, which fits the
  entry with the wrong length and is as long as the array, and a text that does not parse. Two pairs of lengths that do not fit: a
  message one byte longer than its type, and a type longer than the array. The names of the list are compared with
  their lengths by `NamesAssumption`, in every run.
- `Requests` selects the messages of a run, to keep each question small.

The lobby, session and connection runs check no deadlock, because the clients stop after `MaxRequests`,
`MaxLogins` or `MaxSent` messages; the room runs because battles and hits are bounded and removed rooms do nothing more.

### Fairness

`FairSpec`: the timer of a room that is armed ticks (`room.cc:246-247`, an interval timer of the time
wheel), nothing else; players need not do anything. `LobbySpec`: each service with a message in its
queue goes on, because `GlobalQueue` holds the queues that are not empty and the workers take them in
order (`queue.h:59-86`); weak fairness per service is what that gives. In `Session` the same holds of every service, and a reader notices that its
connection has ended. Clients and the heartbeat are not fair. In `Connection` only the loop is fair: a
coroutine that waits in `recvN` goes on when its bytes are there, or when they cannot come any more. The bound on
silence is a safety property, for timers that are late by `MaxLate` at most.

## 5. The proofs

Every invariant that a passing run checks is proved, for all values of the constants that the
assumptions admit, and with them the action properties and the refinements. Liveness stays with TLC.

### Rooms and Match

`RoomsProofs` proves, for all sets of players and rooms, all capacities and hit points allowed by
the assumptions of `Rooms`, every invariant the room runs check and `ResultsFollowSurvivors`, of `RoomsSpec`,
without a bound on battles or hits.
`TypeCorrect` stands alone; the rest follows from `Invariance`, `RoomsSpec => []IInv`.

`IInv` joins the properties with two facts none of them implies. `NotStartedYet`: a room that was
never started has no players and no battle, so `Create` may reset status and owner without
disturbing the others. `NoCampOutside`: a player outside all rooms has camp 0. `switchCamp` runs when
the joining player is in the map already, and would count a stale camp; without this fact the camps
are not inductive. The properties also rest on each other: views need `RoomIdMatches` (a step in one
room leaves the lists of the others alone), birth positions and results need `RoomIdMatches` and
`CampsFit`.

Each conjunct has a lemma that a step keeps it (`...Step`), with one case per kind of step. `Steps`
first reduces the disjuncts of `RoomsNext` to those kinds, so that refused messages are dealt with once.
The bound on the camps is counted in `CampsMakeRoom`: with fewer than `MaxPlayers <= 2 * BirthSlots`
players in two disjoint camps, the smaller camp has a place. Distinct birth positions rest on `BirthIndexesDiffer`: of
two players of a camp the one with the smaller name is counted among those before the other.
The action property needs the invariant only for the players' rooms and camps.

`MatchProofs` proves `RoomsSpec => ImplementsMatch`. `MappedRooms` shows that
the members and teams of `Match` are the lists and camps of the rooms, which is `RoomIdMatches`. Then each
kind of step of `Steps` is shown to be one action of `Match` or a stutter, with one lemma each: `JoinStep` needs
`NoCampOutside` and `CampsFit` (the camp that `switchCamp` takes is the smaller one and has a place), `EndStep` that
`judgeWin` names the winner of a room whose other camp is dead. The steps that leave the mapped state
alone are dealt with once, in `QuietStep`.

Assumed (module `Rooms`): names and rooms are positive numbers and finitely many names; capacity at
most twice the birth positions; positive damage and full hit points.

### Sessions

`SessionProofs` proves `Session`'s three invariants and its types from `SessionInvariantHolds`. The properties say
where agents are; what makes them inductive is where the messages are that take an agent somewhere.
`GrantedOnce` counts them: each agent has one message of a login on its way, or one connection, and so
two connections never share it, though both may have had the same descriptor. `Ready` follows the agent
from `PlayerInfo` to the connection. `Replaced` is about the login that kicks an older agent: it
remembers a node of `m_players`, and once that node is erased (`erased` has passed it) the name does
not stand for that agent again, which is why the dangling iterator takes an entry of the table away but never puts a wrong
one there. `Bounded` keeps the counters below the logins that were sent.

Almost every step takes one message from a queue and puts at most one into another. This is
stated once (`Moves`), and the counts follow from `QueueProofs`: what adding to a queue and taking from
it do to the number of messages of any kind.

### The lobby

`LobbyProofs` proves every invariant of `Lobby`, the action property `EnterAnswersAreTrue`, and the two refinements
`LobbyImplementsRooms` and, through it, `LobbyPlaysMatch`. They have the hypothesis `OneByOne`: a client waits
for an answer before it sends the next request, and one player creates rooms. It is there
because the code needs it; `lobby_pipelined` and `lobby_create_race` show two of the properties false without
it. How many players, rooms and requests there are is free, and kicks may come at any
moment.

`LobbyInvariant` has three parts. About the calls: what is in a queue belongs to a handler that waits for that
kind of message (`MgrMail`, `AgentMail`, `RoomMail`, `JobFits`), at most once (`AtMostOne`), and a handler that waits
has a message somewhere or its room was removed (`NotLost`). About `roommgr`: `Table`. About the players, for each of
them: a player on its way into a room is in no room (`JoinsFromOutside`), the agent of one that is in a room knows which,
and a handler that asked the room to remove it has no answer yet (`KnowsRoom`), a kicked one does not come
back (`StaysOut`), and an answer on its way about an entry is true still (`TrueAnswers`).

`LobbyCalls` has the first part. A handler's step takes away the one message of its call and sends
one: `Rest` says what remains of the queues without it, so that the lemmas `CallToMgr`, `CallToAgent` and their like
do the counting once for all handlers. `LobbyProofs` then takes each handler
through the other parts and shows, with the same cases, that what it does to the rooms is a step of
`RoomsNext`: `Enter` finds its player outside all rooms (`JoinsFromOutside`), the room that `roommgr` removes has asked for it
(`MgrMail`), and a room is initialised once (`RoomMail`).

### Connections

`ConnectionProofs` proves every invariant of `Connection`, for every set of messages, every width of a byte, every
length of the array for the type, all intervals and latenesses.

`LoopInv` says `InStep` byte by byte (`Follows`) and that the lengths read are those of the message the loop is at, or
the ones made up after all messages (`AtMessage`, of `AtSent` and `AtBad`). `Follows` needs to know what the bytes of all messages are, and these are defined by recursion on the list
of messages. What is needed of them (`BytesFromUnfolds`, `BytesFromTyped`, `BytesFromAppend` in `FrameProofs`: they unfold, they
are bytes, and a message sent later adds its frame at the end) is proved by induction over the positions, where a statement
stands as the set of numbers for which it holds (`Induction`, `Downward`, from the well-foundedness of
the numbers). `LengthIs` is the arithmetic of the two bytes.

`DispatchInv` adds to `Dispatched` that the loop goes on only if every text parsed so far, or the connection is closed (`GoesOn`). `NameIsSent` shows that the parser
finds the name of the message that was sent, from `Follows`. `HeartbeatInv` says when the timer is to fire: within six intervals after the
last ping, because it was set when the client had been silent for three at most.

Assumed (module `Connection`): a frame with the longest message fits the two-byte length, as a client of the protocol has to see to;
the lengths of `BadFrame` are below `typeLen + 2`; and `NamesAssumption`, that the characters of each name of the list up to the length
beside it are the name, or `GetRoomInf` for `GetRoomInfo`. That is a fact about 33 strings, which the provers
cannot compute; TLC evaluates it, for the whole list.

### What stays with TLC

Liveness: `DecidedBattleEnds`, `RequestsAnswered`, `GoneClientsAreForgotten`, `LoginsOfFreeNames`, `MessagesAreTaken`. The prover has
no means for fairness and `ENABLED`. And the five properties that the code does not have.

## 6. What is taken from outside the source

The bodies of the runtime are in the library `liboimo.a`, not in the source. The models use it as the
services do: a call suspends only its coroutine; messages of one sender to one receiver keep
their order; an answer is sent when a handler that called `setReturnPackle` ends; what is sent to
a removed service is lost; destroying a room disarms its timer (`room.cc:24-29`); a new service takes
`INIT` first. `std::make_shared<Player>()` value-initialises the player, so `roomId` starts at 0.

## 7. Not modelled, and why

Sockets, the event loop, `Packle` buffers, logging, configuration and threads are declarations
whose bodies are in the library, and hold no state of the game. The queue of queues is left out for the
reason given in section 2. Data races on the shared `Player` objects are modelled only as
interleavings of whole handlers: the fields read across services (`roomId` in the agents) are
single words. Messages longer than the two-byte length can say are not modelled: nothing in the code
refuses to send one, and a list of very many rooms would be.
