---------------------------- MODULE Connection ----------------------------
(***************************************************************************)
(* One connection of the gateway (src/src/service/gateway.cc): the loop of *)
(* onConnect that cuts the client's bytes into messages, the names of the  *)
(* messages (msgType.h), their framing (JSONUtils.h), and the heartbeat.   *)
(* What happens to a message that was forwarded is in Session and Lobby.   *)
(*                                                                         *)
(* The client frames its messages as JSONUtils::serialize does; the last   *)
(* thing it sends may be lengths that do not fit each other.  It may be    *)
(* cut off anywhere, in the middle of a message too.                       *)
(***************************************************************************)
EXTENDS Integers, FiniteSets, Sequences

CONSTANTS
  Byte,             \* how many values a byte has, 256
  MAX_TYPE_LENGTH,
  kPingInterval,    \* in seconds
  Message,          \* what clients send: the name, "" if the text does not parse, and the text's size
  BadFrame,         \* the lengths without room for a text that a client may write
  MaxSent,          \* bound of the model: the messages the client sends
  MaxTime,          \* bound of the model: the seconds that pass
  MaxLate           \* how late a timer is at most

MAX_MSG_LENGTH == Byte * Byte - 1

ASSUME ConnectionAssumption ==
  /\ Byte \in Nat \ {0}
  /\ {MAX_TYPE_LENGTH, kPingInterval, MaxSent, MaxTime, MaxLate} \subseteq Nat
  /\ \A m \in Message :
       /\ m.size \in Nat \ {0} /\ Len(m.name) \in Nat
       /\ Len(m.name) + m.size + 2 <= MAX_MSG_LENGTH
  /\ \A b \in BadFrame :
       /\ {b.msgLen, b.typeLen} \subseteq 0..MAX_MSG_LENGTH
       /\ b.msgLen < b.typeLen + 2

VARIABLES
  \* the client and the bytes on their way
  sent,       \* the messages it sent
  bad,        \* the lengths it sent after them, or NoFrame
  wire,       \* the bytes not read yet
  cut,        \* the client is gone; wire holds what is left
  \* the loop of onConnect
  phase,      \* what it reads next: "lens", "type" or "body"; "handling" while handleMsg
              \* closes the connection; or "ended"
  typeLen, bodyLen,
  taken,      \* how many messages handleMsg got
  forwarded,  \* the types of those it forwarded
  pongs,      \* the answers to pings
  \* the heartbeat and close
  link,       \* "open", "closing" while close waits for agentmgr, "closed"
  armed, due, \* the timer: is it there, when is it to fire next
  lastPingTime,
  now

clientVars == <<sent, bad, wire, cut>>
readerVars == <<phase, typeLen, bodyLen, taken, forwarded, pongs>>
timerVars == <<link, armed, due, lastPingTime>>
vars == <<clientVars, readerVars, timerVars, now>>

-----------------------------------------------------------------------------
(* Names *)

MsgType ==
  [MsgPing |-> 0, MsgRegister |-> 1, MsgLogin |-> 2, MsgKick |-> 3, MsgGetAchieve |-> 4,
   MsgGetRoomList |-> 5, MsgGetRoomInfo |-> 6, MsgCreateRoom |-> 7, MsgEnterRoom |-> 8,
   MsgLeaveRoom |-> 9, MsgStartBattle |-> 10, MsgSyncTank |-> 11, MsgFire |-> 12, MsgHit |-> 13,
   MsgUnkown |-> 14, Resp |-> 100, UpdateAgent |-> 101, ReqLogin |-> 102, ReqKick |-> 103,
   PlayerInfo |-> 104, Kick |-> 105, AddPlayer |-> 106, RemovePlayer |-> 107,
   GetRoomInfo |-> 108, StartBattle |-> 109, CreateRoom |-> 110, RemoveRoom |-> 111,
   GetRoom |-> 112, ReqRoomInfo |-> 113, GetRoomList |-> 114, SyncTank |-> 115, Fire |-> 116,
   Hit |-> 117]

\* The lengths written beside the names; GetRoomInfo's is one short.
NameLen ==
  [MsgPing |-> 7, MsgRegister |-> 11, MsgLogin |-> 8, MsgKick |-> 7, MsgGetAchieve |-> 13,
   MsgGetRoomList |-> 14, MsgGetRoomInfo |-> 14, MsgCreateRoom |-> 13, MsgEnterRoom |-> 12,
   MsgLeaveRoom |-> 12, MsgStartBattle |-> 14, MsgSyncTank |-> 11, MsgFire |-> 7, MsgHit |-> 6,
   MsgUnkown |-> 9, Resp |-> 4, UpdateAgent |-> 11, ReqLogin |-> 8, ReqKick |-> 7,
   PlayerInfo |-> 10, Kick |-> 4, AddPlayer |-> 9, RemovePlayer |-> 12, GetRoomInfo |-> 10,
   StartBattle |-> 11, CreateRoom |-> 10, RemoveRoom |-> 10, GetRoom |-> 7, ReqRoomInfo |-> 11,
   GetRoomList |-> 11, SyncTank |-> 8, Fire |-> 4, Hit |-> 3]

\* The characters of t that strncmp compares.
Compared(t) == SubSeq(t, 1, NameLen[t])

\* A fact about these strings, which are no sequences for the provers: the characters that are
\* compared make up the name, but for GetRoomInfo.
ASSUME NamesAssumption ==
  \A t \in DOMAIN NameLen :
    /\ Compared(t) = IF t = "GetRoomInfo" THEN "GetRoomInf" ELSE t
    /\ Len(Compared(t)) = NameLen[t]

\* Mutant: the lengths are not compared.
toMsgType_Prefix(name) ==
  LET fits == {t \in DOMAIN NameLen :
                 Len(name) >= NameLen[t] /\ SubSeq(name, 1, NameLen[t]) = Compared(t)}
  IN  IF fits = {} THEN MsgType["MsgUnkown"] ELSE MsgType[CHOOSE t \in fits : TRUE]

toMsgType(name) ==
  LET fits == {t \in DOMAIN NameLen : Len(name) = NameLen[t] /\ name = Compared(t)}
  IN  IF fits = {} THEN MsgType["MsgUnkown"] ELSE MsgType[CHOOSE t \in fits : TRUE]

-----------------------------------------------------------------------------
(* Frames.  A byte is a value and what it is a part of. *)

\* The two bytes of a length.
LengthBytes(n) == << <<n % Byte, "length">>, <<(n \div Byte) % Byte, "length">> >>

\* The text of m, a JSON value that has the name as its protoName.
Text(m) == [i \in 1..m.size |-> <<i % Byte, m.name>>]

\* What stands before a text: its length and its type's, and the type.
Header(mLen, tLen) ==
  LengthBytes(mLen) \o LengthBytes(tLen) \o [i \in 1..tLen |-> <<i % Byte, "type">>]

serialize(m) == Header(Len(m.name) + m.size + 2, Len(m.name)) \o Text(m)

NoFrame == [msgLen |-> -1, typeLen |-> -1]

\* The bytes of lengths that leave no room for a text; nothing comes after the type.
BadBytes(b) == IF b = NoFrame THEN <<>> ELSE Header(b.msgLen, b.typeLen)

\* lens[at] is the low byte of a length, unsigned.  Mutant: bytes with a sign.
Length_Signed(lens, at) ==
  LET signed(b) == IF 2 * b >= Byte THEN b - Byte ELSE b
  IN  Byte * signed(lens[at + 1][1]) + signed(lens[at][1])
Length(lens, at) == Byte * lens[at + 1][1] + lens[at][1]

\* Mutant: the two bytes of the type's own length are counted to the text.
BodyLength_Both(mLen, tLen) == mLen - tLen
BodyLength(mLen, tLen) == mLen - tLen - 2

\* Mutants: a type as long as the buffer is refused; longer ones are not.
checkLens_Strict(mLen, tLen) ==
  mLen <= MAX_MSG_LENGTH /\ tLen < MAX_TYPE_LENGTH /\ mLen >= tLen
checkLens_Type(mLen, tLen) == mLen <= MAX_MSG_LENGTH /\ mLen >= tLen

checkLens(mLen, tLen) ==
  mLen <= MAX_MSG_LENGTH /\ tLen <= MAX_TYPE_LENGTH /\ mLen >= tLen

-----------------------------------------------------------------------------
(* The client *)

Send(m) ==
  /\ ~cut /\ link # "closed" /\ bad = NoFrame
  /\ Len(sent) < MaxSent
  /\ sent' = Append(sent, m)
  /\ wire' = wire \o serialize(m)
  /\ UNCHANGED <<bad, cut, readerVars, timerVars, now>>

SendBad(b) ==
  /\ ~cut /\ link # "closed" /\ bad = NoFrame
  /\ bad' = b
  /\ wire' = wire \o BadBytes(b)
  /\ UNCHANGED <<sent, cut, readerVars, timerVars, now>>

\* The connection is cut; what did not arrive is lost.
Cut ==
  /\ ~cut
  /\ cut' = TRUE
  /\ \E n \in 0..Len(wire) : wire' = SubSeq(wire, 1, n)
  /\ UNCHANGED <<sent, bad, readerVars, timerVars, now>>

-----------------------------------------------------------------------------
(* close *)

\* Up to its call of agentmgr, or to its end if there is no agent to kick.
Close ==
  /\ armed' = FALSE
  /\ link' \in (IF link = "closed" THEN {"closed"} ELSE {"closing", "closed"})
  /\ UNCHANGED <<due, lastPingTime>>

CloseEnds ==
  /\ link = "closing"
  /\ link' = "closed"
  /\ UNCHANGED <<clientVars, readerVars, armed, due, lastPingTime, now>>

-----------------------------------------------------------------------------
(* The loop of onConnect *)

\* What recvN is asked for.
Wanted == CASE phase = "lens" -> 4 [] phase = "type" -> typeLen [] phase = "body" -> bodyLen

\* recvN takes the number as a size_t (include/connection.h:33): a negative one never comes.
Received == Wanted >= 0 /\ Len(wire) >= Wanted

Read == wire' = SubSeq(wire, Wanted + 1, Len(wire))

\* Mutant: the loop goes on when the connection is closed.
ReadLens_Closed ==
  /\ phase = "lens" /\ Received
  /\ Read
  /\ typeLen' = Length(wire, 3)
  /\ bodyLen' = BodyLength(Length(wire, 1), typeLen')
  /\ IF checkLens(Length(wire, 1), typeLen')
     THEN phase' = "type" /\ UNCHANGED timerVars
     ELSE phase' = "ended" /\ Close
  /\ UNCHANGED <<sent, bad, cut, taken, forwarded, pongs, now>>

\* Lengths that are refused end the loop, which closes the connection.
ReadLens ==
  /\ phase = "lens" /\ link # "closed" /\ Received
  /\ Read
  /\ typeLen' = Length(wire, 3)
  /\ bodyLen' = BodyLength(Length(wire, 1), typeLen')
  /\ IF checkLens(Length(wire, 1), typeLen')
     THEN phase' = "type" /\ UNCHANGED timerVars
     ELSE phase' = "ended" /\ Close
  /\ UNCHANGED <<sent, bad, cut, taken, forwarded, pongs, now>>

ReadType ==
  /\ phase = "type" /\ Received
  /\ Read
  /\ phase' = "body"
  /\ UNCHANGED <<sent, bad, cut, typeLen, bodyLen, taken, forwarded, pongs, timerVars, now>>

\* The name of the message at the beginning of a text, "" if there is none; the parser does not
\* look at what follows it.
protoName(text) ==
  LET begins == {m \in Message : Len(text) >= m.size /\ SubSeq(text, 1, m.size) = Text(m)}
  IN  IF begins = {} THEN "" ELSE (CHOOSE m \in begins : TRUE).name

\* The text is read, and handleMsg deals with it: a text that does not parse closes the
\* connection, a ping is answered if the connection is still listed, everything else is forwarded.
ReadBody ==
  LET name == protoName(SubSeq(wire, 1, bodyLen))
  IN  /\ phase = "body" /\ Received
      /\ Read
      /\ taken' = taken + 1
      /\ \/ /\ name = ""
            /\ phase' = "handling"
            /\ Close
            /\ UNCHANGED <<forwarded, pongs>>
         \/ /\ name = "MsgPing"
            /\ phase' = "lens"
            /\ lastPingTime' = now
            /\ pongs' = IF link = "open" THEN pongs + 1 ELSE pongs
            /\ UNCHANGED <<forwarded, link, armed, due>>
         \/ /\ name \notin {"", "MsgPing"}
            /\ phase' = "lens"
            /\ forwarded' = Append(forwarded, toMsgType(name))
            /\ UNCHANGED <<pongs, timerVars>>
      /\ UNCHANGED <<sent, bad, cut, typeLen, bodyLen, now>>

\* The rest of handleMsg, when close is through, and back to the loop.
HandleMsgEnds ==
  /\ phase = "handling" /\ link = "closed"
  /\ phase' = "lens"
  /\ UNCHANGED <<clientVars, typeLen, bodyLen, taken, forwarded, pongs, timerVars, now>>

\* recvN gives less than it was asked for, or the loop sees that the connection is closing.
ReadEnds ==
  /\ phase \in {"lens", "type", "body"}
  /\ link = "closed" \/ (cut /\ ~Received)
  /\ phase' = "ended"
  /\ Close
  /\ UNCHANGED <<clientVars, typeLen, bodyLen, taken, forwarded, pongs, now>>

-----------------------------------------------------------------------------
(* The heartbeat *)

\* Mutant: twice the time is allowed.
Silent_Twice == now - lastPingTime > 6 * kPingInterval

Silent == now - lastPingTime > 3 * kPingInterval

\* The timer fires; it is a timer with an interval.
CheckPing ==
  /\ armed /\ now >= due
  /\ IF Silent
     THEN Close
     ELSE due' = now + 3 * kPingInterval /\ UNCHANGED <<link, armed, lastPingTime>>
  /\ UNCHANGED <<clientVars, readerVars, now>>

\* A second passes; no timer is later than MaxLate.  Without the timer nothing looks at the clock.
Pass ==
  /\ now < MaxTime
  /\ armed /\ now < due + MaxLate
  /\ now' = now + 1
  /\ UNCHANGED <<clientVars, readerVars, timerVars>>

-----------------------------------------------------------------------------
\* A new connection, when its timer is set and conn->start() was called.
Init ==
  /\ sent = <<>>
  /\ bad = NoFrame
  /\ wire = <<>>
  /\ cut = FALSE
  /\ phase = "lens"
  /\ typeLen = 0
  /\ bodyLen = 0
  /\ taken = 0
  /\ forwarded = <<>>
  /\ pongs = 0
  /\ link = "open"
  /\ armed = TRUE
  /\ due = 0
  /\ lastPingTime = 0
  /\ now = 0

Reader == ReadLens \/ ReadType \/ ReadBody \/ HandleMsgEnds \/ ReadEnds

Next ==
  \/ \E m \in Message : Send(m)
  \/ \E b \in BadFrame : SendBad(b)
  \/ Cut
  \/ Reader
  \/ CheckPing
  \/ CloseEnds
  \/ Pass

\* A coroutine goes on when the bytes it waits for have come.
Spec == Init /\ [][Next]_vars /\ WF_vars(Reader)

-----------------------------------------------------------------------------
(* Properties *)

TypeOK ==
  /\ sent \in Seq(Message)
  /\ bad \in BadFrame \cup {NoFrame}
  /\ \A i \in DOMAIN wire : wire[i][1] \in 0..Byte - 1
  /\ cut \in BOOLEAN
  /\ phase \in {"lens", "type", "body", "handling", "ended"}
  /\ typeLen \in 0..MAX_MSG_LENGTH
  /\ bodyLen \in -(MAX_MSG_LENGTH + 2)..MAX_MSG_LENGTH
  /\ {taken, pongs} \subseteq 0..MaxSent
  /\ \A i \in DOMAIN forwarded : forwarded[i] \in Nat
  /\ link \in {"open", "closing", "closed"}
  /\ armed \in BOOLEAN
  /\ {due, lastPingTime, now} \subseteq Nat

\* The bytes of the messages ms, from each of them on.
BytesFrom(ms) ==
  LET from[i \in 1..Len(ms) + 1] ==
        IF i > Len(ms) THEN <<>> ELSE serialize(ms[i]) \o from[i + 1]
  IN  from

\* The bytes of the messages that handleMsg did not get, and of the lengths after them.
Unread == BytesFrom(sent)[taken + 1] \o BadBytes(bad)

\* What the loop has read of the message it is at.
AlreadyRead == CASE phase = "type" -> 4 [] phase = "body" -> 4 + typeLen [] OTHER -> 0

\* The loop never falls out of step with the client: what it has not read is exactly the rest of
\* the message it is at and the messages after it, up to where the connection was cut
\* (gateway.cc:49-74, JSONUtils.h:27-42).
InStep ==
  phase # "ended" =>
    LET rest == SubSeq(Unread, AlreadyRead + 1, Len(Unread))
    IN  /\ Len(wire) <= Len(rest)
        /\ wire = SubSeq(rest, 1, Len(wire))
        /\ cut \/ Len(wire) = Len(rest)

\* What is read into the arrays type and body fits, the 0 after the text too, and is the type
\* and the text of one message (gateway.cc:45-70, 80-92); with the lengths that a client made up
\* the type fits, and the text is one that checkLens should have refused (gateway.cc:86).
ReadsFit ==
  phase \in {"type", "body"} =>
    /\ typeLen <= MAX_TYPE_LENGTH
    /\ bodyLen < MAX_MSG_LENGTH
    /\ IF taken < Len(sent)
       THEN typeLen = Len(sent[taken + 1].name) /\ bodyLen = sent[taken + 1].size
       ELSE typeLen = bad.typeLen /\ bodyLen \in {-2, -1}

\* Of the first n messages, those that handleMsg forwards, and the pings.
Forwards(n) == {i \in 1..n : sent[i].name \notin {"", "MsgPing"}}
Pings(n) == {i \in 1..n : sent[i].name = "MsgPing"}

\* The number of a name: the one in the list, but for the entry with the wrong length, which
\* stands for a name that is one shorter (msgType.h:82).
Number(name) ==
  CASE name = "GetRoomInf" -> MsgType["GetRoomInfo"]
    [] name \in DOMAIN MsgType \ {"GetRoomInfo"} -> MsgType[name]
    [] OTHER -> MsgType["MsgUnkown"]

\* handleMsg forwards the messages in the order they were sent, each once and under its number,
\* and none after one that does not parse, though the loop goes on when handleMsg has closed the
\* connection; every ping is answered once, unless the connection is being closed
\* (gateway.cc:49, 94-133, msgType.h:54-94).
Dispatched ==
  /\ Len(forwarded) = Cardinality(Forwards(taken))
  /\ \A i \in Forwards(taken) : forwarded[Cardinality(Forwards(i))] = Number(sent[i].name)
  /\ \A i \in 1..taken - 1 : sent[i].name # ""
  /\ pongs <= Cardinality(Pings(taken))
  /\ link = "open" => pongs = Cardinality(Pings(taken))

\* A client that has not pinged for two periods of the timer, and what the timer is late, is not
\* served any more: between two checks it may be silent for longer than kPingInterval * 3
\* (gateway.cc:34-40).
SilenceIsBounded == armed => now - lastPingTime <= 6 * kPingInterval + MaxLate

\* Every message is taken in the end, unless it or one before it is to be refused, the client is
\* cut off, or the heartbeat closed the connection (gateway.cc:49-74).
MessagesAreTaken ==
  \A i \in 1..MaxSent :
    (/\ Len(sent) >= i
     /\ \A j \in 1..i : sent[j].name # "" /\ Len(sent[j].name) <= MAX_TYPE_LENGTH
     /\ link = "open" /\ phase # "ended")
      ~> (taken >= i \/ cut \/ (link # "open" /\ phase # "ended"))
=============================================================================
