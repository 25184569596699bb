--------------------------- MODULE MCConnection ---------------------------
(* Instances of Connection for TLC. *)
EXTENDS Connection

\* A ping; a name that only begins like one of the list; the name that the wrong entry of the list
\* fits, with a type as long as the buffer and a length of two bytes; a text that does not parse.
Messages ==
  {[name |-> "MsgPing", size |-> 1], [name |-> "Hits", size |-> 1],
   [name |-> "GetRoomInf", size |-> 1], [name |-> "", size |-> 1]}

\* Lengths with no room for a text: the message longer than its type by a byte, which is accepted;
\* and a type longer than the buffer.
BadFrames ==
  {[msgLen |-> 2, typeLen |-> 1], [msgLen |-> 11, typeLen |-> 11]}
=============================================================================
