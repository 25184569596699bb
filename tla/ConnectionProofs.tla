-------------------------- MODULE ConnectionProofs --------------------------
(***************************************************************************)
(* What TLAPS proves of Connection, for every set of messages and every    *)
(* width of a byte: the loop of onConnect stays in step with the client,   *)
(* and each message is dispatched once; and for every ping interval and    *)
(* every lateness of the timers, a silent client is given up in time.      *)
(***************************************************************************)
EXTENDS FrameProofs, FiniteSetTheorems

-----------------------------------------------------------------------------
(* The loop of onConnect *)

\* The types that the steps of the loop keep; HeartbeatInv has those of the clock.
LoopTypes ==
  /\ sent \in Seq(Message) /\ Len(sent) <= MaxSent
  /\ bad \in BadFrame \cup {NoFrame}
  /\ wire \in Seq(Bytes)
  /\ cut \in BOOLEAN
  /\ phase \in {"lens", "type", "body", "handling", "ended"}
  /\ typeLen \in 0..MAX_MSG_LENGTH
  /\ bodyLen \in -(MAX_MSG_LENGTH + 2)..MAX_MSG_LENGTH
  /\ taken \in 0..Len(sent)
  /\ pongs \in 0..taken
  /\ forwarded \in Seq(Nat)
  /\ link \in {"open", "closing", "closed"}
  /\ armed \in BOOLEAN

\* InStep, byte by byte: wire is what follows in Unread, all of it unless the client is cut off.
Follows ==
  /\ AlreadyRead + Len(wire) <= Len(Unread)
  /\ \A i \in 1..Len(wire) : wire[i] = Unread[AlreadyRead + i]
  /\ cut \/ AlreadyRead + Len(wire) = Len(Unread)

\* The lengths that the loop has read are those of a message, or those that the client sent
\* after all of them and that leave no room for a text.
AtSent ==
  /\ taken < Len(sent)
  /\ typeLen = Len(sent[taken + 1].name)
  /\ bodyLen = sent[taken + 1].size

AtBad ==
  /\ taken = Len(sent) /\ bad # NoFrame
  /\ typeLen = bad.typeLen
  /\ bodyLen \in {-2, -1}

AtMessage == typeLen <= MAX_TYPE_LENGTH /\ (AtSent \/ AtBad)

LoopInv ==
  /\ LoopTypes
  /\ phase # "ended" => Follows
  /\ phase \in {"type", "body"} => AtMessage

-----------------------------------------------------------------------------

LEMMA MaxIsNumber == MAX_MSG_LENGTH \in Nat
<1>1. Byte \in Nat /\ Byte >= 1
  BY ConnectionAssumption
<1>2. Byte * Byte >= 1
  BY <1>1
<1>. QED BY <1>1, <1>2 DEF MAX_MSG_LENGTH

LEMMA Dropped ==
  ASSUME NEW w \in Seq(Bytes), NEW n \in 0..Len(w)
  PROVE  /\ SubSeq(w, n + 1, Len(w)) \in Seq(Bytes)
         /\ Len(SubSeq(w, n + 1, Len(w))) = Len(w) - n
         /\ \A i \in 1..Len(w) - n : SubSeq(w, n + 1, Len(w))[i] = w[n + i]
<1>1. Len(w) \in Nat /\ n \in Nat /\ n + 1 \in Int /\ \A i \in n + 1..Len(w) : w[i] \in Bytes
  OBVIOUS
<1>2. /\ SubSeq(w, n + 1, Len(w)) \in Seq(Bytes)
      /\ Len(SubSeq(w, n + 1, Len(w))) =
           IF n + 1 <= Len(w) THEN Len(w) - (n + 1) + 1 ELSE 0
      /\ \A i \in 1..Len(w) - (n + 1) + 1 :
           SubSeq(w, n + 1, Len(w))[i] = w[n + 1 + i - 1]
  BY <1>1, SubSeqProperties
<1>3. /\ Len(w) - (n + 1) + 1 = Len(w) - n
      /\ (IF n + 1 <= Len(w) THEN Len(w) - (n + 1) + 1 ELSE 0) = Len(w) - n
  BY <1>1
<1>4. ASSUME NEW i \in 1..Len(w) - n
      PROVE  SubSeq(w, n + 1, Len(w))[i] = w[n + i]
  <2>1. n + 1 + i - 1 = n + i
    BY <1>1
  <2>. QED BY <1>2, <1>3, <2>1, Zenon
<1>. QED BY <1>2, <1>3, <1>4, Zenon

LEMMA Kept ==
  ASSUME NEW w \in Seq(Bytes), NEW n \in 0..Len(w)
  PROVE  /\ SubSeq(w, 1, n) \in Seq(Bytes)
         /\ Len(SubSeq(w, 1, n)) = n
         /\ \A i \in 1..n : SubSeq(w, 1, n)[i] = w[i]
<1>1. Len(w) \in Nat /\ n \in Int /\ \A i \in 1..n : w[i] \in Bytes
  OBVIOUS
<1>2. /\ SubSeq(w, 1, n) \in Seq(Bytes)
      /\ Len(SubSeq(w, 1, n)) = IF 1 <= n THEN n - 1 + 1 ELSE 0
      /\ \A i \in 1..n - 1 + 1 : SubSeq(w, 1, n)[i] = w[1 + i - 1]
  BY <1>1, SubSeqProperties
<1>. QED BY <1>1, <1>2

\* The bytes of the lengths that leave no room for a text.
LEMMA BadBytesAre ==
  ASSUME NEW b \in BadFrame \cup {NoFrame}
  PROVE  /\ BadBytes(b) \in Seq(Bytes)
         /\ b = NoFrame => BadBytes(b) = <<>>
         /\ b # NoFrame => /\ b \in BadFrame /\ BadBytes(b) = Header(b.msgLen, b.typeLen)
                           /\ b.msgLen \in 0..MAX_MSG_LENGTH /\ b.typeLen \in 0..MAX_MSG_LENGTH
                           /\ b.msgLen < b.typeLen + 2
<1>1. CASE b = NoFrame
  <2>1. <<>> \in Seq(Bytes)
    BY EmptySeq
  <2>. QED BY <1>1, <2>1 DEF BadBytes
<1>2. CASE b # NoFrame
  <2>1. /\ b \in BadFrame /\ b.msgLen \in 0..MAX_MSG_LENGTH /\ b.typeLen \in 0..MAX_MSG_LENGTH
        /\ b.msgLen < b.typeLen + 2
    BY <1>2, ConnectionAssumption
  <2>2. b.msgLen \in Nat /\ b.typeLen \in Nat
    BY <2>1, MaxIsNumber
  <2>3. Header(b.msgLen, b.typeLen) \in Seq(Bytes)
    BY <2>2, HeaderIs
  <2>. QED BY <1>2, <2>1, <2>3 DEF BadBytes
<1>. QED BY <1>1, <1>2

\* Unread begins with the frame of the message the loop is at.
LEMMA UnreadBegins ==
  ASSUME LoopTypes
  PROVE  /\ Unread \in Seq(Bytes)
         /\ taken = Len(sent) => Unread = BadBytes(bad)
         /\ taken < Len(sent) =>
              LET m == sent[taken + 1]
                  rest == BytesFrom(sent)[taken + 2] \o BadBytes(bad)
                  k == 4 + Len(m.name) + m.size
              IN  /\ m \in Message /\ rest \in Seq(Bytes)
                  /\ Len(Unread) = k + Len(rest)
                  /\ \A i \in 1..k : Unread[i] = serialize(m)[i]
                  /\ \A i \in 1..Len(rest) : Unread[k + i] = rest[i]
<1>. DEFINE c == BadBytes(bad)
<1>1. /\ sent \in Seq(Message) /\ Len(sent) \in Nat /\ taken \in Nat
      /\ taken \in 0..Len(sent) /\ taken + 1 \in 1..Len(sent) + 1
  BY DEF LoopTypes
<1>2. c \in Seq(Bytes)
  BY BadBytesAre DEF LoopTypes
<1>3. Unread = BytesFrom(sent)[taken + 1] \o c
  BY DEF Unread
<1>. HIDE DEF c
<1>4. Unread \in Seq(Bytes)
  <2>1. BytesFrom(sent)[taken + 1] \in Seq(Bytes)
    BY <1>1, BytesFromTyped
  <2>. QED BY <1>2, <1>3, <2>1, Joined
<1>5. ASSUME taken = Len(sent) PROVE Unread = c
  <2>1. BytesFrom(sent)[taken + 1] = <<>>
    BY <1>1, <1>5, BytesFromUnfolds
  <2>2. <<>> \o c = c
    BY <1>2, ConcatEmptySeq
  <2>. QED BY <1>3, <2>1, <2>2, Zenon
<1>6. ASSUME taken < Len(sent)
      PROVE  LET m == sent[taken + 1]
                 rest == BytesFrom(sent)[taken + 2] \o c
                 k == 4 + Len(m.name) + m.size
             IN  /\ m \in Message /\ rest \in Seq(Bytes)
                 /\ Len(Unread) = k + Len(rest)
                 /\ \A i \in 1..k : Unread[i] = serialize(m)[i]
                 /\ \A i \in 1..Len(rest) : Unread[k + i] = rest[i]
  <2>. DEFINE m == sent[taken + 1]
              next == BytesFrom(sent)[taken + 2]
              rest == next \o c
              f == serialize(m)
              k == 4 + Len(m.name) + m.size
  <2>1. taken + 1 \in 1..Len(sent) /\ taken + 2 \in 1..Len(sent) + 1 /\ taken + 1 + 1 = taken + 2
    BY <1>1, <1>6
  <2>2. m \in Message
    BY <1>1, <2>1
  <2>3. next \in Seq(Bytes)
    BY <1>1, <2>1, BytesFromTyped
  <2>4. BytesFrom(sent)[taken + 1] = f \o next
    BY <1>1, <2>1, BytesFromUnfolds
  <2>5. f \in Seq(Bytes) /\ Len(f) = k
    BY <2>2, FrameIs
  <2>. HIDE DEF m, next, f, k
  <2>6. Unread = f \o rest
    <3>1. (f \o next) \o c = f \o (next \o c)
      BY <1>2, <2>3, <2>5, ConcatAssociative
    <3>. QED BY <1>3, <2>4, <3>1, Zenon
  <2>7. rest \in Seq(Bytes)
    BY <1>2, <2>3, Joined
  <2>. HIDE DEF rest
  <2>8. /\ Len(f \o rest) = Len(f) + Len(rest)
        /\ \A i \in 1..Len(f) : (f \o rest)[i] = f[i]
        /\ \A i \in 1..Len(rest) : (f \o rest)[Len(f) + i] = rest[i]
    <3>1. f \in Seq(Bytes) /\ rest \in Seq(Bytes)
      BY <2>5, <2>7
    <3>. QED BY <3>1, Joined
  <2>. QED BY <2>2, <2>5, <2>6, <2>7, <2>8 DEF m, next, rest, f, k
<1>. QED BY <1>4, <1>5, <1>6 DEF c

\* What the client sends goes to the end of both.
LEMMA FollowsMore ==
  ASSUME LoopTypes, Follows, ~cut, NEW f \in Seq(Bytes), wire' = wire \o f, Unread' = Unread \o f,
         NEW at \in Nat, at = AlreadyRead, AlreadyRead' = AlreadyRead
  PROVE  wire' \in Seq(Bytes) /\ Follows'
<1>1. wire \in Seq(Bytes) /\ Unread \in Seq(Bytes)
  BY UnreadBegins DEF LoopTypes
<1>2. Len(wire) \in Nat /\ Len(f) \in Nat /\ Len(Unread) \in Nat
  BY <1>1
<1>3. /\ at + Len(wire) = Len(Unread)
      /\ \A i \in 1..Len(wire) : wire[i] = Unread[at + i]
  BY DEF Follows
<1>4. /\ wire' \in Seq(Bytes) /\ Len(wire') = Len(wire) + Len(f)
      /\ \A i \in 1..Len(wire) : wire'[i] = wire[i]
      /\ \A i \in 1..Len(f) : wire'[Len(wire) + i] = f[i]
  BY <1>1, Joined
<1>5. /\ Len(Unread') = Len(Unread) + Len(f)
      /\ \A i \in 1..Len(Unread) : Unread'[i] = Unread[i]
      /\ \A i \in 1..Len(f) : Unread'[Len(Unread) + i] = f[i]
  BY <1>1, Joined
<1>. DEFINE w == Len(wire)
            u == Len(Unread)
            x == Len(wire')
            y == Len(Unread')
<1>6. /\ w \in Nat /\ u \in Nat /\ x = w + Len(f) /\ y = u + Len(f) /\ at + w = u
      /\ at + x = y
  <2>1. w \in Nat /\ u \in Nat /\ x = w + Len(f) /\ y = u + Len(f) /\ at + w = u /\ Len(f) \in Nat
    BY <1>2, <1>3, <1>4, <1>5
  <2>. DEFINE l == Len(f)
  <2>. HIDE DEF w, u, x, y, l
  <2>2. w \in Nat /\ u \in Nat /\ x = w + l /\ y = u + l /\ at + w = u /\ l \in Nat
    BY <2>1 DEF l
  <2>3. at + x = y
    BY <2>2
  <2>. QED BY <2>1, <2>3
<1>7. ASSUME NEW i \in 1..Len(wire') PROVE wire'[i] = Unread'[at + i]
  <2>1. CASE i \in 1..Len(wire)
    <3>1. at + i \in 1..Len(Unread)
      BY <1>2, <1>3, <2>1
    <3>. QED BY <1>3, <1>4, <1>5, <2>1, <3>1
  <2>2. CASE i \notin 1..Len(wire)
    <3>1. /\ i - Len(wire) \in 1..Len(f)
          /\ i = Len(wire) + (i - Len(wire))
          /\ at + i = Len(Unread) + (i - Len(wire))
      <4>1. i \in 1..x /\ i \notin 1..w
        BY <2>2
      <4>. HIDE DEF w, u, x, y
      <4>2. i - w \in 1..Len(f) /\ i = w + (i - w) /\ at + i = u + (i - w)
        BY <1>2, <1>6, <4>1
      <4>. QED BY <4>2 DEF w, u
    <3>2. wire'[i] = f[i - Len(wire)]
      BY <1>4, <3>1
    <3>3. Unread'[at + i] = f[i - Len(wire)]
      BY <1>5, <3>1
    <3>. QED BY <3>2, <3>3
  <2>. QED BY <2>1, <2>2
<1>8. AlreadyRead' = at
  OBVIOUS
<1>9. at + Len(wire') <= Len(Unread')
  BY <1>2, <1>5, <1>6
<1>. QED BY <1>4, <1>6, <1>7, <1>8, <1>9 DEF Follows

LEMMA AlreadyReadIsNumber ==
  ASSUME LoopTypes
  PROVE  AlreadyRead \in Nat
BY MaxIsNumber DEF LoopTypes, AlreadyRead

LEMMA SendKeeps ==
  ASSUME LoopInv, NEW m \in Message, Send(m)
  PROVE  LoopInv'
<1>1. /\ sent' = Append(sent, m) /\ wire' = wire \o serialize(m) /\ ~cut /\ Len(sent) < MaxSent
      /\ bad = NoFrame
      /\ UNCHANGED <<bad, cut, phase, typeLen, bodyLen, taken, forwarded, pongs, link, armed>>
  BY DEF Send, readerVars, timerVars
<1>2. LoopTypes
  BY DEF LoopInv
<1>. DEFINE f == serialize(m)
<1>3. f \in Seq(Bytes)
  BY FrameIs
<1>4. /\ sent' \in Seq(Message) /\ Len(sent') = Len(sent) + 1
      /\ \A i \in 1..Len(sent) : sent'[i] = sent[i]
  BY <1>1, <1>2 DEF LoopTypes
<1>5. Unread' = Unread \o f
  <2>. DEFINE u == BytesFrom(sent)[taken + 1]
              v == BytesFrom(Append(sent, m))[taken + 1]
  <2>1. taken + 1 \in 1..Len(sent) + 1 /\ sent \in Seq(Message)
    BY <1>2 DEF LoopTypes
  <2>2. v = u \o f
    BY <2>1, BytesFromAppend
  <2>3. u \in Seq(Bytes)
    BY <2>1, BytesFromTyped
  <2>4. Unread = u \o <<>>
    BY <1>1 DEF Unread, BadBytes
  <2>5. Unread' = v \o <<>>
    <3>1. BadBytes(bad)' = <<>>
      BY <1>1 DEF BadBytes
    <3>. QED BY <1>1, <3>1 DEF Unread
  <2>. HIDE DEF u, v, f
  <2>6. u \o f \in Seq(Bytes)
    BY <1>3, <2>3, Joined
  <2>7. u \o <<>> = u /\ (u \o f) \o <<>> = u \o f
    BY <2>3, <2>6, ConcatEmptySeq
  <2>. QED BY <2>2, <2>4, <2>5, <2>7, Zenon
<1>. HIDE DEF f
<1>6. LoopTypes'
  <2>1. Len(sent) \in Nat /\ MaxSent \in Nat
    BY <1>2, ConnectionAssumption DEF LoopTypes
  <2>2. wire' \in Seq(Bytes)
    <3>1. wire \in Seq(Bytes) /\ wire' = wire \o f
      BY <1>1, <1>2 DEF LoopTypes, f
    <3>. QED BY <1>3, <3>1, Joined
  <2>. QED BY <1>1, <1>2, <1>4, <2>1, <2>2 DEF LoopTypes
<1>7. ASSUME phase # "ended" PROVE Follows'
  <2>1. Follows /\ AlreadyRead' = AlreadyRead
    BY <1>1, <1>7 DEF LoopInv, AlreadyRead
  <2>2. wire' = wire \o f
    BY <1>1 DEF f
  <2>. QED BY <1>1, <1>2, <1>3, <1>5, <2>1, <2>2, AlreadyReadIsNumber, FollowsMore
<1>8. ASSUME phase \in {"type", "body"} PROVE AtMessage'
  <2>1. typeLen <= MAX_TYPE_LENGTH /\ AtSent /\ taken \in 0..Len(sent) /\ Len(sent) \in Nat
    BY <1>1, <1>2, <1>8 DEF LoopInv, LoopTypes, AtMessage, AtBad
  <2>2. taken + 1 \in 1..Len(sent) /\ taken < Len(sent) + 1
    BY <2>1 DEF AtSent
  <2>3. AtSent'
    BY <1>1, <1>4, <2>1, <2>2 DEF AtSent
  <2>. QED BY <1>1, <2>1, <2>3 DEF AtMessage
<1>. QED BY <1>1, <1>6, <1>7, <1>8 DEF LoopInv

LEMMA SendBadKeeps ==
  ASSUME LoopInv, NEW b \in BadFrame, SendBad(b)
  PROVE  LoopInv'
<1>1. /\ bad' = b /\ wire' = wire \o BadBytes(b) /\ ~cut /\ bad = NoFrame
      /\ UNCHANGED <<sent, cut, phase, typeLen, bodyLen, taken, forwarded, pongs, link, armed>>
  BY DEF SendBad, readerVars, timerVars
<1>2. LoopTypes
  BY DEF LoopInv
<1>. DEFINE f == BadBytes(b)
<1>3. f \in Seq(Bytes)
  BY BadBytesAre
<1>4. Unread' = Unread \o f
  <2>. DEFINE u == BytesFrom(sent)[taken + 1]
  <2>1. taken + 1 \in 1..Len(sent) + 1 /\ sent \in Seq(Message)
    BY <1>2 DEF LoopTypes
  <2>2. u \in Seq(Bytes)
    BY <2>1, BytesFromTyped
  <2>3. Unread = u \o <<>>
    BY <1>1 DEF Unread, BadBytes
  <2>4. Unread' = u \o f
    BY <1>1 DEF Unread
  <2>. HIDE DEF u, f
  <2>5. u \o <<>> = u
    BY <2>2, ConcatEmptySeq
  <2>. QED BY <2>3, <2>4, <2>5, Zenon
<1>5. wire' = wire \o f
  BY <1>1
<1>. HIDE DEF f
<1>6. LoopTypes'
  <2>1. wire' \in Seq(Bytes)
    <3>1. wire \in Seq(Bytes)
      BY <1>2 DEF LoopTypes
    <3>. QED BY <1>3, <1>5, <3>1, Joined
  <2>. QED BY <1>1, <1>2, <2>1 DEF LoopTypes
<1>7. ASSUME phase # "ended" PROVE Follows'
  <2>1. Follows /\ AlreadyRead' = AlreadyRead
    BY <1>1, <1>7 DEF LoopInv, AlreadyRead
  <2>. QED BY <1>1, <1>2, <1>3, <1>4, <1>5, <2>1, AlreadyReadIsNumber, FollowsMore
<1>8. ASSUME phase \in {"type", "body"} PROVE AtMessage'
  BY <1>1, <1>8 DEF LoopInv, AtMessage, AtSent, AtBad
<1>. QED BY <1>1, <1>6, <1>7, <1>8 DEF LoopInv

\* What a cut leaves is still the beginning.
LEMMA CutKeeps ==
  ASSUME LoopInv, Cut
  PROVE  LoopInv'
<1>1. /\ cut' = TRUE
      /\ UNCHANGED <<sent, bad, phase, typeLen, bodyLen, taken, forwarded, pongs, link, armed>>
  BY DEF Cut, readerVars, timerVars
<1>2. LoopTypes
  BY DEF LoopInv
<1>3. PICK n \in 0..Len(wire) : wire' = SubSeq(wire, 1, n)
  BY DEF Cut
<1>4. /\ wire' \in Seq(Bytes) /\ Len(wire') = n /\ Len(wire) \in Nat
      /\ \A i \in 1..n : wire'[i] = wire[i]
  BY <1>2, <1>3, Kept DEF LoopTypes
<1>5. LoopTypes'
  BY <1>1, <1>2, <1>4 DEF LoopTypes
<1>6. ASSUME phase # "ended" PROVE Follows'
  <2>1. /\ Follows /\ AlreadyRead' = AlreadyRead /\ AlreadyRead \in Nat /\ Unread' = Unread
        /\ Len(Unread) \in Nat
    <3>1. Unread \in Seq(Bytes)
      BY <1>2, UnreadBegins
    <3>. QED BY <1>1, <1>2, <1>6, <3>1, AlreadyReadIsNumber DEF LoopInv, AlreadyRead, Unread
  <2>. HIDE DEF AlreadyRead, Unread
  <2>. QED BY <1>1, <1>4, <2>1 DEF Follows
<1>7. ASSUME phase \in {"type", "body"} PROVE AtMessage'
  BY <1>1, <1>7 DEF LoopInv, AtMessage, AtSent, AtBad
<1>. QED BY <1>1, <1>5, <1>6, <1>7 DEF LoopInv

-----------------------------------------------------------------------------
(* The steps of the loop *)

\* What is left of wire after n bytes of it were read, and what follows in Unread.
LEMMA ReadsOn ==
  ASSUME LoopTypes, Follows, NEW at, at = AlreadyRead, at \in Nat, NEW n \in Nat, n <= Len(wire),
         wire' = SubSeq(wire, n + 1, Len(wire))
  PROVE  /\ wire' \in Seq(Bytes) /\ Len(wire') = Len(wire) - n
         /\ Len(Unread) \in Nat /\ at + n + Len(wire') <= Len(Unread)
         /\ \A i \in 1..Len(wire') : wire'[i] = Unread[at + n + i]
         /\ cut \/ at + n + Len(wire') = Len(Unread)
<1>1. wire \in Seq(Bytes) /\ Len(wire) \in Nat /\ n \in 0..Len(wire)
  BY DEF LoopTypes
<1>2. /\ wire' \in Seq(Bytes) /\ Len(wire') = Len(wire) - n
      /\ \A i \in 1..Len(wire) - n : wire'[i] = wire[n + i]
  BY <1>1, Dropped
<1>3. Len(Unread) \in Nat
  <2>1. Unread \in Seq(Bytes)
    BY UnreadBegins
  <2>. QED BY <2>1
<1>4. /\ at + Len(wire) <= Len(Unread)
      /\ \A i \in 1..Len(wire) : wire[i] = Unread[at + i]
      /\ cut \/ at + Len(wire) = Len(Unread)
  BY DEF Follows
<1>5. ASSUME NEW i \in 1..Len(wire') PROVE wire'[i] = Unread[at + n + i]
  <2>1. i \in 1..Len(wire) - n /\ n + i \in 1..Len(wire) /\ at + (n + i) = at + n + i
    BY <1>1, <1>2
  <2>2. wire'[i] = wire[n + i] /\ wire[n + i] = Unread[at + (n + i)]
    BY <1>2, <1>4, <2>1
  <2>. QED BY <2>1, <2>2
<1>6. at + n + Len(wire') = at + Len(wire)
  <2>. DEFINE x == Len(wire)
              y == Len(wire')
  <2>1. y = x - n /\ x \in Nat
    BY <1>1, <1>2
  <2>. HIDE DEF x, y
  <2>2. at + n + y = at + x
    BY <2>1
  <2>. QED BY <2>2 DEF x, y
<1>. QED BY <1>2, <1>3, <1>4, <1>5, <1>6

LEMMA CloseTypes ==
  ASSUME LoopTypes, Close
  PROVE  link' \in {"open", "closing", "closed"} /\ armed' \in BOOLEAN
BY DEF LoopTypes, Close

\* The first four bytes are the lengths that the client wrote.
LEMMA LengthsRead ==
  ASSUME NEW k \in 0..MAX_MSG_LENGTH, NEW n \in 0..MAX_MSG_LENGTH,
         wire[1] = LengthBytes(k)[1], wire[2] = LengthBytes(k)[2],
         wire[3] = LengthBytes(n)[1], wire[4] = LengthBytes(n)[2]
  PROVE  Length(wire, 1) = k /\ Length(wire, 3) = n
<1>1. Length(wire, 1) = Byte * LengthBytes(k)[2][1] + LengthBytes(k)[1][1]
  BY DEF Length
<1>2. Length(wire, 3) = Byte * LengthBytes(n)[2][1] + LengthBytes(n)[1][1]
  BY DEF Length
<1>. QED BY <1>1, <1>2, LengthIs

LEMMA ReadLensKeeps ==
  ASSUME LoopInv, ReadLens
  PROVE  LoopInv'
<1>1. /\ phase = "lens" /\ Len(wire) >= 4 /\ wire' = SubSeq(wire, 4 + 1, Len(wire))
      /\ UNCHANGED <<sent, bad, cut, taken, forwarded, pongs>>
  BY DEF ReadLens, Received, Read, Wanted
<1>2. LoopTypes /\ Follows /\ AlreadyRead = 0
  BY <1>1 DEF LoopInv, AlreadyRead
<1>3. /\ wire' \in Seq(Bytes) /\ Len(wire') = Len(wire) - 4
      /\ Len(Unread) \in Nat /\ 4 + Len(wire') <= Len(Unread)
      /\ \A i \in 1..Len(wire') : wire'[i] = Unread[4 + i]
      /\ cut \/ 4 + Len(wire') = Len(Unread)
  <2>1. 4 <= Len(wire) /\ 4 \in Nat /\ 0 \in Nat /\ 0 + 4 = 4
    BY <1>1, <1>2 DEF LoopTypes
  <2>2. /\ wire' \in Seq(Bytes) /\ Len(wire') = Len(wire) - 4
        /\ Len(Unread) \in Nat /\ 0 + 4 + Len(wire') <= Len(Unread)
        /\ \A i \in 1..Len(wire') : wire'[i] = Unread[0 + 4 + i]
        /\ cut \/ 0 + 4 + Len(wire') = Len(Unread)
    BY <1>1, <1>2, <2>1, ReadsOn
  <2>. QED BY <2>1, <2>2
<1>4. taken \in 0..Len(sent) /\ Len(sent) \in Nat /\ Len(wire) \in Nat
  BY <1>2 DEF LoopTypes
<1>5. \A i \in 1..4 : wire[i] = Unread[i]
  <2>1. \A i \in 1..Len(wire) : wire[i] = Unread[0 + i]
    BY <1>2 DEF Follows
  <2>2. \A i \in 1..4 : i \in 1..Len(wire) /\ 0 + i = i
    BY <1>1, <1>4
  <2>. QED BY <2>1, <2>2
<1>. DEFINE m == sent[taken + 1]
            OfMessage(k, n) == /\ taken < Len(sent) /\ n = Len(m.name)
                               /\ k = n + m.size + 2 /\ m.size \in Nat
            OfBad(k, n) == /\ taken = Len(sent) /\ bad # NoFrame /\ n = bad.typeLen
                           /\ k = bad.msgLen /\ k < n + 2
<1>6. \E k \in 0..MAX_MSG_LENGTH, n \in 0..MAX_MSG_LENGTH :
        /\ OfMessage(k, n) \/ OfBad(k, n)
        /\ Length(wire, 1) = k /\ Length(wire, 3) = n
  <2>0. /\ 1 \in 1..4 /\ 2 \in 1..4 /\ 3 \in 1..4 /\ 4 \in 1..4
        /\ 1 \in {1, 2} /\ 2 \in {1, 2} /\ 2 + 1 = 3 /\ 2 + 2 = 4
    OBVIOUS
  <2>1. CASE taken < Len(sent)
    <3>. DEFINE n == Len(m.name)
                k == n + m.size + 2
    <3>1. m \in Message /\ \A i \in 1..4 + n + m.size : Unread[i] = serialize(m)[i]
      BY <1>2, <2>1, UnreadBegins
    <3>2. n \in Nat /\ m.size \in Nat /\ k <= MAX_MSG_LENGTH
      <4>. HIDE DEF m
      <4>. QED BY <3>1, ConnectionAssumption
    <3>3. n \in 0..MAX_MSG_LENGTH /\ k \in 0..MAX_MSG_LENGTH
      BY <3>2, MaxIsNumber
    <3>4. /\ \A i \in {1, 2} : serialize(m)[i] = LengthBytes(k)[i]
          /\ \A i \in {1, 2} : serialize(m)[2 + i] = LengthBytes(n)[i]
      BY <3>1, FrameIs
    <3>5. \A i \in 1..4 : Unread[i] = serialize(m)[i]
      <4>. HIDE DEF m
      <4>. QED BY <3>1, <3>2
    <3>6. OfMessage(k, n)
      BY <2>1, <3>2
    <3>. HIDE DEF m, n, k, OfMessage
    <3>7. /\ wire[1] = LengthBytes(k)[1] /\ wire[2] = LengthBytes(k)[2]
          /\ wire[3] = LengthBytes(n)[1] /\ wire[4] = LengthBytes(n)[2]
      BY <1>5, <2>0, <3>4, <3>5
    <3>8. Length(wire, 1) = k /\ Length(wire, 3) = n
      BY <3>3, <3>7, LengthsRead
    <3>. QED BY <3>3, <3>6, <3>8
  <2>2. CASE taken = Len(sent)
    <3>. DEFINE k == bad.msgLen
                n == bad.typeLen
                h == Header(k, n)
    <3>1. Unread = BadBytes(bad)
      BY <1>2, <2>2, UnreadBegins
    <3>2. bad # NoFrame
      <4>1. SUFFICES ASSUME bad = NoFrame PROVE FALSE
        OBVIOUS
      <4>2. Unread = <<>>
        BY <3>1, <4>1 DEF BadBytes
      <4>3. Len(Unread) = 0
        BY <4>2
      <4>. QED BY <1>3, <4>3
    <3>3. Unread = h /\ k \in 0..MAX_MSG_LENGTH /\ n \in 0..MAX_MSG_LENGTH /\ k < n + 2
      BY <1>2, <3>1, <3>2, BadBytesAre DEF LoopTypes
    <3>4. OfBad(k, n)
      BY <2>2, <3>2, <3>3
    <3>. HIDE DEF k, n, OfBad
    <3>5. /\ \A i \in {1, 2} : h[i] = LengthBytes(k)[i]
          /\ \A i \in {1, 2} : h[2 + i] = LengthBytes(n)[i]
      <4>1. k \in Nat /\ n \in Nat
        BY <3>3, MaxIsNumber
      <4>. QED BY <4>1, HeaderIs
    <3>. HIDE DEF h
    <3>6. /\ wire[1] = LengthBytes(k)[1] /\ wire[2] = LengthBytes(k)[2]
          /\ wire[3] = LengthBytes(n)[1] /\ wire[4] = LengthBytes(n)[2]
      BY <1>5, <2>0, <3>3, <3>5
    <3>7. Length(wire, 1) = k /\ Length(wire, 3) = n
      BY <3>3, <3>6, LengthsRead
    <3>. QED BY <3>3, <3>4, <3>7
  <2>. QED BY <1>4, <2>1, <2>2
<1>7. PICK k \in 0..MAX_MSG_LENGTH, n \in 0..MAX_MSG_LENGTH :
        /\ OfMessage(k, n) \/ OfBad(k, n)
        /\ Length(wire, 1) = k /\ Length(wire, 3) = n
  BY <1>6
<1>8. typeLen' = n /\ bodyLen' = k - n - 2
  BY <1>7 DEF ReadLens, BodyLength
<1>9. LoopTypes'
  <2>1. typeLen' \in 0..MAX_MSG_LENGTH /\ bodyLen' \in -(MAX_MSG_LENGTH + 2)..MAX_MSG_LENGTH
    BY <1>8, MaxIsNumber
  <2>2. phase' \in {"type", "ended"}
    BY DEF ReadLens
  <2>3. link' \in {"open", "closing", "closed"} /\ armed' \in BOOLEAN
    BY <1>2, CloseTypes DEF ReadLens, timerVars, LoopTypes
  <2>. QED BY <1>1, <1>2, <1>3, <2>1, <2>2, <2>3 DEF LoopTypes
<1>10. ASSUME phase' # "ended"
       PROVE  phase' = "type" /\ Follows' /\ AtMessage'
  <2>1. phase' = "type" /\ checkLens(k, n)
    BY <1>7, <1>8, <1>10 DEF ReadLens
  <2>2. AlreadyRead' = 4 /\ Unread' = Unread
    BY <1>1, <2>1 DEF AlreadyRead, Unread
  <2>3. Follows'
    BY <1>1, <1>3, <2>2 DEF Follows
  <2>4. typeLen' <= MAX_TYPE_LENGTH /\ k >= n
    BY <1>8, <2>1 DEF checkLens
  <2>5. CASE OfMessage(k, n)
    <3>. DEFINE z == m.size
    <3>1. k = n + z + 2 /\ z \in Nat /\ n \in Nat /\ bodyLen' = k - n - 2
      BY <1>8, <2>5, MaxIsNumber
    <3>2. bodyLen' = z
      <4>. HIDE DEF z
      <4>. QED BY <3>1
    <3>3. taken' < Len(sent') /\ typeLen' = Len(sent'[taken' + 1].name)
      BY <1>1, <1>8, <2>5, Zenon
    <3>4. bodyLen' = sent'[taken' + 1].size
      BY <1>1, <3>2, Zenon
    <3>5. AtSent'
      BY <3>3, <3>4, Zenon DEF AtSent
    <3>6. AtMessage'
      BY <2>4, <3>5, Zenon DEF AtMessage
    <3>. QED BY <2>1, <2>3, <3>6, Zenon
  <2>6. CASE OfBad(k, n)
    <3>1. bodyLen' \in {-2, -1}
      BY <1>8, <2>4, <2>6, MaxIsNumber
    <3>2. taken' = Len(sent') /\ bad' # NoFrame /\ typeLen' = bad'.typeLen
      <4>1. bad # NoFrame /\ n = bad.typeLen /\ taken = Len(sent)
        BY <2>6
      <4>. QED BY <1>1, <1>8, <4>1
    <3>3. NoFrame' = NoFrame
      BY DEF NoFrame
    <3>4. AtBad'
      BY <3>1, <3>2, <3>3, Zenon DEF AtBad
    <3>5. AtMessage'
      BY <2>4, <3>4, Zenon DEF AtMessage
    <3>. QED BY <2>1, <2>3, <3>5, Zenon
  <2>. QED BY <1>7, <2>5, <2>6
<1>. QED BY <1>9, <1>10 DEF LoopInv

LEMMA ReadTypeKeeps ==
  ASSUME LoopInv, ReadType
  PROVE  LoopInv'
<1>1. /\ phase = "type" /\ Len(wire) >= typeLen /\ wire' = SubSeq(wire, typeLen + 1, Len(wire))
      /\ phase' = "body"
      /\ UNCHANGED <<sent, bad, cut, typeLen, bodyLen, taken, forwarded, pongs, link, armed>>
  BY DEF ReadType, Received, Read, Wanted, timerVars
<1>2. LoopTypes /\ Follows /\ AtMessage /\ AlreadyRead = 4
  BY <1>1 DEF LoopInv, AlreadyRead
<1>3. typeLen \in Nat /\ Len(wire) \in Nat /\ typeLen <= Len(wire) /\ 4 \in Nat
  BY <1>1, <1>2, MaxIsNumber DEF LoopTypes
<1>4. /\ wire' \in Seq(Bytes) /\ Len(wire') = Len(wire) - typeLen
      /\ Len(Unread) \in Nat /\ 4 + typeLen + Len(wire') <= Len(Unread)
      /\ \A i \in 1..Len(wire') : wire'[i] = Unread[4 + typeLen + i]
      /\ cut \/ 4 + typeLen + Len(wire') = Len(Unread)
  BY <1>1, <1>2, <1>3, ReadsOn
<1>5. LoopTypes'
  BY <1>1, <1>2, <1>4 DEF LoopTypes
<1>6. Follows'
  <2>1. AlreadyRead' = 4 + typeLen /\ Unread' = Unread
    BY <1>1 DEF AlreadyRead, Unread
  <2>. QED BY <1>1, <1>4, <2>1 DEF Follows
<1>7. AtMessage'
  BY <1>1, <1>2 DEF AtMessage, AtSent, AtBad
<1>. QED BY <1>5, <1>6, <1>7 DEF LoopInv

LEMMA NumbersOfNames ==
  ASSUME NEW name
  PROVE  toMsgType(name) \in Nat
<1>1. \A t \in DOMAIN NameLen : MsgType[t] \in Nat
  BY DEF NameLen, MsgType
<1>2. MsgType["MsgUnkown"] \in Nat
  BY DEF MsgType
<1>. DEFINE fits == {t \in DOMAIN NameLen : Len(name) = NameLen[t] /\ name = Compared(t)}
<1>3. fits # {} => (CHOOSE t \in fits : TRUE) \in DOMAIN NameLen
  <2>1. fits # {} => (CHOOSE t \in fits : TRUE) \in fits
    <3>. HIDE DEF fits
    <3>. QED OBVIOUS
  <2>. QED BY <2>1
<1>4. toMsgType(name) = IF fits = {} THEN MsgType["MsgUnkown"] ELSE MsgType[CHOOSE t \in fits : TRUE]
  BY DEF toMsgType
<1>. HIDE DEF fits
<1>. QED BY <1>1, <1>2, <1>3, <1>4

\* The loop reads a text to its end and is at the next message.
LEMMA ReadBodyKeeps ==
  ASSUME LoopInv, ReadBody
  PROVE  LoopInv'
<1>1. /\ phase = "body" /\ Len(wire) >= bodyLen /\ wire' = SubSeq(wire, bodyLen + 1, Len(wire))
      /\ bodyLen >= 0
      /\ taken' = taken + 1 /\ phase' \in {"lens", "handling"}
      /\ UNCHANGED <<sent, bad, cut, typeLen, bodyLen>>
  BY DEF ReadBody, Received, Read, Wanted
<1>2. LoopTypes /\ Follows /\ AtSent /\ AlreadyRead = 4 + typeLen
  BY <1>1 DEF LoopInv, AlreadyRead, AtMessage, AtBad
<1>3. /\ bodyLen \in Nat /\ typeLen \in Nat /\ 4 + typeLen \in Nat
      /\ Len(wire) \in Nat /\ bodyLen <= Len(wire)
  BY <1>1, <1>2, MaxIsNumber DEF LoopTypes
<1>4. /\ wire' \in Seq(Bytes) /\ Len(wire') = Len(wire) - bodyLen
      /\ Len(Unread) \in Nat /\ 4 + typeLen + bodyLen + Len(wire') <= Len(Unread)
      /\ \A i \in 1..Len(wire') : wire'[i] = Unread[4 + typeLen + bodyLen + i]
      /\ cut \/ 4 + typeLen + bodyLen + Len(wire') = Len(Unread)
  BY <1>1, <1>2, <1>3, ReadsOn
<1>5. taken \in Nat /\ Len(sent) \in Nat /\ taken + 1 \in 0..Len(sent)
  BY <1>2 DEF LoopTypes, AtSent
<1>6. LoopTypes'
  <2>1. CASE Close /\ UNCHANGED <<forwarded, pongs>>
    <3>1. link' \in {"open", "closing", "closed"} /\ armed' \in BOOLEAN
      BY <1>2, <2>1, CloseTypes
    <3>2. pongs \in 0..taken + 1
      BY <1>2, <1>5 DEF LoopTypes
    <3>. QED BY <1>1, <1>2, <1>4, <1>5, <2>1, <3>1, <3>2 DEF LoopTypes
  <2>2. CASE pongs' \in {pongs, pongs + 1} /\ UNCHANGED <<forwarded, link, armed>>
    <3>1. pongs' \in 0..taken + 1
      BY <1>2, <1>5, <2>2 DEF LoopTypes
    <3>. QED BY <1>1, <1>2, <1>4, <1>5, <2>2, <3>1 DEF LoopTypes
  <2>3. CASE /\ UNCHANGED <<pongs, link, armed>>
             /\ \E name : forwarded' = Append(forwarded, toMsgType(name))
    <3>1. forwarded' \in Seq(Nat)
      BY <1>2, <2>3, NumbersOfNames DEF LoopTypes
    <3>2. pongs \in 0..taken + 1
      BY <1>2, <1>5 DEF LoopTypes
    <3>. QED BY <1>1, <1>2, <1>4, <1>5, <2>3, <3>1, <3>2 DEF LoopTypes
  <2>. QED BY <2>1, <2>2, <2>3 DEF ReadBody, timerVars
<1>7. Follows'
  <2>. DEFINE rest == BytesFrom(sent)[taken + 2] \o BadBytes(bad)
              k == 4 + typeLen + bodyLen
  <2>1. /\ rest \in Seq(Bytes) /\ Len(Unread) = k + Len(rest)
        /\ \A i \in 1..Len(rest) : Unread[k + i] = rest[i]
    BY <1>2, UnreadBegins DEF AtSent
  <2>2. AlreadyRead' = 0 /\ Unread' = rest
    <3>1. taken' + 1 = taken + 2
      BY <1>1, <1>5
    <3>. QED BY <1>1, <3>1 DEF AlreadyRead, Unread
  <2>3. k \in Nat /\ Len(rest) \in Nat /\ Len(wire') \in Nat
    BY <1>3, <1>4, <2>1
  <2>. HIDE DEF rest, k
  <2>4. /\ k + Len(wire') <= k + Len(rest)
        /\ \A i \in 1..Len(wire') : wire'[i] = Unread[k + i]
        /\ cut \/ k + Len(wire') = k + Len(rest)
    BY <1>4, <2>1 DEF k
  <2>5. Len(wire') <= Len(rest) /\ (cut \/ Len(wire') = Len(rest))
    <3>. DEFINE x == Len(wire')
                y == Len(rest)
    <3>1. x \in Nat /\ y \in Nat /\ k + x <= k + y /\ (cut \/ k + x = k + y)
      BY <2>3, <2>4
    <3>. HIDE DEF x, y
    <3>2. x <= y /\ (cut \/ x = y)
      BY <2>3, <3>1
    <3>. QED BY <3>2 DEF x, y
  <2>6. ASSUME NEW i \in 1..Len(wire') PROVE wire'[i] = rest[i]
    <3>1. i \in 1..Len(rest)
      BY <2>3, <2>5
    <3>. QED BY <2>1, <2>4, <3>1
  <2>7. 0 + Len(wire') = Len(wire') /\ \A i \in 1..Len(wire') : 0 + i = i
    BY <2>3
  <2>. QED BY <1>1, <2>2, <2>5, <2>6, <2>7 DEF Follows
<1>. QED BY <1>1, <1>6, <1>7 DEF LoopInv

LEMMA HandleMsgEndsKeeps ==
  ASSUME LoopInv, HandleMsgEnds
  PROVE  LoopInv'
<1>1. /\ phase = "handling" /\ phase' = "lens"
      /\ UNCHANGED <<sent, bad, wire, cut, typeLen, bodyLen, taken, forwarded, pongs, link, armed>>
  BY DEF HandleMsgEnds, clientVars, timerVars
<1>2. LoopTypes'
  BY <1>1 DEF LoopInv, LoopTypes
<1>3. Follows'
  BY <1>1 DEF LoopInv, Follows, AlreadyRead, Unread
<1>. QED BY <1>1, <1>2, <1>3 DEF LoopInv

LEMMA ReadEndsKeeps ==
  ASSUME LoopInv, ReadEnds
  PROVE  LoopInv'
<1>1. LoopTypes /\ phase' = "ended" /\ Close
      /\ UNCHANGED <<sent, bad, wire, cut, typeLen, bodyLen, taken, forwarded, pongs>>
  BY DEF LoopInv, ReadEnds, clientVars
<1>2. LoopTypes'
  BY <1>1, CloseTypes DEF LoopTypes
<1>. QED BY <1>1, <1>2 DEF LoopInv

\* What the others do does not touch the loop, but to close the connection.
LEMMA LoopLeftAlone ==
  ASSUME LoopInv, UNCHANGED <<clientVars, readerVars>>,
         link' \in {"open", "closing", "closed"}, armed' \in BOOLEAN
  PROVE  LoopInv'
<1>1. LoopTypes'
  BY DEF LoopInv, LoopTypes, clientVars, readerVars
<1>2. UNCHANGED <<Follows, AtMessage, phase>>
  BY DEF clientVars, readerVars, Follows, AtMessage, AtSent, AtBad, AlreadyRead, Unread
<1>. QED BY <1>1, <1>2 DEF LoopInv

LEMMA LoopBegins == Init => LoopInv
<1>. SUFFICES ASSUME Init PROVE LoopInv
  OBVIOUS
<1>1. LoopTypes
  <2>1. 0 \in 0..MAX_MSG_LENGTH
    BY MaxIsNumber
  <2>2. MaxSent \in Nat
    BY ConnectionAssumption
  <2>3. sent \in Seq(Message) /\ wire \in Seq(Bytes) /\ forwarded \in Seq(Nat)
    <3>1. <<>> \in Seq(Message) /\ <<>> \in Seq(Bytes) /\ <<>> \in Seq(Nat)
      <4>. HIDE DEF Bytes
      <4>. QED BY EmptySeq
    <3>. QED BY <3>1, Zenon DEF Init
  <2>4. Len(sent) = 0
    <3>1. sent = <<>>
      BY DEF Init
    <3>. QED BY <3>1
  <2>5. /\ taken = 0 /\ pongs = 0 /\ typeLen = 0 /\ bodyLen = 0 /\ cut = FALSE /\ bad = NoFrame
        /\ phase = "lens" /\ link = "open" /\ armed = TRUE
    BY DEF Init
  <2>6. Len(sent) <= MaxSent /\ taken \in 0..Len(sent) /\ pongs \in 0..taken
    BY <2>2, <2>4, <2>5
  <2>7. typeLen \in 0..MAX_MSG_LENGTH /\ bodyLen \in -(MAX_MSG_LENGTH + 2)..MAX_MSG_LENGTH
    <3>1. typeLen = 0 /\ bodyLen = 0
      BY <2>5
    <3>. HIDE DEF Init, MAX_MSG_LENGTH
    <3>. QED BY <3>1, MaxIsNumber
  <2>8. /\ cut \in BOOLEAN /\ armed \in BOOLEAN
        /\ phase \in {"lens", "type", "body", "handling", "ended"}
        /\ link \in {"open", "closing", "closed"} /\ bad \in BadFrame \cup {NoFrame}
    BY DEF Init
  <2>. HIDE DEF Bytes, Init, MAX_MSG_LENGTH
  <2>. QED BY <2>3, <2>6, <2>7, <2>8, Zenon DEF LoopTypes
<1>2. Follows
  <2>1. Len(sent) = 0 /\ taken = 0 /\ bad = NoFrame
    BY DEF Init
  <2>2. Unread = <<>>
    BY <1>1, <2>1, UnreadBegins DEF BadBytes
  <2>3. Len(Unread) = 0
    BY <2>2
  <2>. QED BY <2>3 DEF Init, Follows, AlreadyRead
<1>. QED BY <1>1, <1>2 DEF LoopInv, Init

LEMMA LoopSteps ==
  ASSUME LoopInv, [Next]_vars
  PROVE  LoopInv'
<1>1. CASE CheckPing
  <2>1. LoopTypes /\ UNCHANGED <<clientVars, readerVars>> /\ (Close \/ UNCHANGED <<link, armed>>)
    BY <1>1 DEF LoopInv, CheckPing
  <2>. QED BY <2>1, CloseTypes, LoopLeftAlone DEF LoopTypes
<1>2. CASE CloseEnds \/ Pass \/ UNCHANGED vars
  <2>1. LoopTypes /\ UNCHANGED <<clientVars, readerVars, armed>> /\ link' \in {link, "closed"}
    BY <1>2 DEF LoopInv, CloseEnds, Pass, vars, timerVars
  <2>. QED BY <2>1, LoopLeftAlone DEF LoopTypes
<1>. QED BY <1>1, <1>2, SendKeeps, SendBadKeeps, CutKeeps, ReadLensKeeps, ReadTypeKeeps,
            ReadBodyKeeps, HandleMsgEndsKeeps, ReadEndsKeeps DEF Next, Reader

-----------------------------------------------------------------------------
(* What handleMsg does with the messages *)

LEMMA NumberOfName ==
  ASSUME NEW name
  PROVE  toMsgType(name) = Number(name)
<1>. DEFINE fits == {t \in DOMAIN NameLen : Len(name) = NameLen[t] /\ name = Compared(t)}
            named == {t \in DOMAIN MsgType : name = IF t = "GetRoomInfo" THEN "GetRoomInf" ELSE t}
<1>1. toMsgType(name) =
        IF fits = {} THEN MsgType["MsgUnkown"] ELSE MsgType[CHOOSE t \in fits : TRUE]
  BY DEF toMsgType
<1>2. DOMAIN NameLen = DOMAIN MsgType
  BY DEF NameLen, MsgType
<1>3. fits = named
  <2>1. ASSUME NEW t \in DOMAIN NameLen
        PROVE  /\ name = Compared(t) => Len(name) = NameLen[t]
               /\ Compared(t) = IF t = "GetRoomInfo" THEN "GetRoomInf" ELSE t
    BY NamesAssumption
  <2>. QED BY <1>2, <2>1, Zenon
<1>4. "GetRoomInfo" \in DOMAIN MsgType /\ "GetRoomInf" \notin DOMAIN MsgType
  BY DEF MsgType
<1>. HIDE DEF fits
<1>5. CASE name = "GetRoomInf"
  <2>1. fits = {"GetRoomInfo"}
    BY <1>3, <1>4, <1>5
  <2>2. (CHOOSE t \in fits : TRUE) = "GetRoomInfo"
    BY <2>1
  <2>3. Number(name) = MsgType["GetRoomInfo"]
    <3>. HIDE DEF MsgType
    <3>1. name \notin DOMAIN MsgType \ {"GetRoomInfo"}
      BY <1>4, <1>5
    <3>. QED BY <1>5, <3>1, Zenon DEF Number
  <2>4. toMsgType(name) = MsgType["GetRoomInfo"]
    <3>1. fits # {}
      BY <2>1
    <3>. QED BY <1>1, <2>2, <3>1, Zenon
  <2>. QED BY <2>3, <2>4, Zenon
<1>6. CASE name \in DOMAIN MsgType \ {"GetRoomInfo"}
  <2>1. name # "GetRoomInf"
    BY <1>4, <1>6
  <2>2. fits = {name}
    BY <1>3, <1>6, <2>1
  <2>3. (CHOOSE t \in fits : TRUE) = name
    BY <2>2
  <2>4. Number(name) = MsgType[name]
    <3>. HIDE DEF MsgType
    <3>. QED BY <1>6, <2>1, Zenon DEF Number
  <2>. QED BY <1>1, <2>2, <2>3, <2>4
<1>7. CASE name # "GetRoomInf" /\ name \notin DOMAIN MsgType \ {"GetRoomInfo"}
  <2>1. fits = {}
    BY <1>3, <1>7
  <2>2. Number(name) = MsgType["MsgUnkown"]
    <3>. HIDE DEF MsgType
    <3>. QED BY <1>7, Zenon DEF Number
  <2>. QED BY <1>1, <2>1, <2>2
<1>. QED BY <1>5, <1>6, <1>7

\* The parser finds the name of the message that was sent.
LEMMA NameIsSent ==
  ASSUME LoopInv, phase = "body", bodyLen >= 0, Len(wire) >= bodyLen
  PROVE  /\ sent[taken + 1] \in Message
         /\ protoName(SubSeq(wire, 1, bodyLen)) = sent[taken + 1].name
<1>1. LoopTypes /\ Follows /\ AtSent /\ AlreadyRead = 4 + typeLen
  BY DEF LoopInv, AlreadyRead, AtMessage, AtBad
<1>. DEFINE m == sent[taken + 1]
            text == SubSeq(wire, 1, bodyLen)
            n == m.size
            k == 4 + Len(m.name)
<1>2. /\ m \in Message /\ bodyLen = n /\ AlreadyRead = k
      /\ \A i \in 1..k + n : Unread[i] = serialize(m)[i]
  BY <1>1, UnreadBegins DEF AtSent
<1>3. n \in Nat \ {0} /\ k \in Nat /\ Len(wire) \in Nat /\ wire \in Seq(Bytes)
  BY <1>1, <1>2, ConnectionAssumption DEF LoopTypes
<1>4. /\ text \in Seq(Bytes) /\ Len(text) = n
      /\ \A i \in 1..n : text[i] = wire[i]
  <2>1. n \in 0..Len(wire)
    BY <1>2, <1>3
  <2>. QED BY <1>2, <1>3, <2>1, Kept
<1>5. \A i \in 1..n : serialize(m)[k + i] = Text(m)[i]
  BY <1>2, FrameIs
<1>6. Text(m) \in Seq(Bytes) /\ Len(Text(m)) = n
  BY <1>2, TextParts
<1>7. text = Text(m)
  <2>1. ASSUME NEW i \in 1..n PROVE text[i] = Text(m)[i]
    <3>. HIDE DEF m, text, n, k
    <3>1. i \in 1..Len(wire) /\ k + i \in 1..k + n
      BY <1>2, <1>3
    <3>2. wire[i] = Unread[k + i]
      BY <1>1, <1>2, <3>1 DEF Follows
    <3>. QED BY <1>2, <1>4, <1>5, <3>1, <3>2
  <2>. HIDE DEF m, text, n, k
  <2>. QED BY <1>4, <1>6, <2>1, SeqEqual
<1>. DEFINE begins == {j \in Message : Len(text) >= j.size /\ SubSeq(text, 1, j.size) = Text(j)}
<1>8. m \in begins
  <2>1. SubSeq(text, 1, Len(text)) = text
    <3>. HIDE DEF text
    <3>. QED BY <1>4, SubSeqFull
  <2>. HIDE DEF text, m
  <2>2. Len(text) >= m.size /\ SubSeq(text, 1, m.size) = Text(m)
    BY <1>3, <1>4, <1>7, <2>1
  <2>. QED BY <1>2, <2>2
<1>9. ASSUME NEW j \in begins PROVE j.name = m.name
  <2>1. j \in Message /\ Len(text) >= j.size /\ SubSeq(text, 1, j.size) = Text(j)
    OBVIOUS
  <2>2. j.size \in Nat \ {0} /\ j.size \in 0..Len(text)
    BY <1>3, <1>4, <2>1, ConnectionAssumption
  <2>3. Text(j)[1] = text[1]
    <3>. HIDE DEF text
    <3>. QED BY <1>4, <2>1, <2>2, Kept
  <2>4. Text(j)[1] = <<1 % Byte, j.name>>
    BY <2>2 DEF Text
  <2>5. Text(m)[1] = <<1 % Byte, m.name>>
    BY <1>3 DEF Text
  <2>6. Text(j)[1] = Text(m)[1]
    BY <1>7, <2>3, Zenon
  <2>7. <<1 % Byte, j.name>> = <<1 % Byte, m.name>>
    BY <2>4, <2>5, <2>6, Zenon
  <2>. DEFINE b == 1 % Byte
              x == j.name
              y == m.name
  <2>8. <<b, x>> = <<b, y>>
    BY <2>7
  <2>. HIDE DEF b, x, y
  <2>9. x = y
    BY <2>8
  <2>. QED BY <2>9 DEF x, y
<1>10. protoName(text) = IF begins = {} THEN "" ELSE (CHOOSE j \in begins : TRUE).name
  BY DEF protoName
<1>11. (CHOOSE j \in begins : TRUE) \in begins
  <2>. HIDE DEF begins
  <2>. QED BY <1>8
<1>. HIDE DEF begins, text
<1>12. protoName(text) = m.name
  BY <1>8, <1>9, <1>10, <1>11
<1>. QED BY <1>2, <1>12 DEF text

\* How many members of X are at most n.
LEMMA UpTo ==
  ASSUME NEW X, NEW n \in Nat
  PROVE  /\ Cardinality(X \cap (1..n)) \in Nat
         /\ n + 1 \in X => Cardinality(X \cap (1..n + 1)) = Cardinality(X \cap (1..n)) + 1
         /\ n + 1 \notin X => X \cap (1..n + 1) = X \cap (1..n)
         /\ X \cap (1..n + 1) \subseteq (X \cap (1..n)) \cup {n + 1}
<1>1. IsFiniteSet(X \cap (1..n))
  <2>1. IsFiniteSet(1..n)
    BY FS_Interval
  <2>. QED BY <2>1, FS_Subset
<1>2. Cardinality(X \cap (1..n)) \in Nat
  BY <1>1, FS_CardinalityType
<1>3. n + 1 \notin 1..n /\ 1..n + 1 = (1..n) \cup {n + 1}
  OBVIOUS
<1>4. ASSUME n + 1 \in X
      PROVE  Cardinality(X \cap (1..n + 1)) = Cardinality(X \cap (1..n)) + 1
  <2>1. X \cap (1..n + 1) = (X \cap (1..n)) \cup {n + 1} /\ n + 1 \notin X \cap (1..n)
    BY <1>3, <1>4
  <2>. QED BY <1>1, <2>1, FS_AddElement
<1>. QED BY <1>2, <1>3, <1>4

LEMMA UpToMember ==
  ASSUME NEW X, NEW n \in Nat, NEW i \in X \cap (1..n)
  PROVE  Cardinality(X \cap (1..i)) \in 1..Cardinality(X \cap (1..n))
<1>1. i - 1 \in Nat /\ i - 1 + 1 = i /\ i \in X
  OBVIOUS
<1>2. /\ Cardinality(X \cap (1..i - 1)) \in Nat
      /\ Cardinality(X \cap (1..i)) = Cardinality(X \cap (1..i - 1)) + 1
  BY <1>1, UpTo
<1>3. /\ Cardinality(X \cap (1..n)) \in Nat
      /\ Cardinality(X \cap (1..i)) <= Cardinality(X \cap (1..n))
  <2>1. IsFiniteSet(1..n)
    BY FS_Interval
  <2>2. IsFiniteSet(X \cap (1..n)) /\ X \cap (1..i) \subseteq X \cap (1..n)
    BY <2>1, FS_Subset
  <2>. QED BY <2>2, FS_Subset, FS_CardinalityType
<1>. QED BY <1>2, <1>3

-----------------------------------------------------------------------------

\* The loop may take another message.
GoesOn == phase \in {"type", "body"} \/ (phase = "lens" /\ link # "closed")

\* Dispatched, and that the loop goes on only if every text parsed.
DispatchInv ==
  /\ Dispatched
  /\ GoesOn => \A i \in 1..taken : sent[i].name # ""

LEMMA StillDispatched ==
  ASSUME DispatchInv, taken \in Nat, \A i \in 1..taken : sent'[i] = sent[i],
         UNCHANGED <<taken, forwarded, pongs>>,
         link' = "open" => link = "open", GoesOn' => GoesOn
  PROVE  DispatchInv'
<1>1. \A n \in 0..taken : 
        /\ {i \in 1..n : sent'[i].name \notin {"", "MsgPing"}} = Forwards(n)
        /\ {i \in 1..n : sent'[i].name = "MsgPing"} = Pings(n)
  <2>1. ASSUME NEW n \in 0..taken, NEW i \in 1..n PROVE sent'[i] = sent[i]
    OBVIOUS
  <2>. QED BY <2>1 DEF Forwards, Pings
<1>2. Forwards(taken)' = Forwards(taken) /\ Pings(taken)' = Pings(taken)
  BY <1>1 DEF Forwards, Pings
<1>3. ASSUME NEW i \in Forwards(taken)
      PROVE  /\ sent'[i].name = sent[i].name
             /\ {j \in 1..i : sent'[j].name \notin {"", "MsgPing"}} = Forwards(i)
  <2>1. i \in 1..taken
    BY DEF Forwards
  <2>2. i \in 0..taken
    BY <2>1
  <2>. QED BY <1>1, <2>1, <2>2
<1>4. Len(forwarded)' = Cardinality(Forwards(taken))'
  BY <1>2 DEF DispatchInv, Dispatched
<1>5. ASSUME NEW i \in Forwards(taken)
      PROVE  forwarded'[Cardinality({j \in 1..i : sent'[j].name \notin {"", "MsgPing"}})] =
               Number(sent'[i].name)
  BY <1>3 DEF DispatchInv, Dispatched
<1>6. ASSUME NEW i \in 1..taken PROVE sent'[i].name = sent[i].name
  OBVIOUS
<1>7. \A i \in 1..taken - 1 : sent'[i].name # ""
  <2>1. \A i \in 1..taken - 1 : i \in 1..taken
    OBVIOUS
  <2>. QED BY <1>6, <2>1 DEF DispatchInv, Dispatched
<1>8. /\ pongs' <= Cardinality(Pings(taken)')
      /\ link' = "open" => pongs' = Cardinality(Pings(taken)')
  BY <1>2 DEF DispatchInv, Dispatched
<1>9. Dispatched'
  <2>1. \A i \in Forwards(taken)' :
          forwarded'[Cardinality(Forwards(i)')] =
            Number(sent'[i].name)
    BY <1>2, <1>5 DEF Forwards
  <2>. HIDE DEF Forwards, Pings, Number
  <2>. QED BY <1>4, <1>7, <1>8, <2>1 DEF Dispatched
<1>10. GoesOn' => \A i \in 1..taken' : sent'[i].name # ""
  BY <1>6 DEF DispatchInv
<1>. QED BY <1>9, <1>10 DEF DispatchInv

LEMMA ReadBodyDispatches ==
  ASSUME LoopInv, DispatchInv, ReadBody
  PROVE  DispatchInv'
<1>. DEFINE x == sent[taken + 1].name
            F == {i \in Nat : sent[i].name \notin {"", "MsgPing"}}
            G == {i \in Nat : sent[i].name = "MsgPing"}
            number(i) == Number(sent[i].name)
<1>1. /\ LoopTypes /\ phase = "body" /\ bodyLen >= 0 /\ Len(wire) >= bodyLen
      /\ sent' = sent /\ taken' = taken + 1
  BY DEF LoopInv, ReadBody, Received, Wanted
<1>2. taken \in Nat /\ taken + 1 \in Nat /\ taken + 1 - 1 = taken /\ taken + 1 \in 1..taken + 1
  BY <1>1 DEF LoopTypes
<1>3. sent[taken + 1] \in Message /\ protoName(SubSeq(wire, 1, bodyLen)) = x
  BY <1>1, NameIsSent
<1>4. ASSUME NEW n \in Nat
      PROVE  Forwards(n) = F \cap (1..n) /\ Pings(n) = G \cap (1..n)
  <2>1. 1..n \subseteq Nat
    OBVIOUS
  <2>. QED BY <2>1, Zenon DEF Forwards, Pings
<1>5. /\ Forwards(taken)' = F \cap (1..taken + 1) /\ Pings(taken)' = G \cap (1..taken + 1)
      /\ \A i \in Nat : {j \in 1..i : sent'[j].name \notin {"", "MsgPing"}} = F \cap (1..i)
  <2>1. \A n \in Nat : 1..n \subseteq Nat
    OBVIOUS
  <2>2. \A n \in Nat : /\ {j \in 1..n : sent'[j].name \notin {"", "MsgPing"}} = F \cap (1..n)
                       /\ {j \in 1..n : sent'[j].name = "MsgPing"} = G \cap (1..n)
    BY <1>1, <2>1, Zenon
  <2>. QED BY <1>1, <1>2, <2>2, Zenon DEF Forwards, Pings
<1>6. /\ forwarded \in Seq(Nat) /\ Len(forwarded) \in Nat /\ pongs \in Nat
      /\ Len(forwarded) = Cardinality(F \cap (1..taken))
      /\ pongs <= Cardinality(G \cap (1..taken))
      /\ link = "open" => pongs = Cardinality(G \cap (1..taken))
      /\ \A i \in 1..taken : sent[i].name # ""
  <2>1. forwarded \in Seq(Nat) /\ Len(forwarded) \in Nat /\ pongs \in Nat
    BY <1>1, <1>2 DEF LoopTypes
  <2>2. Forwards(taken) = F \cap (1..taken) /\ Pings(taken) = G \cap (1..taken)
    BY <1>2, <1>4
  <2>3. /\ Len(forwarded) = Cardinality(Forwards(taken))
        /\ pongs <= Cardinality(Pings(taken))
        /\ link = "open" => pongs = Cardinality(Pings(taken))
    BY DEF DispatchInv, Dispatched
  <2>4. \A i \in 1..taken : sent[i].name # ""
    BY <1>1 DEF DispatchInv, GoesOn
  <2>. HIDE DEF F, G
  <2>. QED BY <2>1, <2>2, <2>3, <2>4
<1>7. ASSUME NEW i \in F \cap (1..taken)
      PROVE  /\ Cardinality(F \cap (1..i)) \in 1..Len(forwarded)
             /\ forwarded[Cardinality(F \cap (1..i))] = number(i)
  <2>1. Cardinality(F \cap (1..i)) \in 1..Cardinality(F \cap (1..taken))
    <3>. HIDE DEF F
    <3>. QED BY <1>2, UpToMember
  <2>2. i \in Nat /\ i \in Forwards(taken) /\ Forwards(i) = F \cap (1..i)
    BY <1>2, <1>4
  <2>3. forwarded[Cardinality(Forwards(i))] = number(i)
    BY <2>2 DEF DispatchInv, Dispatched
  <2>. QED BY <1>6, <2>1, <2>2, <2>3
<1>8. /\ taken + 1 \in F <=> x \notin {"", "MsgPing"}
      /\ taken + 1 \in G <=> x = "MsgPing"
  BY <1>2
<1>9. /\ taken + 1 \in F => Cardinality(F \cap (1..taken + 1)) = Cardinality(F \cap (1..taken)) + 1
      /\ taken + 1 \notin F => F \cap (1..taken + 1) = F \cap (1..taken)
      /\ F \cap (1..taken + 1) \subseteq (F \cap (1..taken)) \cup {taken + 1}
  <2>. HIDE DEF F
  <2>. QED BY <1>2, UpTo
<1>10. /\ taken + 1 \in G => Cardinality(G \cap (1..taken + 1)) = Cardinality(G \cap (1..taken)) + 1
       /\ taken + 1 \notin G => G \cap (1..taken + 1) = G \cap (1..taken)
       /\ Cardinality(G \cap (1..taken)) \in Nat
  <2>. HIDE DEF G
  <2>. QED BY <1>2, UpTo
<1>11. /\ Len(forwarded') = Cardinality(F \cap (1..taken + 1))
       /\ \A i \in F \cap (1..taken + 1) : forwarded'[Cardinality(F \cap (1..i))] = number(i)
  <2>1. CASE x \in {"", "MsgPing"}
    <3>1. forwarded' = forwarded
      BY <1>3, <2>1 DEF ReadBody
    <3>2. F \cap (1..taken + 1) = F \cap (1..taken)
      BY <1>8, <1>9, <2>1
    <3>. HIDE DEF F, number
    <3>. QED BY <1>6, <1>7, <3>1, <3>2
  <2>2. CASE x \notin {"", "MsgPing"}
    <3>1. forwarded' = Append(forwarded, toMsgType(x))
      BY <1>3, <2>2 DEF ReadBody
    <3>2. toMsgType(x) = number(taken + 1)
      BY <1>3, NumberOfName
    <3>3. Cardinality(F \cap (1..taken + 1)) = Len(forwarded) + 1
      BY <1>6, <1>8, <1>9, <2>2
    <3>. HIDE DEF F, number, x
    <3>4. toMsgType(x) \in Nat
      BY NumbersOfNames
    <3>5. /\ Len(forwarded') = Len(forwarded) + 1
          /\ forwarded'[Len(forwarded) + 1] = toMsgType(x)
          /\ \A k \in 1..Len(forwarded) : forwarded'[k] = forwarded[k]
      <4>. DEFINE y == toMsgType(x)
      <4>1. forwarded \in Seq(Nat) /\ y \in Nat /\ forwarded' = Append(forwarded, y)
        BY <1>6, <3>1, <3>4
      <4>. HIDE DEF y
      <4>2. /\ Len(forwarded') = Len(forwarded) + 1
            /\ forwarded'[Len(forwarded) + 1] = y
            /\ \A k \in 1..Len(forwarded) : forwarded'[k] = forwarded[k]
        BY <4>1
      <4>. QED BY <4>2 DEF y
    <3>6. ASSUME NEW i \in F \cap (1..taken + 1)
          PROVE  forwarded'[Cardinality(F \cap (1..i))] = number(i)
      <4>1. CASE i \in F \cap (1..taken)
        BY <1>7, <3>5, <4>1
      <4>2. CASE i = taken + 1
        BY <3>2, <3>3, <3>5, <4>2
      <4>. QED BY <1>9, <3>6, <4>1, <4>2
    <3>. QED BY <3>3, <3>5, <3>6
  <2>. QED BY <2>1, <2>2
<1>12. /\ pongs' <= Cardinality(G \cap (1..taken + 1))
       /\ link' = "open" => pongs' = Cardinality(G \cap (1..taken + 1))
  <2>1. CASE x = ""
    <3>1. pongs' = pongs /\ link' # "open"
      BY <1>3, <2>1 DEF ReadBody, Close
    <3>. HIDE DEF G
    <3>. QED BY <1>6, <1>8, <1>10, <2>1, <3>1
  <2>2. CASE x = "MsgPing"
    <3>1. pongs' = (IF link = "open" THEN pongs + 1 ELSE pongs) /\ link' = link
      BY <1>3, <2>2 DEF ReadBody
    <3>2. Cardinality(G \cap (1..taken + 1)) = Cardinality(G \cap (1..taken)) + 1
      BY <1>8, <1>10, <2>2
    <3>. DEFINE c == Cardinality(G \cap (1..taken))
    <3>3. c \in Nat /\ pongs \in Nat /\ pongs <= c /\ (link = "open" => pongs = c)
      BY <1>6, <1>10
    <3>. HIDE DEF c
    <3>4. pongs' <= c + 1 /\ (link' = "open" => pongs' = c + 1)
      BY <3>1, <3>3
    <3>. QED BY <3>2, <3>4 DEF c
  <2>3. CASE x \notin {"", "MsgPing"}
    <3>1. pongs' = pongs /\ link' = link
      BY <1>3, <2>3 DEF ReadBody, timerVars
    <3>. HIDE DEF G
    <3>. QED BY <1>6, <1>8, <1>10, <2>3, <3>1
  <2>. QED BY <2>1, <2>2, <2>3
<1>13. Dispatched'
  <2>1. \A i \in Forwards(taken)' : i \in Nat /\ i \in F \cap (1..taken + 1)
    BY <1>2, <1>5
  <2>2. \A i \in Forwards(taken)' :
          forwarded'[Cardinality({j \in 1..i : sent'[j].name \notin {"", "MsgPing"}})] = number(i)
    <3>. HIDE DEF F, number
    <3>. QED BY <1>5, <1>11, <2>1
  <2>3. \A i \in Forwards(taken)' :
          forwarded'[Cardinality(Forwards(i)')] =
            Number(sent'[i].name)
    BY <1>1, <2>2 DEF Forwards
  <2>4. /\ Len(forwarded)' = Cardinality(Forwards(taken))'
        /\ pongs' <= Cardinality(Pings(taken))'
        /\ link' = "open" => pongs' = Cardinality(Pings(taken))'
    BY <1>5, <1>11, <1>12
  <2>5. \A i \in 1..taken' - 1 : sent'[i].name # ""
    <3>1. taken' - 1 = taken
      BY <1>1, <1>2
    <3>. HIDE DEF F, G
    <3>. QED BY <1>1, <1>6, <3>1, Zenon
  <2>. HIDE DEF Forwards, Pings, Number
  <2>. QED BY <2>3, <2>4, <2>5 DEF Dispatched
<1>14. GoesOn' => \A i \in 1..taken' : sent'[i].name # ""
  <2>1. GoesOn' => x # ""
    BY <1>3 DEF ReadBody, GoesOn
  <2>2. \A i \in 1..taken + 1 : i \in 1..taken \/ i = taken + 1
    BY <1>2
  <2>. QED BY <1>1, <1>6, <2>1, <2>2
<1>. QED BY <1>13, <1>14 DEF DispatchInv

LEMMA DispatchBegins == Init => DispatchInv
<1>. SUFFICES ASSUME Init PROVE DispatchInv
  OBVIOUS
<1>1. taken = 0 /\ forwarded = <<>> /\ Len(forwarded) = 0 /\ pongs = 0
  BY DEF Init
<1>2. Forwards(taken) = {} /\ Pings(taken) = {}
  BY <1>1 DEF Forwards, Pings
<1>3. Cardinality({}) = 0
  BY FS_EmptySet
<1>4. 1..taken = {} /\ 1..taken - 1 = {}
  BY <1>1
<1>. HIDE DEF Forwards, Pings, Init, Number
<1>5. /\ Len(forwarded) = Cardinality(Forwards(taken))
      /\ pongs <= Cardinality(Pings(taken)) /\ pongs = Cardinality(Pings(taken))
  <2>1. Cardinality(Forwards(taken)) = 0 /\ Cardinality(Pings(taken)) = 0
    BY <1>2, <1>3, Zenon
  <2>2. Len(forwarded) = 0 /\ pongs = 0 /\ 0 <= 0
    BY <1>1
  <2>. QED BY <2>1, <2>2, Zenon
<1>6. Dispatched
  <2>1. \A i \in Forwards(taken) :
          forwarded[Cardinality(Forwards(i))] = Number(sent[i].name)
    BY <1>2, Zenon
  <2>2. \A i \in 1..taken - 1 : sent[i].name # ""
    BY <1>4, Zenon
  <2>. QED BY <1>5, <2>1, <2>2, Zenon DEF Dispatched
<1>. QED BY <1>4, <1>6 DEF DispatchInv

LEMMA DispatchSteps ==
  ASSUME LoopInv, DispatchInv, [Next]_vars
  PROVE  DispatchInv'
<1>1. sent \in Seq(Message) /\ taken \in 0..Len(sent) /\ Len(sent) \in Nat /\ taken \in Nat
  BY DEF LoopInv, LoopTypes
<1>2. ASSUME NEW m \in Message, Send(m) PROVE DispatchInv'
  <2>1. \A i \in 1..taken : sent'[i] = sent[i]
    BY <1>1, <1>2 DEF Send
  <2>. QED BY <1>1, <1>2, <2>1, StillDispatched DEF Send, GoesOn, readerVars, timerVars
<1>3. CASE \/ \E b \in BadFrame : SendBad(b)
           \/ Cut \/ CheckPing \/ CloseEnds \/ Pass \/ UNCHANGED vars
  <2>1. /\ UNCHANGED <<sent, taken, forwarded, pongs, phase>>
        /\ link' = "open" => link = "open"
        /\ link = "closed" => link' = "closed"
    BY <1>3 DEF SendBad, Cut, CheckPing, CloseEnds, Pass, Close, vars, clientVars, readerVars,
                timerVars
  <2>2. GoesOn' => GoesOn
    BY <2>1 DEF GoesOn
  <2>. QED BY <1>1, <2>1, <2>2, StillDispatched
<1>4. CASE ReadLens \/ ReadType \/ HandleMsgEnds \/ ReadEnds
  <2>1. /\ UNCHANGED <<sent, taken, forwarded, pongs>>
        /\ link' = "open" => link = "open"
        /\ GoesOn' => GoesOn
    BY <1>4 DEF ReadLens, ReadType, HandleMsgEnds, ReadEnds, Close, GoesOn, clientVars, timerVars
  <2>. QED BY <1>1, <2>1, StillDispatched
<1>. QED BY <1>2, <1>3, <1>4, ReadBodyDispatches DEF Next, Reader

-----------------------------------------------------------------------------
(* The heartbeat *)

\* The inductive invariant of the heartbeat: while there is a timer, it is to fire within six
\* intervals after the last ping, for it was set when the client had been silent for three at
\* most; and time does not pass it by more than MaxLate.
HeartbeatInv ==
  /\ {due, lastPingTime, now} \subseteq Nat
  /\ lastPingTime <= now
  /\ armed => due <= lastPingTime + 6 * kPingInterval /\ now <= due + MaxLate

LEMMA HeartbeatBegins == Init => HeartbeatInv
BY ConnectionAssumption DEF Init, HeartbeatInv

\* close only disarms the timer.
LEMMA CloseDisarms ==
  ASSUME HeartbeatInv, Close, UNCHANGED now
  PROVE  HeartbeatInv'
BY DEF HeartbeatInv, Close

LEMMA TimersLeftAlone ==
  ASSUME HeartbeatInv, UNCHANGED <<due, armed, lastPingTime, now>>
  PROVE  HeartbeatInv'
BY DEF HeartbeatInv

\* The loop touches the timer when it closes the connection or takes a ping.
LEMMA ReaderKeeps ==
  ASSUME HeartbeatInv, Reader
  PROVE  HeartbeatInv'
<1>1. CASE ReadLens
  BY <1>1, CloseDisarms, TimersLeftAlone DEF ReadLens, timerVars
<1>2. CASE ReadType
  BY <1>2, TimersLeftAlone DEF ReadType, timerVars
<1>3. CASE ReadBody
  <2>1. UNCHANGED now
    BY <1>3 DEF ReadBody
  <2>2. CASE Close
    BY <2>1, <2>2, CloseDisarms
  <2>3. CASE UNCHANGED timerVars
    BY <2>1, <2>3, TimersLeftAlone DEF timerVars
  <2>4. CASE lastPingTime' = now /\ UNCHANGED <<armed, due>>
    BY <2>1, <2>4, ConnectionAssumption DEF HeartbeatInv
  <2>. QED BY <1>3, <2>2, <2>3, <2>4 DEF ReadBody
<1>4. CASE HandleMsgEnds
  BY <1>4, TimersLeftAlone DEF HandleMsgEnds, timerVars
<1>5. CASE ReadEnds
  BY <1>5, CloseDisarms DEF ReadEnds
<1>. QED BY <1>1, <1>2, <1>3, <1>4, <1>5 DEF Reader

LEMMA CheckPingKeeps ==
  ASSUME HeartbeatInv, CheckPing
  PROVE  HeartbeatInv'
<1>1. UNCHANGED now
  BY DEF CheckPing
<1>2. CASE Silent
  BY <1>1, <1>2, CloseDisarms DEF CheckPing
<1>3. CASE ~Silent
  <2>1. due' = now + 3 * kPingInterval /\ UNCHANGED <<armed, lastPingTime>>
    BY <1>3 DEF CheckPing
  <2>2. now - lastPingTime <= 3 * kPingInterval
    BY <1>3, ConnectionAssumption DEF Silent, HeartbeatInv
  <2>. QED BY <1>1, <2>1, <2>2, ConnectionAssumption DEF HeartbeatInv
<1>. QED BY <1>2, <1>3

LEMMA PassKeeps ==
  ASSUME HeartbeatInv, Pass
  PROVE  HeartbeatInv'
BY ConnectionAssumption DEF HeartbeatInv, Pass, timerVars

LEMMA HeartbeatSteps ==
  ASSUME HeartbeatInv, [Next]_vars
  PROVE  HeartbeatInv'
<1>1. CASE \/ (\E m \in Message : Send(m)) \/ (\E b \in BadFrame : SendBad(b))
           \/ Cut \/ CloseEnds \/ UNCHANGED vars
  BY <1>1, TimersLeftAlone DEF Send, SendBad, Cut, CloseEnds, vars, timerVars
<1>. QED BY <1>1, ReaderKeeps, CheckPingKeeps, PassKeeps DEF Next

-----------------------------------------------------------------------------
(* Theorems *)

\* What the runs check on two messages holds for all of them.
ConnectionInv == LoopInv /\ HeartbeatInv /\ DispatchInv

LEMMA ConnectionKept == Spec => []ConnectionInv
<1>1. Init => ConnectionInv
  BY LoopBegins, HeartbeatBegins, DispatchBegins DEF ConnectionInv
<1>2. ConnectionInv /\ [Next]_vars => ConnectionInv'
  BY LoopSteps, HeartbeatSteps, DispatchSteps DEF ConnectionInv
<1>. QED BY <1>1, <1>2, PTL DEF Spec

\* The lengths that the loop has read stay in the range of their two bytes (gateway.cc:45-64), and
\* it never takes more messages than there are.
THEOREM ConnectionTyped == Spec => []TypeOK
<1>1. ASSUME LoopInv, HeartbeatInv PROVE TypeOK
  <2>1. LoopTypes /\ {due, lastPingTime, now} \subseteq Nat
    BY <1>1 DEF LoopInv, HeartbeatInv
  <2>2. {taken, pongs} \subseteq 0..MaxSent
    <3>1. Len(sent) \in Nat /\ MaxSent \in Nat
      BY <2>1, ConnectionAssumption DEF LoopTypes
    <3>. QED BY <2>1, <3>1 DEF LoopTypes
  <2>3. \A i \in DOMAIN wire : wire[i][1] \in 0..Byte - 1
    <3>1. \A i \in DOMAIN wire : wire[i] \in Bytes
      BY <2>1 DEF LoopTypes
    <3>2. \A b \in Bytes : b[1] \in 0..Byte - 1
      BY DEF Bytes
    <3>. QED BY <3>1, <3>2, Zenon
  <2>4. \A i \in DOMAIN forwarded : forwarded[i] \in Nat
    BY <2>1 DEF LoopTypes
  <2>. QED BY <2>1, <2>2, <2>3, <2>4 DEF LoopTypes, TypeOK
<1>. QED BY <1>1, ConnectionKept, PTL DEF ConnectionInv

\* However the messages are cut into pieces and whatever they are, the loop reads each of them from
\* its first byte to its last (gateway.cc:49-74).
THEOREM LoopInStep == Spec => []InStep
<1>1. ASSUME LoopInv PROVE InStep
  <2>. SUFFICES ASSUME phase # "ended" PROVE InStep
    BY DEF InStep
  <2>. DEFINE r == AlreadyRead
              rest == SubSeq(Unread, r + 1, Len(Unread))
  <2>1. LoopTypes /\ Follows
    BY <1>1 DEF LoopInv
  <2>2. Unread \in Seq(Bytes) /\ wire \in Seq(Bytes)
    BY <2>1, UnreadBegins DEF LoopTypes
  <2>3. Len(Unread) \in Nat /\ Len(wire) \in Nat
    BY <2>2
  <2>4. r \in Nat
    BY <2>1, MaxIsNumber DEF LoopTypes, AlreadyRead
  <2>5. /\ r + Len(wire) <= Len(Unread)
        /\ \A i \in 1..Len(wire) : wire[i] = Unread[r + i]
        /\ cut \/ r + Len(wire) = Len(Unread)
    BY <2>1 DEF Follows
  <2>. HIDE DEF r
  <2>6. r \in 0..Len(Unread)
    BY <2>3, <2>4, <2>5
  <2>7. /\ rest \in Seq(Bytes) /\ Len(rest) = Len(Unread) - r
        /\ \A i \in 1..Len(Unread) - r : rest[i] = Unread[r + i]
    BY <2>2, <2>6, Dropped
  <2>. HIDE DEF rest
  <2>8. Len(wire) \in 0..Len(rest) /\ (cut \/ Len(wire) = Len(rest))
    BY <2>3, <2>4, <2>5, <2>7
  <2>9. /\ SubSeq(rest, 1, Len(wire)) \in Seq(Bytes)
        /\ Len(SubSeq(rest, 1, Len(wire))) = Len(wire)
        /\ \A i \in 1..Len(wire) : SubSeq(rest, 1, Len(wire))[i] = rest[i]
    BY <2>7, <2>8, Kept
  <2>10. ASSUME NEW i \in 1..Len(wire)
         PROVE  wire[i] = SubSeq(rest, 1, Len(wire))[i]
    <3>1. i \in 1..Len(Unread) - r
      BY <2>3, <2>4, <2>5
    <3>. QED BY <2>5, <2>7, <2>9, <3>1
  <2>11. wire = SubSeq(rest, 1, Len(wire))
    BY <2>2, <2>9, <2>10, SeqEqual
  <2>12. Len(wire) <= Len(rest)
    BY <2>3, <2>8
  <2>. QED BY <2>8, <2>11, <2>12 DEF InStep, rest, r
<1>. QED BY <1>1, ConnectionKept, PTL DEF ConnectionInv

\* The arrays type and body of onConnect hold what is read into them, for every message, the
\* longest one too, and a read with lengths that do not fit each other never ends: the number of
\* bytes it is to read is -2 or -1 (gateway.cc:45-70, 80-92).
THEOREM ReadsAlwaysFit == Spec => []ReadsFit
<1>1. ASSUME LoopInv PROVE ReadsFit
  <2>. SUFFICES ASSUME phase \in {"type", "body"} PROVE ReadsFit
    BY DEF ReadsFit
  <2>1. LoopTypes /\ AtMessage
    BY <1>1 DEF LoopInv
  <2>2. CASE AtSent
    <3>. DEFINE m == sent[taken + 1]
    <3>1. m \in Message
      BY <2>1, <2>2 DEF LoopTypes, AtSent
    <3>. HIDE DEF m
    <3>2. m.size < MAX_MSG_LENGTH
      BY <3>1, ConnectionAssumption, MaxIsNumber
    <3>. QED BY <2>1, <2>2, <3>2 DEF AtMessage, AtSent, ReadsFit, m
  <2>3. CASE AtBad
    <3>1. bodyLen < MAX_MSG_LENGTH /\ ~(taken < Len(sent))
      BY <2>1, <2>3, MaxIsNumber DEF LoopTypes, AtBad
    <3>. QED BY <2>1, <2>3, <3>1 DEF AtMessage, AtBad, ReadsFit
  <2>. QED BY <2>1, <2>2, <2>3 DEF AtMessage
<1>. QED BY <1>1, ConnectionKept, PTL DEF ConnectionInv

\* Every message is forwarded once and in the order it was sent, under the number that the list has
\* for its name, whatever the name is; GetRoomInfo alone is taken for a name one shorter
\* (msgType.h:82).  Every ping of a connection that is not being closed is answered
\* (gateway.cc:94-133).
THEOREM DispatchedOnce == Spec => []Dispatched
<1>1. DispatchInv => Dispatched
  BY DEF DispatchInv
<1>. QED BY <1>1, ConnectionKept, PTL DEF ConnectionInv

\* A client that does not ping is not served for longer than two periods of the heartbeat and what
\* the timer is late (gateway.cc:34-40), whatever it sends and however its messages are cut.
THEOREM SilentClientsGo == Spec => []SilenceIsBounded
<1>1. HeartbeatInv => SilenceIsBounded
  BY ConnectionAssumption DEF HeartbeatInv, SilenceIsBounded
<1>. QED BY <1>1, ConnectionKept, PTL DEF ConnectionInv
=============================================================================
