----------------------------- MODULE FrameProofs -----------------------------
(***************************************************************************)
(* Lemmas for ConnectionProofs: induction over the numbers, by sets of     *)
(* numbers, and with it the bytes of the messages that a client sends.     *)
(***************************************************************************)
EXTENDS Connection, SequenceTheorems, WellFoundedInduction, TLAPS

-----------------------------------------------------------------------------
(* Induction *)

LEMMA LeastNumber ==
  ASSUME NEW T, T \subseteq Nat, T # {}
  PROVE  \E n \in T : \A k \in T : n <= k
<1>. DEFINE R == {ss \in Nat \X Nat : ss[1] < ss[2]}
<1>1. IsWellFoundedOn(R, Nat)
  BY NatLessThanWellFounded DEF OpToRel
<1>2. PICK n \in T : \A k \in T : ~(<<k, n>> \in R)
  <2>. HIDE DEF R
  <2>. QED BY <1>1, WFMin
<1>3. ASSUME NEW k \in T PROVE n <= k
  <2>1. k \in Nat /\ n \in Nat
    OBVIOUS
  <2>2. k < n => <<k, n>> \in R
    BY <2>1
  <2>3. ~(k < n)
    <3>. HIDE DEF R
    <3>. QED BY <1>2, <2>2
  <2>. QED BY <2>1, <2>3
<1>. QED BY <1>3

LEMMA Induction ==
  ASSUME NEW S, 0 \in S, \A n \in Nat : n \in S => n + 1 \in S
  PROVE  Nat \subseteq S
<1>. DEFINE T == Nat \ S
<1>1. SUFFICES ASSUME T # {} PROVE FALSE
  OBVIOUS
<1>2. PICK n \in T : \A k \in T : n <= k
  BY <1>1, LeastNumber
<1>3. n # 0 /\ n - 1 \in Nat /\ n - 1 \notin T
  BY <1>2
<1>. QED BY <1>2, <1>3

LEMMA Downward ==
  ASSUME NEW N \in Nat, NEW T, N + 1 \in T, \A i \in 1..N : i + 1 \in T => i \in T
  PROVE  1..N + 1 \subseteq T
<1>. DEFINE S == {d \in Nat : d <= N => N + 1 - d \in T}
<1>1. 0 \in S
  OBVIOUS
<1>2. ASSUME NEW n \in Nat, n \in S PROVE n + 1 \in S
  <2>. SUFFICES ASSUME n + 1 <= N PROVE N + 1 - (n + 1) \in T
    OBVIOUS
  <2>1. N - n \in 1..N /\ N + 1 - n = (N - n) + 1 /\ N + 1 - (n + 1) = N - n
    OBVIOUS
  <2>. QED BY <1>2, <2>1
<1>3. Nat \subseteq S
  <2>. HIDE DEF S
  <2>. QED BY <1>1, <1>2, Induction
<1>4. ASSUME NEW i \in 1..N + 1 PROVE i \in T
  <2>1. N + 1 - i \in Nat /\ N + 1 - i <= N /\ N + 1 - (N + 1 - i) = i
    OBVIOUS
  <2>. QED BY <1>3, <2>1
<1>. QED BY <1>4

-----------------------------------------------------------------------------
(* Frames *)

\* The bytes there are.
Bytes == (0..Byte - 1) \X ({"length", "type"} \cup {m.name : m \in Message})

LEMMA ByteValue ==
  ASSUME NEW n \in Nat
  PROVE  n % Byte \in 0..Byte - 1
BY ConnectionAssumption

LEMMA Joined ==
  ASSUME NEW S, NEW s \in Seq(S), NEW t \in Seq(S)
  PROVE  /\ s \o t \in Seq(S) /\ Len(s \o t) = Len(s) + Len(t)
         /\ \A i \in 1..Len(s) : (s \o t)[i] = s[i]
         /\ \A i \in 1..Len(t) : (s \o t)[Len(s) + i] = t[i]
<1>1. /\ s \o t \in Seq(S) /\ Len(s \o t) = Len(s) + Len(t)
      /\ \A i \in 1..Len(s) + Len(t) : (s \o t)[i] = IF i <= Len(s) THEN s[i] ELSE t[i - Len(s)]
      /\ Len(s) \in Nat /\ Len(t) \in Nat
  BY ConcatProperties
<1>2. ASSUME NEW i \in 1..Len(t) PROVE (s \o t)[Len(s) + i] = t[i]
  <2>1. /\ Len(s) + i \in 1..Len(s) + Len(t)
        /\ ~(Len(s) + i <= Len(s)) /\ (Len(s) + i) - Len(s) = i
    BY <1>1
  <2>. QED BY <1>1, <2>1
<1>. QED BY <1>1, <1>2

LEMMA HeaderParts ==
  ASSUME NEW n \in Nat
  PROVE  /\ LengthBytes(n) \in Seq(Bytes) /\ Len(LengthBytes(n)) = 2
         /\ [i \in 1..n |-> <<i % Byte, "type">>] \in Seq(Bytes)
         /\ Len([i \in 1..n |-> <<i % Byte, "type">>]) = n
<1>1. LengthBytes(n) \in Seq(Bytes) /\ Len(LengthBytes(n)) = 2
  <2>1. n \div Byte \in Nat
    BY ConnectionAssumption
  <2>2. <<n % Byte, "length">> \in Bytes /\ <<(n \div Byte) % Byte, "length">> \in Bytes
    BY <2>1, ByteValue DEF Bytes
  <2>. QED BY <2>2 DEF LengthBytes
<1>2. ASSUME NEW i \in 1..n
      PROVE  <<i % Byte, "type">> \in Bytes
  BY ByteValue DEF Bytes
<1>. QED BY <1>1, <1>2

LEMMA TextParts ==
  ASSUME NEW m \in Message
  PROVE  /\ Len(m.name) \in Nat /\ m.size \in Nat \ {0}
         /\ Text(m) \in Seq(Bytes) /\ Len(Text(m)) = m.size
<1>1. Len(m.name) \in Nat /\ m.size \in Nat \ {0}
  BY ConnectionAssumption
<1>2. ASSUME NEW i \in 1..m.size
      PROVE  <<i % Byte, m.name>> \in Bytes
  <2>1. i % Byte \in 0..Byte - 1 /\ m.name \in {k.name : k \in Message}
    BY <1>1, ByteValue
  <2>. QED BY <2>1 DEF Bytes
<1>. QED BY <1>1, <1>2 DEF Text

\* A header is two lengths and a type.
LEMMA HeaderIs ==
  ASSUME NEW k \in Nat, NEW n \in Nat
  PROVE  /\ Header(k, n) \in Seq(Bytes) /\ Len(Header(k, n)) = 4 + n
         /\ \A i \in {1, 2} : Header(k, n)[i] = LengthBytes(k)[i]
         /\ \A i \in {1, 2} : Header(k, n)[2 + i] = LengthBytes(n)[i]
<1>. DEFINE l1 == LengthBytes(k)
            l2 == LengthBytes(n)
            ty == [i \in 1..n |-> <<i % Byte, "type">>]
<1>1. /\ l1 \in Seq(Bytes) /\ Len(l1) = 2
      /\ l2 \in Seq(Bytes) /\ Len(l2) = 2
      /\ ty \in Seq(Bytes) /\ Len(ty) = n
  BY HeaderParts
<1>2. Header(k, n) = l1 \o l2 \o ty
  BY DEF Header
<1>. HIDE DEF l1, l2, ty
<1>. DEFINE l == l1 \o l2
            h == l \o ty
<1>3. /\ l \in Seq(Bytes) /\ Len(l) = 4
      /\ \A i \in 1..2 : l[i] = l1[i]
      /\ \A i \in 1..2 : l[2 + i] = l2[i]
  <2>1. /\ l \in Seq(Bytes) /\ Len(l) = Len(l1) + Len(l2)
        /\ \A i \in 1..Len(l1) : l[i] = l1[i]
        /\ \A i \in 1..Len(l2) : l[Len(l1) + i] = l2[i]
    <3>1. l1 \in Seq(Bytes) /\ l2 \in Seq(Bytes)
      BY <1>1
    <3>. QED BY <3>1, Joined
  <2>. HIDE DEF l
  <2>. QED BY <1>1, <2>1
<1>. HIDE DEF l
<1>4. /\ h \in Seq(Bytes) /\ Len(h) = 4 + n
      /\ \A i \in 1..4 : h[i] = l[i]
  <2>1. /\ h \in Seq(Bytes) /\ Len(h) = Len(l) + Len(ty)
        /\ \A i \in 1..Len(l) : h[i] = l[i]
    <3>1. l \in Seq(Bytes) /\ ty \in Seq(Bytes)
      BY <1>1, <1>3
    <3>. QED BY <3>1, Joined
  <2>. HIDE DEF h
  <2>. QED BY <1>1, <1>3, <2>1
<1>5. Header(k, n) = h
  BY <1>2 DEF l
<1>. HIDE DEF h
<1>6. ASSUME NEW i \in {1, 2} PROVE h[i] = l1[i] /\ h[2 + i] = l2[i]
  <2>1. i \in 1..2 /\ i \in 1..4 /\ 2 + i \in 1..4
    OBVIOUS
  <2>2. h[i] = l[i] /\ l[i] = l1[i] /\ h[2 + i] = l[2 + i] /\ l[2 + i] = l2[i]
    <3>1. h[i] = l[i] /\ h[2 + i] = l[2 + i]
      BY <1>4, <2>1
    <3>2. l[i] = l1[i] /\ l[2 + i] = l2[i]
      BY <1>3, <2>1
    <3>. QED BY <3>1, <3>2
  <2>. QED BY <2>2, Zenon
<1>. QED BY <1>4, <1>5, <1>6 DEF l1, l2

\* A frame is two lengths, a type and a text, and no byte else.
LEMMA FrameIs ==
  ASSUME NEW m \in Message
  PROVE  /\ serialize(m) \in Seq(Bytes)
         /\ Len(serialize(m)) = 4 + Len(m.name) + m.size
         /\ \A i \in {1, 2} : serialize(m)[i] = LengthBytes(Len(m.name) + m.size + 2)[i]
         /\ \A i \in {1, 2} : serialize(m)[2 + i] = LengthBytes(Len(m.name))[i]
         /\ \A i \in 1..m.size : serialize(m)[4 + Len(m.name) + i] = Text(m)[i]
<1>. DEFINE n == Len(m.name)
            k == n + m.size + 2
            h == Header(k, n)
            tx == Text(m)
<1>1. /\ n \in Nat /\ m.size \in Nat /\ k \in Nat
      /\ tx \in Seq(Bytes) /\ Len(tx) = m.size
  <2>1. n \in Nat /\ m.size \in Nat \ {0} /\ tx \in Seq(Bytes) /\ Len(tx) = m.size
    BY TextParts
  <2>. HIDE DEF tx, n
  <2>. QED BY <2>1
<1>2. serialize(m) = h \o tx
  BY DEF serialize
<1>. HIDE DEF n, k, tx
<1>3. /\ h \in Seq(Bytes) /\ Len(h) = 4 + n
      /\ \A i \in {1, 2} : h[i] = LengthBytes(k)[i]
      /\ \A i \in {1, 2} : h[2 + i] = LengthBytes(n)[i]
  BY <1>1, HeaderIs
<1>. HIDE DEF h
<1>4. /\ h \o tx \in Seq(Bytes) /\ Len(h \o tx) = Len(h) + Len(tx)
      /\ \A i \in 1..Len(h) : (h \o tx)[i] = h[i]
      /\ \A i \in 1..Len(tx) : (h \o tx)[Len(h) + i] = tx[i]
  <2>1. h \in Seq(Bytes) /\ tx \in Seq(Bytes)
    BY <1>1, <1>3
  <2>. QED BY <2>1, Joined
<1>. DEFINE f == serialize(m)
<1>5. /\ f \in Seq(Bytes) /\ Len(f) = 4 + n + m.size
      /\ \A i \in 1..4 + n : f[i] = h[i]
      /\ \A i \in 1..m.size : f[4 + n + i] = tx[i]
  BY <1>1, <1>2, <1>3, <1>4
<1>. HIDE DEF f
<1>6. \A i \in {1, 2} : i \in 1..4 + n /\ 2 + i \in 1..4 + n
  BY <1>1
<1>7. \A i \in {1, 2} : f[i] = LengthBytes(k)[i] /\ f[2 + i] = LengthBytes(n)[i]
  BY <1>3, <1>5, <1>6
<1>. QED BY <1>5, <1>7 DEF f, n, k, tx

\* The gateway computes the length the client wrote.
LEMMA LengthIs ==
  ASSUME NEW n \in 0..MAX_MSG_LENGTH
  PROVE  Byte * LengthBytes(n)[2][1] + LengthBytes(n)[1][1] = n
<1>. DEFINE q == n \div Byte
<1>1. n \in Nat /\ Byte \in Nat \ {0} /\ n < Byte * Byte
  BY ConnectionAssumption DEF MAX_MSG_LENGTH
<1>2. q \in Nat /\ n = Byte * q + (n % Byte) /\ n % Byte \in 0..Byte - 1
  BY <1>1 DEF q
<1>3. q < Byte
  BY <1>1, <1>2
<1>4. q % Byte = q
  BY <1>1, <1>2, <1>3
<1>. QED BY <1>2, <1>4 DEF LengthBytes

-----------------------------------------------------------------------------
(* The bytes of several messages *)

\* The recursion of BytesFrom ends: there is such a function.
LEMMA BytesFromUnfolds ==
  ASSUME NEW ms \in Seq(Message)
  PROVE  /\ BytesFrom(ms)[Len(ms) + 1] = <<>>
         /\ \A i \in 1..Len(ms) :
              BytesFrom(ms)[i] = serialize(ms[i]) \o BytesFrom(ms)[i + 1]
<1>. DEFINE N == Len(ms)
            Body(f, low) ==
              [i \in low..N + 1 |-> IF i > N THEN <<>> ELSE serialize(ms[i]) \o f[i + 1]]
            Has(low) == \E f : f = Body(f, low)
<1>1. N \in Nat
  OBVIOUS
<1>2. Has(N + 1)
  <2>. DEFINE f == [i \in N + 1..N + 1 |-> <<>>]
  <2>1. f = Body(f, N + 1)
    <3>1. \A i \in N + 1..N + 1 : i > N
      BY <1>1
    <3>. HIDE DEF N
    <3>. QED BY <3>1
  <2>. QED BY <2>1
<1>3. ASSUME NEW low \in 1..N, Has(low + 1) PROVE Has(low)
  <2>1. PICK f : f = Body(f, low + 1)
    BY <1>3
  <2>. DEFINE g == [i \in low..N + 1 |-> IF i = low THEN serialize(ms[i]) \o f[i + 1] ELSE f[i]]
  <2>. HIDE DEF N
  <2>2. ASSUME NEW i \in low..N + 1
        PROVE  g[i] = IF i > N THEN <<>> ELSE serialize(ms[i]) \o g[i + 1]
    <3>1. i <= N => g[i + 1] = f[i + 1]
      BY <1>1
    <3>2. CASE i = low
      <4>1. i <= N /\ ~(i > N)
        BY <1>1, <3>2
      <4>2. g[i] = serialize(ms[i]) \o f[i + 1]
        BY <3>2
      <4>. QED BY <3>1, <4>1, <4>2
    <3>3. CASE i # low
      <4>1. i \in low + 1..N + 1
        BY <1>1, <3>3
      <4>2. g[i] = f[i]
        BY <3>3
      <4>3. f[i] = IF i > N THEN <<>> ELSE serialize(ms[i]) \o f[i + 1]
        BY <2>1, <4>1
      <4>. QED BY <1>1, <3>1, <4>2, <4>3
    <3>. QED BY <3>2, <3>3
  <2>3. g = Body(g, low)
    BY <2>2
  <2>. QED BY <2>3
<1>4. Has(1)
  <2>. DEFINE T == {low \in 1..N + 1 : Has(low)}
  <2>. HIDE DEF Has, N
  <2>1. N + 1 \in T
    BY <1>1, <1>2
  <2>2. ASSUME NEW i \in 1..N, i + 1 \in T PROVE i \in T
    BY <1>1, <1>3, <2>2
  <2>3. 1..N + 1 \subseteq T
    <3>. HIDE DEF T
    <3>. QED BY <1>1, <2>1, <2>2, Downward
  <2>. QED BY <1>1, <2>3
<1>5. \E f : f = Body(f, 1)
  BY <1>4
<1>6. BytesFrom(ms) = CHOOSE f : f = Body(f, 1)
  BY DEF BytesFrom
<1>7. BytesFrom(ms) = Body(BytesFrom(ms), 1)
  <2>. HIDE DEF Body
  <2>. QED BY <1>5, <1>6
<1>8. \A i \in 1..N + 1 :
        BytesFrom(ms)[i] = IF i > N THEN <<>> ELSE serialize(ms[i]) \o BytesFrom(ms)[i + 1]
  BY <1>7
<1>9. N + 1 \in 1..N + 1 /\ N + 1 > N /\ \A i \in 1..N : i \in 1..N + 1 /\ ~(i > N)
  BY <1>1
<1>. QED
  <2>. HIDE DEF N
  <2>1. BytesFrom(ms)[N + 1] = <<>>
    BY <1>8, <1>9, Zenon
  <2>2. ASSUME NEW i \in 1..N
        PROVE  BytesFrom(ms)[i] = serialize(ms[i]) \o BytesFrom(ms)[i + 1]
    BY <1>8, <1>9, Zenon
  <2>. QED BY <2>1, <2>2 DEF N

LEMMA BytesFromTyped ==
  ASSUME NEW ms \in Seq(Message)
  PROVE  \A i \in 1..Len(ms) + 1 : BytesFrom(ms)[i] \in Seq(Bytes)
<1>. DEFINE N == Len(ms)
            b == BytesFrom(ms)
            T == {i \in 1..N + 1 : b[i] \in Seq(Bytes)}
<1>1. N \in Nat /\ \A i \in 1..N : ms[i] \in Message
  OBVIOUS
<1>2. b[N + 1] = <<>> /\ \A i \in 1..N : b[i] = serialize(ms[i]) \o b[i + 1]
  BY BytesFromUnfolds
<1>. HIDE DEF N, b
<1>3. N + 1 \in T
  <2>1. N + 1 \in 1..N + 1
    BY <1>1
  <2>2. b[N + 1] \in Seq(Bytes)
    BY <1>2, EmptySeq
  <2>. QED BY <2>1, <2>2
<1>4. ASSUME NEW i \in 1..N, i + 1 \in T PROVE i \in T
  <2>1. b[i] = serialize(ms[i]) \o b[i + 1]
    BY <1>2
  <2>2. serialize(ms[i]) \in Seq(Bytes)
    BY <1>1, FrameIs
  <2>3. b[i + 1] \in Seq(Bytes)
    BY <1>4
  <2>4. serialize(ms[i]) \o b[i + 1] \in Seq(Bytes)
    BY <2>2, <2>3, Joined
  <2>5. i \in 1..N + 1
    BY <1>1
  <2>. QED BY <2>1, <2>4, <2>5
<1>5. 1..N + 1 \subseteq T
  <2>. HIDE DEF T
  <2>. QED BY <1>1, <1>3, <1>4, Downward
<1>. QED BY <1>5 DEF N, b

\* What is sent is put behind what was sent before.
LEMMA BytesFromAppend ==
  ASSUME NEW ms \in Seq(Message), NEW m \in Message
  PROVE  \A i \in 1..Len(ms) + 1 :
           BytesFrom(Append(ms, m))[i] = BytesFrom(ms)[i] \o serialize(m)
<1>. DEFINE N == Len(ms)
            ns == Append(ms, m)
            b == BytesFrom(ms)
            c == BytesFrom(ns)
            f == serialize(m)
            T == {i \in 1..N + 1 : c[i] = b[i] \o f}
<1>1. /\ N \in Nat /\ ns \in Seq(Message) /\ Len(ns) = N + 1
      /\ \A i \in 1..N : ms[i] \in Message /\ ns[i] = ms[i]
      /\ ns[N + 1] = m
  OBVIOUS
<1>2. b[N + 1] = <<>> /\ \A i \in 1..N : b[i] = serialize(ms[i]) \o b[i + 1]
  BY BytesFromUnfolds
<1>3. \A i \in 1..N + 1 : b[i] \in Seq(Bytes)
  BY BytesFromTyped
<1>. HIDE DEF ns
<1>4. /\ c[Len(ns) + 1] = <<>>
      /\ \A i \in 1..Len(ns) : c[i] = serialize(ns[i]) \o c[i + 1]
  BY <1>1, BytesFromUnfolds
<1>. HIDE DEF N, b, c
<1>5. N + 1 \in 1..N + 1 /\ \A i \in 1..N : i \in 1..N + 1
  BY <1>1
<1>6. f \in Seq(Bytes)
  BY FrameIs
<1>7. N + 1 \in T
  <2>1. b[N + 1] = <<>> /\ c[N + 1 + 1] = <<>> /\ c[N + 1] = f \o c[N + 1 + 1]
    BY <1>1, <1>2, <1>4, <1>5, Zenon
  <2>2. f \o <<>> = f /\ <<>> \o f = f
    <3>. HIDE DEF f
    <3>. QED BY <1>6, ConcatEmptySeq
  <2>3. c[N + 1] = b[N + 1] \o f
    BY <2>1, <2>2, Zenon
  <2>. QED BY <1>5, <2>3, Zenon
<1>8. ASSUME NEW i \in 1..N, i + 1 \in T PROVE i \in T
  <2>. DEFINE g == serialize(ms[i])
  <2>1. b[i] = g \o b[i + 1] /\ c[i] = g \o c[i + 1]
    BY <1>1, <1>2, <1>4, <1>5, Zenon
  <2>2. g \in Seq(Bytes) /\ b[i + 1] \in Seq(Bytes)
    BY <1>1, <1>3, FrameIs
  <2>3. (g \o b[i + 1]) \o f = g \o (b[i + 1] \o f)
    <3>. DEFINE x == b[i + 1]
    <3>1. g \in Seq(Bytes) /\ x \in Seq(Bytes) /\ f \in Seq(Bytes)
      BY <1>6, <2>2
    <3>. HIDE DEF f, g, x
    <3>2. (g \o x) \o f = g \o (x \o f)
      BY <3>1, ConcatAssociative
    <3>. QED BY <3>2 DEF x
  <2>4. c[i] = b[i] \o f
    BY <1>8, <2>1, <2>3, Zenon
  <2>. QED BY <1>5, <2>4, Zenon
<1>9. 1..N + 1 \subseteq T
  <2>. HIDE DEF T
  <2>. QED BY <1>1, <1>7, <1>8, Downward
<1>. QED BY <1>9 DEF N, b, c, ns
=============================================================================
