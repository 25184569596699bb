---------------------------- MODULE QueueProofs ----------------------------
(***************************************************************************)
(* What a message put into a queue, or taken from it, does to the messages *)
(* in it and to their number.                                              *)
(***************************************************************************)
EXTENDS Queues, FiniteSetTheorems, TLAPS

LEMMA EmptyQueue ==
  /\ In(<<>>) = {}
  /\ \A T : HowMany(<<>>, T) = 0
<1>1. DOMAIN <<>> = {}
  OBVIOUS
<1>. QED BY <1>1, FS_EmptySet DEF In, HowMany

LEMMA Appended ==
  ASSUME NEW S, NEW s \in Seq(S), NEW e \in S
  PROVE  /\ Append(s, e) \in Seq(S)
         /\ In(Append(s, e)) = In(s) \cup {e}
<1>1. /\ DOMAIN s = 1..Len(s) /\ Len(s) \in Nat
      /\ DOMAIN Append(s, e) = 1..Len(s) + 1
      /\ \A i \in 1..Len(s) : Append(s, e)[i] = s[i]
      /\ Append(s, e)[Len(s) + 1] = e
  OBVIOUS
<1>2. In(Append(s, e)) \subseteq In(s) \cup {e}
  BY <1>1 DEF In
<1>3. In(s) \subseteq In(Append(s, e)) /\ e \in In(Append(s, e))
  BY <1>1 DEF In
<1>. QED BY <1>2, <1>3

LEMMA TakenFrom ==
  ASSUME NEW S, NEW s \in Seq(S), s # <<>>
  PROVE  /\ Tail(s) \in Seq(S)
         /\ Head(s) \in S
         /\ In(s) = {Head(s)} \cup In(Tail(s))
<1>1. /\ DOMAIN s = 1..Len(s) /\ Len(s) \in Nat \ {0}
      /\ DOMAIN Tail(s) = 1..Len(s) - 1
      /\ \A i \in 1..Len(s) - 1 : Tail(s)[i] = s[i + 1]
      /\ Head(s) = s[1]
  OBVIOUS
<1>2. In(Tail(s)) \subseteq In(s) /\ Head(s) \in In(s)
  BY <1>1 DEF In
<1>3. ASSUME NEW i \in DOMAIN s
      PROVE  s[i] \in {Head(s)} \cup In(Tail(s))
  <2>1. CASE i = 1
    BY <1>1, <2>1
  <2>2. CASE i # 1
    <3>1. i - 1 \in DOMAIN Tail(s) /\ s[i] = Tail(s)[i - 1]
      BY <1>1, <2>2
    <3>. QED BY <3>1 DEF In
  <2>. QED BY <2>1, <2>2
<1>4. In(s) \subseteq {Head(s)} \cup In(Tail(s))
  BY <1>3 DEF In
<1>. QED BY <1>1, <1>2, <1>4

LEMMA PlacesFinite ==
  \A S, T : \A s \in Seq(S) : IsFiniteSet({i \in DOMAIN s : s[i] \in T})
<1>. SUFFICES ASSUME NEW S, NEW T, NEW s \in Seq(S)
              PROVE  IsFiniteSet({i \in DOMAIN s : s[i] \in T})
  OBVIOUS
<1>1. IsFiniteSet(1..Len(s)) /\ {i \in DOMAIN s : s[i] \in T} \in SUBSET (1..Len(s))
  BY FS_Interval
<1>. QED BY <1>1, FS_Subset

LEMMA HowManyType ==
  ASSUME NEW S, NEW s \in Seq(S), NEW T
  PROVE  /\ HowMany(s, T) \in Nat
         /\ HowMany(s, T) = 0 <=> In(s) \cap T = {}
<1>. DEFINE P == {i \in DOMAIN s : s[i] \in T}
<1>1. IsFiniteSet(P)
  BY PlacesFinite, Zenon
<1>2. P = {} <=> In(s) \cap T = {}
  BY DEF In
<1>3. HowMany(s, T) = Cardinality(P)
  BY DEF HowMany
<1>. HIDE DEF P
<1>. QED BY <1>1, <1>2, <1>3, FS_CardinalityType, FS_EmptySet

LEMMA HowManyAppended ==
  ASSUME NEW S, NEW s \in Seq(S), NEW e \in S, NEW T
  PROVE  HowMany(Append(s, e), T) = HowMany(s, T) + IF e \in T THEN 1 ELSE 0
<1>. DEFINE n == Len(s) + 1
            P == {i \in DOMAIN s : s[i] \in T}
            Q == {i \in DOMAIN Append(s, e) : Append(s, e)[i] \in T}
<1>1. /\ DOMAIN s = 1..Len(s) /\ Len(s) \in Nat
      /\ DOMAIN Append(s, e) = (1..Len(s)) \cup {n} /\ n \notin 1..Len(s)
      /\ \A i \in 1..Len(s) : Append(s, e)[i] = s[i]
      /\ Append(s, e)[n] = e
  OBVIOUS
<1>2. IsFiniteSet(P) /\ HowMany(s, T) \in Nat
  <2>1. IsFiniteSet(P)
    BY PlacesFinite, Zenon
  <2>. QED BY <2>1, HowManyType
<1>3. HowMany(s, T) = Cardinality(P) /\ HowMany(Append(s, e), T) = Cardinality(Q)
  BY DEF HowMany
<1>4. n \notin P
  BY <1>1
<1>5. Q = IF e \in T THEN P \cup {n} ELSE P
  BY <1>1
<1>. HIDE DEF P, Q, n
<1>6. Cardinality(P \cup {n}) = Cardinality(P) + 1
  BY <1>2, <1>4, FS_AddElement
<1>. QED BY <1>2, <1>3, <1>5, <1>6

LEMMA HowManyTaken ==
  ASSUME NEW S, NEW s \in Seq(S), s # <<>>, NEW T
  PROVE  HowMany(s, T) = HowMany(Tail(s), T) + IF Head(s) \in T THEN 1 ELSE 0
<1>. DEFINE t == Tail(s)
            P == {i \in DOMAIN t : t[i] \in T}
            R == {i \in DOMAIN s : s[i] \in T /\ i # 1}
            Q == {i \in DOMAIN s : s[i] \in T}
            f == [i \in P |-> i + 1]
<1>1. /\ DOMAIN s = 1..Len(s) /\ Len(s) \in Nat \ {0}
      /\ DOMAIN t = 1..Len(s) - 1 /\ t \in Seq(S)
      /\ \A i \in 1..Len(s) - 1 : t[i] = s[i + 1]
      /\ Head(s) = s[1]
  OBVIOUS
<1>2. IsFiniteSet(P) /\ HowMany(t, T) \in Nat
  <2>1. t \in Seq(S)
    BY <1>1
  <2>2. IsFiniteSet(P)
    BY <2>1, PlacesFinite, Zenon
  <2>. QED BY <2>1, <2>2, HowManyType
<1>3. HowMany(s, T) = Cardinality(Q) /\ HowMany(t, T) = Cardinality(P)
  BY DEF HowMany
<1>4. f \in [P -> R]
  BY <1>1
<1>5. \A i, j \in P : f[i] = f[j] => i = j
  BY <1>1
<1>6. \A j \in R : \E i \in P : f[i] = j
  <2>. SUFFICES ASSUME NEW j \in R PROVE \E i \in P : f[i] = j
    OBVIOUS
  <2>1. j - 1 \in P /\ f[j - 1] = j
    BY <1>1
  <2>. QED BY <2>1
<1>7. f \in Bijection(P, R)
  BY <1>4, <1>5, <1>6 DEF Bijection, Injection, Surjection, IsInjective
<1>8. Q = (IF Head(s) \in T THEN R \cup {1} ELSE R) /\ 1 \notin R
  BY <1>1
<1>. HIDE DEF P, Q, R, f, t
<1>9. IsFiniteSet(R) /\ Cardinality(R) = Cardinality(P)
  BY <1>2, <1>7, FS_Bijection DEF ExistsBijection
<1>10. Cardinality(R \cup {1}) = Cardinality(R) + 1
  BY <1>8, <1>9, FS_AddElement
<1>11. HowMany(s, T) = HowMany(t, T) + IF Head(s) \in T THEN 1 ELSE 0
  BY <1>2, <1>3, <1>8, <1>9, <1>10
<1>. QED BY <1>11 DEF t

\* All of it for one message put into a queue, and for one taken from it.
LEMMA QueuePut ==
  ASSUME NEW S, NEW s \in Seq(S), NEW e \in S
  PROVE  /\ Append(s, e) \in Seq(S)
         /\ In(Append(s, e)) = In(s) \cup {e}
         /\ \A T : /\ HowMany(s, T) \in Nat
                   /\ HowMany(Append(s, e), T) = HowMany(s, T) + IF e \in T THEN 1 ELSE 0
BY Appended, HowManyAppended, HowManyType

LEMMA QueueTaken ==
  ASSUME NEW S, NEW s \in Seq(S), s # <<>>
  PROVE  /\ Tail(s) \in Seq(S)
         /\ Head(s) \in S
         /\ In(s) = {Head(s)} \cup In(Tail(s))
         /\ \A T : /\ HowMany(s, T) \in Nat
                   /\ HowMany(Tail(s), T) \in Nat
                   /\ HowMany(s, T) = HowMany(Tail(s), T) + IF Head(s) \in T THEN 1 ELSE 0
BY TakenFrom, HowManyTaken, HowManyType
=============================================================================
