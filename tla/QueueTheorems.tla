----------------------------- MODULE QueueTheorems -----------------------------
(***************************************************************************)
(* Facts about the Redis lists of the worker, used as stacks: LPUSH puts a *)
(* message in front, BLPOP takes the one in front.                         *)
(***************************************************************************)
EXTENDS Integers, Sequences, FiniteSets, FiniteSetTheorems, SequenceTheorems, TLAPS

\* The places of the queue at which x waits.
Places(q, x) == {i \in DOMAIN q : q[i] = x}

\* LPUSH: the new head first, then the old list.
LEMMA PushedQueue ==
  ASSUME NEW S, NEW q \in Seq(S), NEW x \in S
  PROVE  LET p == <<x>> \o q
         IN /\ p \in Seq(S) /\ Len(p) = Len(q) + 1 /\ p[1] = x
            /\ \A i \in 2..Len(p) : i - 1 \in 1..Len(q) /\ p[i] = q[i - 1]
<1>1. /\ <<x>> \in Seq(S) /\ Len(<<x>>) = 1 /\ <<x>>[1] = x
  OBVIOUS
<1>2. Len(q) \in Nat
  OBVIOUS
<1>3. QED
  BY <1>1, <1>2

\* BLPOP: what remains are the later elements.
LEMMA PoppedQueue ==
  ASSUME NEW S, NEW q \in Seq(S), q # <<>>
  PROVE  /\ Head(q) \in S /\ Tail(q) \in Seq(S) /\ Head(q) = q[1] /\ 1 \in 1..Len(q)
         /\ \A i \in 1..Len(Tail(q)) : i + 1 \in 1..Len(q) /\ Tail(q)[i] = q[i + 1]
BY HeadTailProperties, EmptySeq

LEMMA PlacesAreFinite ==
  ASSUME NEW S, NEW q \in Seq(S), NEW x
  PROVE  IsFiniteSet(Places(q, x)) /\ Cardinality(Places(q, x)) \in Nat
<1>1. DOMAIN q = 1..Len(q) /\ Len(q) \in Nat
  OBVIOUS
<1>2. IsFiniteSet(1..Len(q)) /\ Places(q, x) \in SUBSET (1..Len(q))
  BY <1>1, FS_Interval DEF Places
<1>3. QED
  BY <1>2, FS_Subset, FS_CardinalityType

\* A set of places keeps its size when the list moves by one.
LEMMA ShiftedPlaces ==
  ASSUME NEW P \in SUBSET Nat, IsFiniteSet(P)
  PROVE  LET Q == {i + 1 : i \in P}
         IN IsFiniteSet(Q) /\ Cardinality(Q) = Cardinality(P)
<1> DEFINE Q == {i + 1 : i \in P}
           f == [i \in P |-> i + 1]
<1>1. f \in Bijection(P, Q)
  <2>1. f \in [P -> Q] /\ \A i, j \in P : f[i] = f[j] => i = j
    OBVIOUS
  <2>2. \A y \in Q : \E i \in P : f[i] = y
    OBVIOUS
  <2>3. QED
    BY <2>1, <2>2 DEF Bijection, Injection, Surjection, IsInjective
<1>2. ExistsBijection(P, Q)
  BY <1>1 DEF ExistsBijection
<1>3. QED
  BY <1>2, FS_Bijection

LEMMA PushedPlaces ==
  ASSUME NEW S, NEW q \in Seq(S), NEW x \in S, NEW y
  PROVE  Cardinality(Places(<<x>> \o q, y)) =
           Cardinality(Places(q, y)) + IF x = y THEN 1 ELSE 0
<1> DEFINE p == <<x>> \o q
           shifted == {i + 1 : i \in Places(q, y)}
<1>1. /\ p \in Seq(S) /\ Len(p) = Len(q) + 1 /\ p[1] = x
      /\ \A i \in 2..Len(p) : i - 1 \in 1..Len(q) /\ p[i] = q[i - 1]
  BY PushedQueue
<1>2. DOMAIN q = 1..Len(q) /\ DOMAIN p = 1..Len(p) /\ Len(q) \in Nat
  BY <1>1
<1> HIDE DEF p
<1>3. Places(p, y) = IF x = y THEN shifted \cup {1} ELSE shifted
  <2>1. \A i \in 2..Len(p) : i \in Places(p, y) <=> i - 1 \in Places(q, y)
    BY <1>1, <1>2 DEF Places
  <2>2. \A i \in 1..Len(q) : i + 1 \in 2..Len(p)
    BY <1>1, <1>2
  <2>3. \A i \in 2..Len(p) : i \in Places(p, y) <=> i \in shifted
    <3>1. \A i \in 2..Len(p) : i \in shifted <=> i - 1 \in Places(q, y)
      BY <1>2 DEF Places
    <3>2. QED
      BY <2>1, <3>1
  <2>4. Places(p, y) \subseteq {1} \cup 2..Len(p) /\ shifted \subseteq 2..Len(p)
    BY <1>1, <1>2, <2>2 DEF Places
  <2>5. 1 \in Places(p, y) <=> x = y
    BY <1>1, <1>2 DEF Places
  <2>6. 1 \notin 2..Len(p)
    OBVIOUS
  <2> HIDE DEF shifted
  <2>7. CASE x = y
    BY <2>3, <2>4, <2>5, <2>7
  <2>8. CASE x # y
    <3>1. Places(p, y) \subseteq 2..Len(p)
      BY <2>4, <2>5, <2>8
    <3>2. \A i : i \in Places(p, y) <=> i \in shifted
      BY <2>3, <2>4, <3>1
    <3>3. QED
      BY <2>8, <3>2, Zenon
  <2>9. QED
    BY <2>7, <2>8
<1>4. /\ IsFiniteSet(shifted) /\ Cardinality(shifted) = Cardinality(Places(q, y))
      /\ 1 \notin shifted
  <2>0. Places(q, y) \in SUBSET Nat
    BY <1>2 DEF Places
  <2>1. IsFiniteSet(Places(q, y)) /\ Places(q, y) \in SUBSET Nat
    BY <2>0, PlacesAreFinite
  <2>2. \A i \in Places(q, y) : i + 1 # 1
    BY <1>2 DEF Places
  <2>3. QED
    BY <2>1, <2>2, ShiftedPlaces
<1> HIDE DEF shifted
<1>5. Cardinality(shifted \cup {1}) = Cardinality(Places(q, y)) + 1
  BY <1>4, FS_AddElement
<1>6. Cardinality(Places(p, y)) = Cardinality(Places(q, y)) + IF x = y THEN 1 ELSE 0
  <2>1. Cardinality(Places(q, y)) \in Nat
    BY PlacesAreFinite
  <2>2. QED
    BY <1>3, <1>4, <1>5, <2>1
<1>7. QED
  BY <1>6 DEF p

LEMMA PoppedPlaces ==
  ASSUME NEW S, NEW q \in Seq(S), q # <<>>, NEW y
  PROVE  Cardinality(Places(q, y)) =
           Cardinality(Places(Tail(q), y)) + IF Head(q) = y THEN 1 ELSE 0
<1> DEFINE h == Head(q)
           t == Tail(q)
<1>1. h \in S /\ t \in Seq(S) /\ q = <<h>> \o t
  OBVIOUS
<1> HIDE DEF h, t
<1>2. Cardinality(Places(<<h>> \o t, y)) = Cardinality(Places(t, y)) + IF h = y THEN 1 ELSE 0
  BY <1>1, PushedPlaces
<1>3. QED
  BY <1>1, <1>2 DEF h, t
=============================================================================
