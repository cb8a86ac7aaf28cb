------------------------- MODULE NotificationsProofs -------------------------
(***************************************************************************)
(* Theorems about Notifications, for any messages and priorities, any      *)
(* number of sessions, any cap of the queue.                               *)
(***************************************************************************)
EXTENDS Notifications, SequenceTheorems, FiniteSetTheorems, TLAPS

LEMMA LeastOf ==
  ASSUME NEW T \in SUBSET Nat, T # {}
  PROVE  \E n \in T : \A k \in T : n <= k
  <1>1. PICK n \in T : \A k \in T : ~(<<k, n>> \in OpToRel(<, Nat))
    BY NatLessThanWellFounded, WFMin
  <1>2. \A k \in T : ~(k < n)
    BY <1>1 DEF OpToRel
  <1> QED BY <1>2

------------------------------------------------------------------------------
(* The queue *)

(* r is q with m at place i. *)
Inserted(r, S, q, i, m) ==
  /\ r \in Seq(S)
  /\ Len(r) = Len(q) + 1
  /\ \A k \in 1..(Len(q) + 1) : r[k] = IF k < i THEN q[k] ELSE IF k = i THEN m ELSE q[k - 1]

LEMMA InsertAtIs ==
  ASSUME NEW S, NEW q \in Seq(S), NEW m \in S, NEW i \in 1..(Len(q) + 1)
  PROVE  Inserted(InsertAt(q, i, m), S, q, i, m)
  <1> DEFINE a == SubSeq(q, 1, i - 1)
             b == SubSeq(q, i, Len(q))
             ab == a \o <<m>>
  <1>0. Len(q) \in Nat /\ i \in Int /\ i - 1 \in Int /\ \A k \in 1..Len(q) : q[k] \in S
    BY LenProperties, ElementOfSeq
  <1>1. /\ a \in Seq(S) /\ Len(a) = i - 1
        /\ \A k \in 1..(i - 1) : a[k] = q[k]
    <2>1. \A k \in 1..(i - 1) : q[k] \in S
      BY <1>0
    <2>2. /\ a \in Seq(S)
          /\ Len(a) = IF 1 <= i - 1 THEN i - 1 - 1 + 1 ELSE 0
          /\ \A k \in 1..(i - 1 - 1 + 1) : a[k] = q[1 + k - 1]
      BY ONLY <2>1, <1>0, SubSeqProperties, 1 \in Int
    <2> HIDE DEF a
    <2> QED BY <2>2, <1>0
  <1>2. /\ b \in Seq(S) /\ Len(b) = Len(q) + 1 - i
        /\ \A k \in 1..(Len(q) + 1 - i) : b[k] = q[i + k - 1]
    <2>1. \A k \in i..Len(q) : q[k] \in S
      BY <1>0
    <2>2. /\ b \in Seq(S)
          /\ Len(b) = IF i <= Len(q) THEN Len(q) - i + 1 ELSE 0
          /\ \A k \in 1..(Len(q) - i + 1) : b[k] = q[i + k - 1]
      BY ONLY <2>1, <1>0, SubSeqProperties, Len(q) \in Int
    <2> HIDE DEF b
    <2> QED BY <2>2, <1>0
  <1> HIDE DEF a, b
  <1>3. <<m>> \in Seq(S) /\ Len(<<m>>) = 1 /\ <<m>>[1] = m
    OBVIOUS
  <1>4. /\ ab \in Seq(S) /\ Len(ab) = i
        /\ \A k \in 1..i : ab[k] = IF k < i THEN q[k] ELSE m
    <2>1. /\ ab \in Seq(S)
          /\ Len(ab) = Len(a) + 1
          /\ \A k \in 1..(Len(a) + 1) : ab[k] = IF k <= Len(a) THEN a[k] ELSE <<m>>[k - Len(a)]
      BY <1>1, <1>3, ConcatProperties
    <2> HIDE DEF ab
    <2> QED BY <1>0, <1>1, <1>3, <2>1
  <1> HIDE DEF ab
  <1>5. /\ ab \o b \in Seq(S)
        /\ Len(ab \o b) = Len(ab) + Len(b)
        /\ \A k \in 1..(Len(ab) + Len(b)) :
              (ab \o b)[k] = IF k <= Len(ab) THEN ab[k] ELSE b[k - Len(ab)]
    BY <1>2, <1>4, ConcatProperties
  <1>6. InsertAt(q, i, m) = ab \o b
    BY DEF InsertAt, ab, a, b
  <1>7. \A k \in 1..(Len(q) + 1) :
           (ab \o b)[k] = IF k < i THEN q[k] ELSE IF k = i THEN m ELSE q[k - 1]
    BY <1>0, <1>2, <1>4, <1>5
  <1> QED BY <1>0, <1>2, <1>4, <1>5, <1>6, <1>7 DEF Inserted

LEMMA RemoveAtIs ==
  ASSUME NEW S, NEW q \in Seq(S), NEW i \in 1..Len(q)
  PROVE  /\ RemoveAt(q, i) \in Seq(S)
         /\ Len(RemoveAt(q, i)) = Len(q) - 1
         /\ \A k \in 1..(Len(q) - 1) :
               RemoveAt(q, i)[k] = IF k < i THEN q[k] ELSE q[k + 1]
  <1> DEFINE a == SubSeq(q, 1, i - 1)
             b == SubSeq(q, i + 1, Len(q))
  <1>0. Len(q) \in Nat /\ i \in Int /\ i - 1 \in Int /\ i + 1 \in Int
        /\ \A k \in 1..Len(q) : q[k] \in S
    BY LenProperties, ElementOfSeq
  <1>1. /\ a \in Seq(S) /\ Len(a) = i - 1
        /\ \A k \in 1..(i - 1) : a[k] = q[k]
    <2>1. \A k \in 1..(i - 1) : q[k] \in S
      BY <1>0
    <2>2. /\ a \in Seq(S)
          /\ Len(a) = IF 1 <= i - 1 THEN i - 1 - 1 + 1 ELSE 0
          /\ \A k \in 1..(i - 1 - 1 + 1) : a[k] = q[1 + k - 1]
      BY ONLY <2>1, <1>0, SubSeqProperties, 1 \in Int
    <2> HIDE DEF a
    <2> QED BY <2>2, <1>0
  <1>2. /\ b \in Seq(S) /\ Len(b) = Len(q) - i
        /\ \A k \in 1..(Len(q) - i) : b[k] = q[i + k]
    <2>1. \A k \in (i + 1)..Len(q) : q[k] \in S
      BY <1>0
    <2>2. /\ b \in Seq(S)
          /\ Len(b) = IF i + 1 <= Len(q) THEN Len(q) - (i + 1) + 1 ELSE 0
          /\ \A k \in 1..(Len(q) - (i + 1) + 1) : b[k] = q[i + 1 + k - 1]
      BY ONLY <2>1, <1>0, SubSeqProperties, Len(q) \in Int
    <2> HIDE DEF b
    <2> QED BY <2>2, <1>0
  <1> HIDE DEF a, b
  <1>3. /\ a \o b \in Seq(S)
        /\ Len(a \o b) = Len(a) + Len(b)
        /\ \A k \in 1..(Len(a) + Len(b)) :
              (a \o b)[k] = IF k <= Len(a) THEN a[k] ELSE b[k - Len(a)]
    BY <1>1, <1>2, ConcatProperties
  <1>4. RemoveAt(q, i) = a \o b
    BY DEF RemoveAt, a, b
  <1>5. ASSUME NEW k \in 1..(Len(q) - 1)
        PROVE  (a \o b)[k] = IF k < i THEN q[k] ELSE q[k + 1]
    <2>1. CASE k < i
      BY <1>0, <1>1, <1>2, <1>3, <2>1
    <2>2. CASE ~(k < i)
      <3>1. k - (i - 1) \in 1..(Len(q) - i) /\ i + (k - (i - 1)) = k + 1
        BY <1>0, <2>2
      <3>2. b[k - (i - 1)] = q[k + 1]
        BY <1>2, <3>1
      <3>3. k \in 1..(Len(a) + Len(b)) /\ ~(k <= Len(a)) /\ k - Len(a) = k - (i - 1)
        BY <1>0, <1>1, <1>2, <2>2
      <3>4. (a \o b)[k] = b[k - (i - 1)]
        BY <1>3, <3>3
      <3> QED BY <2>2, <3>2, <3>4
    <2> QED BY <2>1, <2>2
  <1> QED BY <1>0, <1>1, <1>2, <1>3, <1>4, <1>5

(* What a queue is: in drain order, nothing twice, within the cap. *)
IsQueue(q) == /\ q \in Seq(Message) /\ IsInjective(q)
              /\ Sorted(q)
              /\ Len(q) <= Cap

Stamped == {m \in Message : stamp[m] # 0}
StampsFit == stamp \in [Message -> Nat] /\ IsFiniteSet(Stamped)

LEMMA ToSetIs ==
  ASSUME NEW S, NEW q \in Seq(S)
  PROVE  /\ ToSet(q) \subseteq S
         /\ \A x : x \in ToSet(q) <=> \E k \in 1..Len(q) : q[k] = x
  <1>1. DOMAIN q = 1..Len(q) /\ \A k \in 1..Len(q) : q[k] \in S
    BY LenProperties, ElementOfSeq
  <1> QED BY <1>1 DEF ToSet

LEMMA EmptyIsQueue == IsQueue(<<>>) /\ ToSet(<<>>) = {}
  <1>1. <<>> \in Seq(Message) /\ Len(<<>>) = 0 /\ DOMAIN <<>> = {}
    BY EmptySeq
  <1>2. Cap \in Nat
    BY NotifyAssumption
  <1>3. \A i, j \in 1..0 : FALSE
    OBVIOUS
  <1> QED BY <1>1, <1>2, <1>3 DEF IsQueue, IsInjective, Sorted, ToSet

(* DrainLess is a strict order with ties. *)
LEMMA DrainLessOrder ==
  ASSUME StampsFit
  PROVE  /\ \A m, n \in Message : DrainLess(m, n) => ~DrainLess(n, m)
         /\ \A m, n, r \in Message : DrainLess(m, n) /\ ~DrainLess(r, n) => DrainLess(m, r)
         /\ \A m, n, r \in Message : DrainLess(m, n) /\ ~DrainLess(m, r) => DrainLess(r, n)
  <1>1. \A m \in Message : Prio[m] \in Nat /\ stamp[m] \in Nat
    BY NotifyAssumption DEF StampsFit
  <1> QED BY <1>1 DEF DrainLess

LEMMA PlaceIs ==
  ASSUME NEW q \in Seq(Message), NEW m \in Message
  PROVE  /\ Place(q, m) \in 1..(Len(q) + 1)
         /\ \A j \in 1..(Place(q, m) - 1) : ~DrainLess(m, q[j])
         /\ Place(q, m) <= Len(q) => DrainLess(m, q[Place(q, m)])
  <1> DEFINE T == {i \in 1..(Len(q) + 1) : i <= Len(q) => DrainLess(m, q[i])}
  <1>0. Len(q) \in Nat
    BY LenProperties
  <1>1. T \in SUBSET Nat /\ Len(q) + 1 \in T
    BY <1>0
  <1>2. PICK i \in T : \A k \in T : i <= k
    BY <1>1, LeastOf
  <1>3. \A j \in 1..(i - 1) : ~DrainLess(m, q[j])
    <2> SUFFICES ASSUME NEW j \in 1..(i - 1), DrainLess(m, q[j]) PROVE FALSE
      OBVIOUS
    <2>1. j \in T
      BY <1>0
    <2> QED BY <1>0, <1>2, <2>1
  <1>4. \E n \in 1..(Len(q) + 1) : /\ \A j \in 1..(n - 1) : ~DrainLess(m, q[j])
                                   /\ n <= Len(q) => DrainLess(m, q[n])
    BY <1>3
  <1> HIDE DEF T
  <1> QED BY <1>4 DEF Place

LEMMA InsertIs ==
  ASSUME StampsFit, NEW q, IsQueue(q), NEW m \in Message, m \notin ToSet(q), Len(q) < Cap
  PROVE  IsQueue(Insert(q, m)) /\ ToSet(Insert(q, m)) = ToSet(q) \cup {m}
  <1> DEFINE i == Place(q, m)
             r == Insert(q, m)
  <1>0. q \in Seq(Message) /\ IsInjective(q) /\ Sorted(q) /\ Len(q) \in Nat /\ Cap \in Nat
    BY LenProperties, NotifyAssumption DEF IsQueue
  <1>1. /\ i \in 1..(Len(q) + 1)
        /\ \A j \in 1..(i - 1) : ~DrainLess(m, q[j])
        /\ i <= Len(q) => DrainLess(m, q[i])
    BY <1>0, PlaceIs
  <1>2. /\ r \in Seq(Message)
        /\ Len(r) = Len(q) + 1
        /\ \A k \in 1..(Len(q) + 1) :
              r[k] = IF k < i THEN q[k] ELSE IF k = i THEN m ELSE q[k - 1]
    <2>1. r = InsertAt(q, i, m)
      BY DEF Insert
    <2>2. q \in Seq(Message) /\ m \in Message /\ i \in 1..(Len(q) + 1)
      BY <1>0, <1>1
    <2> HIDE DEF i, r
    <2>3. Inserted(InsertAt(q, i, m), Message, q, i, m)
      BY ONLY <2>2, InsertAtIs
    <2> QED BY ONLY <2>1, <2>3 DEF Inserted
  <1> HIDE DEF i, r
  <1>3. DOMAIN q = 1..Len(q) /\ DOMAIN r = 1..(Len(q) + 1)
        /\ \A k \in 1..Len(q) : q[k] \in Message /\ q[k] # m
    BY <1>0, <1>2, LenProperties, ElementOfSeq, ToSetIs
  <1>4. IsInjective(r)
    <2> SUFFICES ASSUME NEW a \in 1..(Len(q) + 1), NEW b \in 1..(Len(q) + 1), a < b
                 PROVE  r[a] # r[b]
      BY <1>0, <1>3 DEF IsInjective
    <2>1. \A c, d \in 1..Len(q) : q[c] = q[d] => c = d
      BY <1>0, <1>3 DEF IsInjective
    <2>2. CASE a = i \/ b = i
      BY <1>0, <1>1, <1>2, <1>3, <2>2
    <2>3. CASE a # i /\ b # i
      <3> DEFINE c == IF a < i THEN a ELSE a - 1
                 d == IF b < i THEN b ELSE b - 1
      <3>1. c \in 1..Len(q) /\ d \in 1..Len(q) /\ c < d /\ r[a] = q[c] /\ r[b] = q[d]
        BY <1>0, <1>1, <1>2, <2>3
      <3> QED BY <2>1, <3>1
    <2> QED BY <2>2, <2>3
  <1>5. Sorted(r)
    <2> SUFFICES ASSUME NEW a \in 1..(Len(q) + 1), NEW b \in 1..(Len(q) + 1), a < b
                 PROVE  ~DrainLess(r[b], r[a])
      BY <1>2 DEF Sorted
    <2>1. \A c, d \in 1..Len(q) : c < d => ~DrainLess(q[d], q[c])
      BY <1>0 DEF Sorted
    <2>2. CASE a = i
      <3>1. b - 1 \in 1..Len(q) /\ i \in 1..Len(q) /\ r[b] = q[b - 1] /\ r[a] = m
        BY <1>0, <1>1, <1>2, <2>2
      <3>2. DrainLess(m, q[i]) /\ (b - 1 = i \/ ~DrainLess(q[b - 1], q[i]))
        BY <1>0, <1>1, <2>1, <2>2, <3>1
      <3>3. q[i] \in Message /\ q[b - 1] \in Message
        BY <1>3, <3>1
      <3>4. DrainLess(m, q[b - 1])
        BY <3>2, <3>3, DrainLessOrder
      <3> QED BY <3>1, <3>3, <3>4, DrainLessOrder
    <2>3. CASE b = i
      BY <1>0, <1>1, <1>2, <2>3
    <2>4. CASE a # i /\ b # i
      <3> DEFINE c == IF a < i THEN a ELSE a - 1
                 d == IF b < i THEN b ELSE b - 1
      <3>1. c \in 1..Len(q) /\ d \in 1..Len(q) /\ c < d /\ r[a] = q[c] /\ r[b] = q[d]
        BY <1>0, <1>1, <1>2, <2>4
      <3> QED BY <2>1, <3>1
    <2> QED BY <2>2, <2>3, <2>4
  <1>6. ToSet(r) = ToSet(q) \cup {m}
    <2>1. \A x : x \in ToSet(r) => x \in ToSet(q) \cup {m}
      <3> SUFFICES ASSUME NEW k \in 1..(Len(q) + 1), r[k] # m PROVE r[k] \in ToSet(q)
        BY <1>2, ToSetIs
      <3>1. \E c \in 1..Len(q) : q[c] = r[k]
        BY <1>0, <1>1, <1>2
      <3> QED BY <1>0, <3>1, ToSetIs
    <2>2. m \in ToSet(r)
      <3>1. r[i] = m /\ i \in 1..Len(r)
        BY <1>0, <1>1, <1>2
      <3> QED BY <1>2, <3>1, ToSetIs
    <2>3. ASSUME NEW c \in 1..Len(q) PROVE q[c] \in ToSet(r)
      <3>1. \E k \in 1..Len(r) : r[k] = q[c]
        <4>1. CASE c < i
          BY <1>0, <1>1, <1>2, <4>1
        <4>2. CASE ~(c < i)
          <5>1. c + 1 \in 1..Len(r) /\ r[c + 1] = q[c]
            BY <1>0, <1>1, <1>2, <4>2
          <5> QED BY <5>1
        <4> QED BY <4>1, <4>2
      <3> QED BY <1>2, <3>1, ToSetIs
    <2> QED BY <1>0, <2>1, <2>2, <2>3, ToSetIs
  <1> QED BY <1>0, <1>2, <1>4, <1>5, <1>6 DEF IsQueue, r

LEMMA RemoveIs ==
  ASSUME NEW q, IsQueue(q), NEW i \in 1..Len(q)
  PROVE  /\ IsQueue(RemoveAt(q, i))
         /\ ToSet(RemoveAt(q, i)) = ToSet(q) \ {q[i]}
         /\ Len(RemoveAt(q, i)) = Len(q) - 1
  <1> DEFINE r == RemoveAt(q, i)
             At(k) == IF k < i THEN k ELSE k + 1
  <1>0. q \in Seq(Message) /\ IsInjective(q) /\ Sorted(q) /\ Len(q) \in Nat /\ Cap \in Nat
        /\ DOMAIN q = 1..Len(q)
    BY LenProperties, NotifyAssumption DEF IsQueue
  <1>1. /\ r \in Seq(Message) /\ Len(r) = Len(q) - 1
        /\ \A k \in 1..(Len(q) - 1) : r[k] = IF k < i THEN q[k] ELSE q[k + 1]
    BY <1>0, RemoveAtIs
  <1> HIDE DEF r
  <1>2. DOMAIN r = 1..(Len(q) - 1)
    BY <1>0, <1>1, LenProperties
  <1>3. \A k \in 1..(Len(q) - 1) : At(k) \in 1..Len(q) /\ At(k) # i /\ r[k] = q[At(k)]
    BY <1>0, <1>1
  <1>4. \A k, l \in 1..(Len(q) - 1) : k < l => At(k) < At(l)
    BY <1>0
  <1> HIDE DEF At
  <1>5. IsInjective(r)
    <2>1. \A c, d \in 1..Len(q) : q[c] = q[d] => c = d
      BY <1>0 DEF IsInjective
    <2> SUFFICES ASSUME NEW a \in 1..(Len(q) - 1), NEW b \in 1..(Len(q) - 1), a < b
                 PROVE  r[a] # r[b]
      BY <1>0, <1>2 DEF IsInjective
    <2>2. At(a) < At(b) /\ At(a) \in 1..Len(q) /\ At(b) \in 1..Len(q)
      BY <1>3, <1>4
    <2>3. r[a] = q[At(a)] /\ r[b] = q[At(b)]
      BY <1>3
    <2> QED BY <2>1, <2>2, <2>3
  <1>6. Sorted(r)
    <2>1. \A c, d \in 1..Len(q) : c < d => ~DrainLess(q[d], q[c])
      BY <1>0 DEF Sorted
    <2> QED BY <1>1, <1>3, <1>4, <2>1 DEF Sorted
  <1>7. ToSet(r) = ToSet(q) \ {q[i]}
    <2>1. ASSUME NEW x \in ToSet(r) PROVE x \in ToSet(q) \ {q[i]}
      <3>1. PICK k \in 1..(Len(q) - 1) : r[k] = x
        BY <1>1, <2>1, ToSetIs
      <3>2. x = q[At(k)] /\ At(k) \in 1..Len(q) /\ At(k) # i
        BY <1>3, <3>1
      <3>3. q[At(k)] # q[i]
        BY <1>0, <3>2 DEF IsInjective
      <3> QED BY <1>0, <3>2, <3>3, ToSetIs
    <2>2. ASSUME NEW x \in ToSet(q) \ {q[i]} PROVE x \in ToSet(r)
      <3>1. PICK c \in 1..Len(q) : q[c] = x /\ c # i
        BY <1>0, <2>2, ToSetIs
      <3>2. \E k \in 1..(Len(q) - 1) : r[k] = q[c]
        <4>1. CASE c < i
          BY <1>0, <1>1, <4>1
        <4>2. CASE ~(c < i)
          <5>1. c - 1 \in 1..(Len(q) - 1) /\ ~(c - 1 < i) /\ c - 1 + 1 = c
            BY <1>0, <3>1, <4>2
          <5> QED BY <1>1, <5>1
        <4> QED BY <4>1, <4>2
      <3> QED BY <1>1, <3>1, <3>2, ToSetIs
    <2> QED BY <2>1, <2>2
  <1>8. Len(r) <= Cap
    BY <1>0, <1>1 DEF IsQueue
  <1> QED BY <1>1, <1>5, <1>6, <1>7, <1>8 DEF IsQueue, r

LEMMA OldestIs ==
  ASSUME NEW q \in Seq(Message), q # <<>>
  PROVE  OldestAtTier(q, Prio[Last(q)]) \in 1..Len(q)
  <1> DEFINE T == {i \in 1..Len(q) : Prio[q[i]] = Prio[Last(q)]}
  <1>0. Len(q) \in Nat \ {0}
    BY EmptySeq
  <1>1. T \in SUBSET Nat /\ Len(q) \in T
    BY <1>0 DEF Last
  <1>2. PICK i \in T : \A k \in T : i <= k
    BY <1>1, LeastOf
  <1>3. \A j \in 1..(i - 1) : Prio[q[j]] # Prio[Last(q)]
    <2> SUFFICES ASSUME NEW j \in 1..(i - 1), Prio[q[j]] = Prio[Last(q)] PROVE FALSE
      OBVIOUS
    <2>1. j \in T
      BY <1>0
    <2> QED BY <1>0, <1>2, <2>1
  <1>4. \E n \in 1..Len(q) : /\ Prio[q[n]] = Prio[Last(q)]
                             /\ \A j \in 1..(n - 1) : Prio[q[j]] # Prio[Last(q)]
    BY <1>3
  <1> HIDE DEF T
  <1> QED BY <1>4 DEF OldestAtTier

(* Queue.Append keeps a queue a queue, and loses only what it says. *)
LEMMA Append1Is ==
  ASSUME StampsFit, NEW q, IsQueue(q), NEW m \in Message, m \notin ToSet(q)
  PROVE  /\ IsQueue(Append1(q, m).queue)
         /\ Append1(q, m).out \subseteq ToSet(q) \cup {m}
         /\ ToSet(Append1(q, m).queue) = (ToSet(q) \cup {m}) \ Append1(q, m).out
  <1>0. q \in Seq(Message) /\ Len(q) \in Nat /\ Cap \in Nat /\ Len(q) <= Cap
    BY LenProperties, NotifyAssumption DEF IsQueue
  <1>1. CASE ~Full(q)
    <2>1. Append1(q, m) = [queue |-> Insert(q, m), out |-> {}]
      BY <1>1 DEF Append1
    <2>2. Len(q) < Cap
      BY <1>0, <1>1 DEF Full
    <2> QED BY <2>1, <2>2, InsertIs
  <1>2. CASE Full(q) /\ (q = <<>> \/ Prio[Last(q)] > Prio[m])
    <2>1. Append1(q, m) = [queue |-> q, out |-> {m}]
      BY <1>2 DEF Append1
    <2> QED BY <2>1
  <1>3. CASE Full(q) /\ ~(q = <<>> \/ Prio[Last(q)] > Prio[m])
    <2> DEFINE i == OldestAtTier(q, Prio[Last(q)])
               r == RemoveAt(q, i)
    <2>1. Append1(q, m) = [queue |-> Insert(r, m), out |-> {q[i]}]
      BY <1>3 DEF Append1
    <2>2. i \in 1..Len(q)
      BY <1>0, <1>3, OldestIs
    <2> HIDE DEF i
    <2>3. IsQueue(r) /\ ToSet(r) = ToSet(q) \ {q[i]} /\ Len(r) = Len(q) - 1
      BY <2>2, RemoveIs
    <2>4. q[i] \in ToSet(q)
      BY <1>0, <2>2, ToSetIs
    <2> HIDE DEF r
    <2>5. IsQueue(Insert(r, m)) /\ ToSet(Insert(r, m)) = ToSet(r) \cup {m}
      BY <1>0, <2>3, InsertIs
    <2> QED BY <2>1, <2>3, <2>4, <2>5
  <1> QED BY <1>1, <1>2, <1>3

(* The queues after each turn of the loop that puts a backlog back. *)
Turn(b, m) == LET r == Append1(b.queue, m)
              IN  [queue |-> r.queue, out |-> b.out \cup r.out]
IsAfter(after, q, ms, n) ==
  after = [k \in 0..n |-> IF k = 0 THEN [queue |-> q, out |-> {}]
                          ELSE Turn(after[k - 1], ms[k])]

LEMMA AfterExists ==
  ASSUME NEW q, NEW ms, NEW n \in Nat
  PROVE  \E after : IsAfter(after, q, ms, n)
  <1> DEFINE Bad == {l \in Nat : ~\E after : IsAfter(after, q, ms, l)}
  <1> SUFFICES ASSUME n \in Bad PROVE FALSE
    OBVIOUS
  <1>1. PICK l \in Bad : \A k \in Bad : l <= k
    BY LeastOf
  <1>2. CASE l = 0
    <2> DEFINE z == [k \in 0..0 |-> [queue |-> q, out |-> {}]]
    <2>1. IsAfter(z, q, ms, 0)
      BY DEF IsAfter
    <2> QED BY <1>1, <1>2, <2>1
  <1>3. CASE l # 0
    <2>1. l \in Nat /\ l - 1 \in Nat /\ l - 1 \notin Bad
      BY <1>1, <1>3
    <2>2. PICK g : IsAfter(g, q, ms, l - 1)
      BY <2>1
    <2> DEFINE h == [k \in 0..l |-> IF k = l THEN Turn(g[l - 1], ms[l]) ELSE g[k]]
    <2>3. \A k \in 0..(l - 1) : g[k] = IF k = 0 THEN [queue |-> q, out |-> {}]
                                       ELSE Turn(g[k - 1], ms[k])
      BY <2>2 DEF IsAfter
    <2>4. ASSUME NEW k \in 0..l
          PROVE  h[k] = IF k = 0 THEN [queue |-> q, out |-> {}] ELSE Turn(h[k - 1], ms[k])
      <3>1. CASE k = l
        <4>1. h[k] = Turn(g[l - 1], ms[l]) /\ h[k - 1] = g[l - 1]
          BY <2>1, <3>1
        <4> QED BY <1>3, <3>1, <4>1
      <3>2. CASE k # l /\ k # 0
        <4>1. k \in 0..(l - 1) /\ h[k] = g[k] /\ h[k - 1] = g[k - 1]
          BY <2>1, <3>2
        <4> QED BY <2>3, <3>2, <4>1
      <3>3. CASE k # l /\ k = 0
        <4>1. k \in 0..(l - 1) /\ h[k] = g[k]
          BY <2>1, <3>3
        <4> QED BY <2>3, <3>3, <4>1
      <3> QED BY <3>1, <3>2, <3>3
    <2>5. IsAfter(h, q, ms, l)
      BY <2>4 DEF IsAfter
    <2> QED BY <1>1, <2>5
  <1> QED BY <1>2, <1>3

(* What the loop puts back, together with what it evicts or refuses, is all
   there was. *)
LEMMA AppendEachIs ==
  ASSUME StampsFit, NEW q, IsQueue(q),
         NEW ms \in Seq(Message), IsInjective(ms), ToSet(ms) \cap ToSet(q) = {}
  PROVE  /\ IsQueue(AppendEach(q, ms).queue)
         /\ AppendEach(q, ms).out \subseteq ToSet(q) \cup ToSet(ms)
         /\ ToSet(AppendEach(q, ms).queue)
              = (ToSet(q) \cup ToSet(ms)) \ AppendEach(q, ms).out
  <1> DEFINE after == CHOOSE g : IsAfter(g, q, ms, Len(ms))
             Upto(k) == {ms[j] : j \in 1..k}
             Good(k) == /\ IsQueue(after[k].queue)
                        /\ after[k].out \subseteq ToSet(q) \cup Upto(k)
                        /\ ToSet(after[k].queue) = (ToSet(q) \cup Upto(k)) \ after[k].out
             Bad == {k \in 0..Len(ms) : ~Good(k)}
  <1>0. Len(ms) \in Nat /\ DOMAIN ms = 1..Len(ms) /\ \A j \in 1..Len(ms) : ms[j] \in Message
    BY LenProperties, ElementOfSeq
  <1>1. AppendEach(q, ms) = after[Len(ms)]
    BY DEF AppendEach, IsAfter, Turn
  <1>2. IsAfter(after, q, ms, Len(ms))
    BY <1>0, AfterExists
  <1> HIDE DEF after
  <1>3. after[0] = [queue |-> q, out |-> {}]
    BY <1>0, <1>2 DEF IsAfter
  <1>4. ASSUME NEW k \in 1..Len(ms) PROVE after[k] = Turn(after[k - 1], ms[k])
    <2>1. k \in 0..Len(ms) /\ k # 0
      BY <1>0
    <2> QED BY <1>2, <2>1 DEF IsAfter
  <1>5. Bad = {}
    <2> SUFFICES ASSUME Bad # {} PROVE FALSE
      OBVIOUS
    <2>1. PICK k \in Bad : \A l \in Bad : k <= l
      <3>1. Bad \in SUBSET Nat
        BY <1>0
      <3> HIDE DEF Bad
      <3> QED BY <3>1, LeastOf
    <2>2. k # 0
      <3>1. Upto(0) = {}
        OBVIOUS
      <3> QED BY <1>3, <2>1, <3>1
    <2>3. k \in 1..Len(ms) /\ k - 1 \in 0..Len(ms) /\ k - 1 \notin Bad
      BY <1>0, <2>1, <2>2
    <2> DEFINE b == after[k - 1]
               a == Append1(b.queue, ms[k])
    <2>4. IsQueue(b.queue) /\ b.out \subseteq ToSet(q) \cup Upto(k - 1)
          /\ ToSet(b.queue) = (ToSet(q) \cup Upto(k - 1)) \ b.out
      BY <2>3
    <2>5. Upto(k) = Upto(k - 1) \cup {ms[k]}
      <3>1. 1..k = (1..(k - 1)) \cup {k}
        BY <1>0, <2>3
      <3> QED BY <3>1
    <2>6. ms[k] \in Message /\ ms[k] \notin Upto(k - 1) /\ ms[k] \notin ToSet(q)
      <3>1. \A j \in 1..(k - 1) : j \in 1..Len(ms) /\ j # k
        BY <1>0, <2>3
      <3>2. \A j \in 1..(k - 1) : ms[j] # ms[k]
        BY <1>0, <2>3, <3>1 DEF IsInjective
      <3>3. ms[k] \in ToSet(ms)
        BY <2>3, ToSetIs
      <3> QED BY <1>0, <2>3, <3>2, <3>3
    <2> HIDE DEF Upto
    <2>7. /\ IsQueue(a.queue) /\ a.out \subseteq ToSet(b.queue) \cup {ms[k]}
          /\ ToSet(a.queue) = (ToSet(b.queue) \cup {ms[k]}) \ a.out
      <3> HIDE DEF b
      <3> QED BY <2>4, <2>6, Append1Is
    <2>8. after[k] = [queue |-> a.queue, out |-> b.out \cup a.out]
      BY <1>4, <2>3 DEF Turn
    <2> HIDE DEF a, b
    <2>9. after[k].queue = a.queue /\ after[k].out = b.out \cup a.out
      BY <2>8
    <2>10. ms[k] \notin b.out
      BY <2>4, <2>6
    <2> QED BY <2>1, <2>4, <2>5, <2>7, <2>9, <2>10
  <1>6. Good(Len(ms))
    BY <1>0, <1>5
  <1>7. Upto(Len(ms)) = ToSet(ms)
    BY ToSetIs
  <1> HIDE DEF Upto
  <1> QED BY <1>1, <1>6, <1>7

LEMMA TailIs ==
  ASSUME NEW q, IsQueue(q), q # <<>>
  PROVE  /\ IsQueue(Tail(q)) /\ Head(q) \in Message
         /\ ToSet(Tail(q)) = ToSet(q) \ {Head(q)} /\ Head(q) \in ToSet(q)
  <1>0. q \in Seq(Message) /\ Len(q) \in Nat \ {0}
    BY EmptySeq DEF IsQueue
  <1>1. 1 \in 1..Len(q) /\ Head(q) = q[1] /\ q[1] \in Message
    BY <1>0
  <1>2. RemoveAt(q, 1) \in Seq(Message) /\ Len(RemoveAt(q, 1)) = Len(q) - 1
        /\ \A k \in 1..(Len(q) - 1) : RemoveAt(q, 1)[k] = q[k + 1]
    BY <1>0, <1>1, RemoveAtIs
  <1>3. /\ Tail(q) \in Seq(Message) /\ Len(Tail(q)) = Len(q) - 1
        /\ \A k \in 1..(Len(q) - 1) : Tail(q)[k] = q[k + 1]
    BY <1>0, HeadTailProperties
  <1>4. Tail(q) = RemoveAt(q, 1)
    <2>1. \A k \in 1..Len(Tail(q)) : Tail(q)[k] = RemoveAt(q, 1)[k]
      BY <1>2, <1>3
    <2> QED BY <1>2, <1>3, <2>1, SeqEqual
  <1>5. IsQueue(RemoveAt(q, 1)) /\ ToSet(RemoveAt(q, 1)) = ToSet(q) \ {q[1]}
    BY <1>1, RemoveIs
  <1> QED BY <1>0, <1>1, <1>4, <1>5, ToSetIs

------------------------------------------------------------------------------
(* The invariant, whatever may happen. *)

Types ==
  /\ named \in BOOLEAN
  /\ entry \in Entry \cup {NoEntry}
  /\ StampsFit
  /\ pub \in [Message -> {"new", "route", "deliver", "requeue", "offline", "saving", "done"}]
  /\ via \in [Message -> Login]
  /\ read \in [Message -> Seq(Message)]
  /\ reg \in [Login -> {"out", "loading", "registered", "draining", "active"}]
  /\ loaded \in [Login -> Seq(Message)]
  /\ from \in [Login -> Login]
  /\ leave \in [Login -> {"no", "removed", "saving", "forget", "gone"}]
  /\ flush \in [Login -> Seq(Message)]
  /\ taken \subseteq Login
  /\ up \in [Login -> BOOLEAN]
  /\ got \in [Message -> Nat]
  /\ dropped \subseteq Message

Queues ==
  /\ IsQueue(file)
  /\ Online => IsQueue(entry.queue)
  /\ \A m \in Message : IsQueue(read[m])
  /\ \A s \in Login : IsQueue(loaded[s]) /\ IsQueue(flush[s])
  /\ snap # NoSnap => IsQueue(snap)

(* Nothing is queued before its publisher has done with it: only in what that
   publisher is about to save. *)
NotYetQueued ==
  \A m \in Message : pub[m] # "done" =>
    /\ m \notin ToSet(file)
    /\ Online => m \notin ToSet(entry.queue)
    /\ \A n \in Message : m \in ToSet(read[n]) => n = m /\ pub[m] = "saving"
    /\ \A s \in Login : m \notin ToSet(loaded[s]) /\ m \notin ToSet(flush[s])
    /\ snap # NoSnap => m \notin ToSet(snap)

(* Whose sinks are in use have installed them; each does so once. *)
HasInstalled(s) == reg[s] \notin {"out", "loading"}
Installed == /\ Online => HasInstalled(entry.login)
             /\ \A s \in Login : reg[s] = "draining" => HasInstalled(from[s])

(* What several drain of one entry, and what is in it, are different things. *)
DrainsApart ==
  \A s \in Login : reg[s] = "draining" =>
    /\ Online /\ entry.login = from[s] => ToSet(entry.queue) \cap ToSet(loaded[s]) = {}
    /\ \A r \in Login \ {s} : reg[r] = "draining" /\ from[r] = from[s] =>
                                ToSet(loaded[r]) \cap ToSet(loaded[s]) = {}

(* Where a session has nothing in its hands. *)
EmptyHands ==
  \A s \in Login :
    /\ reg[s] = "out" => leave[s] = "no"
    /\ reg[s] \notin {"loading", "draining"} => loaded[s] = <<>>
    /\ leave[s] # "saving" => flush[s] = <<>>

NotifyIInv == /\ Types /\ Queues /\ NotYetQueued
              /\ Installed /\ DrainsApart /\ EmptyHands

(* Before the first login. *)
NobodyYet == \A s \in Login : reg[s] = "out"
OneSaving == \A m, n \in Message : pub[m] = "saving" /\ pub[n] = "saving" => m = n

(* A publisher that saves has all that is owed, and its own message. *)
SavesAllOwed ==
  \A m \in Message : pub[m] = "saving" =>
    /\ named
    /\ Owed \subseteq ToSet(read[m])
    /\ m \in ToSet(read[m]) \cup dropped

(* The file can be read, and no write ends between its two renames. *)
Intact == env \cap {"unread", "torn"} = {}

OfflineIInv ==
  Intact /\ NobodyYet =>
    /\ ~Online /\ snap = NoSnap
    /\ OneSaving /\ SavesAllOwed
    /\ Owed \subseteq ToSet(file)

(* While sessions and publishes to the file take turns and nothing fails. *)
Calm == env \subseteq {"again", "drops"}
Alive(s) == reg[s] # "out" /\ leave[s] # "gone"
InGame(s) == HasInstalled(s) /\ leave[s] \in {"no", "removed"}

OneAtATime ==
  /\ \A r, s \in Login : Alive(r) /\ Alive(s) => r = s
  /\ \A s \in Login : Alive(s) => named
  /\ \A m \in Message : pub[m] \in {"offline", "saving"} => \A s \in Login : ~Alive(s)

OwnEntry ==
  /\ \A s \in Login : InGame(s) => Online /\ entry.login = s
  /\ Online => InGame(entry.login)
  /\ \A s \in Login : leave[s] # "no" => reg[s] = "active"
  /\ \A s \in Login : reg[s] = "draining" => from[s] = s

(* The file is what the player has not been sent, until the entry is dirty. *)
CleanIsSaved ==
  /\ \A s \in Login : reg[s] = "loading" => loaded[s] = file
  /\ Online /\ ~entry.dirty =>
       entry.queue = file /\ \A s \in Login : reg[s] = "draining" => loaded[s] = <<>>

(* Where what is owed waits. *)
Waits(m) ==
  IF \E s \in Login : leave[s] = "saving"
  THEN \E s \in Login : m \in ToSet(flush[s])
  ELSE IF Online
       THEN m \in ToSet(entry.queue)
              \/ \E s \in Login : reg[s] = "draining" /\ m \in ToSet(loaded[s])
       ELSE m \in ToSet(file)

OwedWaits ==
  /\ \A m \in Owed : Waits(m)
  /\ \A m \in Message : Waits(m) => got[m] = 0
  /\ \A m \in Message : got[m] <= 1 /\ (pub[m] # "done" => got[m] = 0)
  /\ \A m \in Message : pub[m] = "saving" => \A n \in ToSet(read[m]) : got[n] = 0

TakingTurns == /\ snap = NoSnap /\ OneSaving /\ SavesAllOwed
               /\ OneAtATime /\ OwnEntry /\ CleanIsSaved /\ OwedWaits
KeptIInv == Calm => TakingTurns

------------------------------------------------------------------------------
(* The invariant is one. *)

LEMMA QueueFrame ==
  ASSUME stamp' = stamp
  PROVE  /\ \A q : IsQueue(q) => IsQueue(q)'
         /\ StampsFit => StampsFit'
  BY DEF IsQueue, Sorted, DrainLess, StampsFit, Stamped

LEMMA QueuesSame ==
  ASSUME Queues, UNCHANGED <<stamp, file, read, entry, loaded, flush, snap>>
  PROVE  Queues'
  BY QueueFrame DEF Queues, Online

(* A write that fails, or dies, leaves the file or nothing. *)
LEMMA UnfinishedIs ==
  ASSUME NotifyIInv, stamp' = stamp, Unfinished \/ UNCHANGED file
  PROVE  IsQueue(file)' /\ ToSet(file') \subseteq ToSet(file)
  <1>1. file' \in {file, <<>>}
    BY DEF Unfinished
  <1>2. IsQueue(file) /\ IsQueue(<<>>) /\ ToSet(<<>>) = {}
    BY EmptyIsQueue DEF NotifyIInv, Queues
  <1> QED BY <1>1, <1>2, QueueFrame

(* A publisher that goes on without touching a queue. *)
LEMMA PublisherGoesOn ==
  ASSUME NotYetQueued, UNCHANGED <<file, read, entry, loaded, flush, snap>>,
         \A n \in Message : pub'[n] # "done" => /\ pub[n] # "done"
                                                /\ pub[n] = "saving" => pub'[n] = "saving"
  PROVE  NotYetQueued'
  BY DEF NotYetQueued, Online

LEMMA NotifyInit == Init => NotifyIInv
  <1> SUFFICES ASSUME Init PROVE NotifyIInv
    OBVIOUS
  <1>1. StampsFit
    <2>1. Stamped = {} /\ stamp \in [Message -> Nat]
      BY DEF Stamped, Init
    <2> QED BY <2>1, FS_EmptySet DEF StampsFit
  <1>2. <<>> \in Seq(Message)
    OBVIOUS
  <1>3. Types
    BY <1>1, <1>2 DEF Types, Init
  <1>4. Queues
    BY EmptyIsQueue DEF Queues, Init, Online
  <1>5. NotYetQueued /\ Installed /\ DrainsApart /\ EmptyHands
    BY EmptyIsQueue DEF NotYetQueued, Installed, DrainsApart, EmptyHands, Init, Online
  <1> QED BY <1>3, <1>4, <1>5 DEF NotifyIInv

LEMMA NotifyPublish ==
  ASSUME NotifyIInv, NEW m \in Message, Publish(m)
  PROVE  NotifyIInv'
  <1> USE DEF NotifyIInv, fileVars, pubVars, regVars, leaveVars, Online, Goto
  <1>1. StampsFit'
    <2>1. Cardinality(Stamped) \in Nat
      BY FS_CardinalityType DEF Types, StampsFit
    <2> DEFINE c == 1 + Cardinality(Stamped)
    <2>2. stamp' = [stamp EXCEPT ![m] = c] /\ c \in Nat /\ c # 0
      BY <2>1 DEF Publish, Stamped
    <2> HIDE DEF c
    <2>3. Stamped' = Stamped \cup {m} /\ stamp' \in [Message -> Nat]
      BY <2>2 DEF Stamped, Types, StampsFit
    <2> QED BY <2>3, FS_AddElement DEF Types, StampsFit
  <1>2. Types'
    BY <1>1 DEF Types, Publish
  <1>3. \A q : IsQueue(q) /\ m \notin ToSet(q) => IsQueue(q)'
    <2> SUFFICES ASSUME NEW q, IsQueue(q), m \notin ToSet(q)
                 PROVE  IsQueue(q)'
      OBVIOUS
    <2>1. q \in Seq(Message) /\ \A k \in 1..Len(q) : q[k] # m /\ q[k] \in Message
      BY ToSetIs, ElementOfSeq DEF IsQueue
    <2>2. \A k \in 1..Len(q) : stamp'[q[k]] = stamp[q[k]]
      BY <2>1 DEF Publish, Types, StampsFit
    <2>3. Sorted(q)'
      BY <2>2 DEF Sorted, DrainLess, IsQueue
    <2> QED BY <2>3 DEF IsQueue
  <1>4. Queues'
    BY <1>3 DEF Queues, NotYetQueued, Publish, Types
  <1>5. NotYetQueued'
    BY DEF NotYetQueued, Publish, Types
  <1>6. Installed' /\ DrainsApart' /\ EmptyHands'
    BY DEF Installed, DrainsApart, EmptyHands, HasInstalled, Publish
  <1> QED BY <1>2, <1>4, <1>5, <1>6

LEMMA NotifySmall ==
  ASSUME NotifyIInv,
         \/ \E m \in Message : \/ RouteImmediate(m) \/ RouteOffline(m) \/ Deliver(m)
                               \/ AppendFails(m)
         \/ \E s \in Login : \/ DrainEnd(s) \/ Drop(s) \/ Reconnect(s)
                             \/ RemoveFromIndex(s) \/ Takeover(s)
                             \/ UnregisterAbsent(s) \/ UnregisterSaveFails(s) \/ Forget(s)
         \/ SaveAllFails
  PROVE  NotifyIInv'
  <1> USE DEF NotifyIInv, fileVars, pubVars, regVars, leaveVars, Online, Goto, Told
  <1>0. stamp' = stamp
    BY DEF RouteImmediate, RouteOffline, Deliver, AppendFails, DrainEnd, Drop, Reconnect,
           RemoveFromIndex, Takeover, UnregisterAbsent, UnregisterSaveFails, Forget, SaveAllFails
  <1>1. ASSUME NEW m \in Message, RouteImmediate(m)
        PROVE  NotifyIInv'
    <2>1. Types'
      BY <1>0, <1>1, QueueFrame DEF Types, Entry, RouteImmediate
    <2>2. Queues' /\ NotYetQueued'
      <3>1. UNCHANGED <<stamp, file, read, entry, loaded, flush, snap>>
        BY <1>0, <1>1 DEF RouteImmediate
      <3>2. \A n \in Message : pub'[n] # "done" => /\ pub[n] # "done"
                                                   /\ pub[n] = "saving" => pub'[n] = "saving"
        BY <1>1 DEF Types, RouteImmediate
      <3> QED BY <3>1, <3>2, QueuesSame, PublisherGoesOn
    <2>3. Installed' /\ DrainsApart' /\ EmptyHands'
      BY <1>1 DEF Types, Installed, DrainsApart, EmptyHands, HasInstalled, RouteImmediate
    <2> QED BY <2>1, <2>2, <2>3
  <1>2. ASSUME NEW m \in Message, RouteOffline(m)
        PROVE  NotifyIInv'
    <2>1. Types'
      BY <1>0, <1>2, QueueFrame DEF Types, Entry, RouteOffline
    <2>2. Queues' /\ NotYetQueued'
      <3>1. UNCHANGED <<stamp, file, read, entry, loaded, flush, snap>>
        BY <1>0, <1>2 DEF RouteOffline
      <3>2. \A n \in Message : pub'[n] # "done" => /\ pub[n] # "done"
                                                   /\ pub[n] = "saving" => pub'[n] = "saving"
        BY <1>2 DEF Types, RouteOffline
      <3> QED BY <3>1, <3>2, QueuesSame, PublisherGoesOn
    <2>3. Installed' /\ DrainsApart' /\ EmptyHands'
      BY <1>2 DEF Types, Installed, DrainsApart, EmptyHands, HasInstalled, RouteOffline
    <2> QED BY <2>1, <2>2, <2>3
  <1>3. ASSUME NEW m \in Message, Deliver(m)
        PROVE  NotifyIInv'
    <2>1. got' \in [Message -> Nat] /\ pub' \in [Message -> {"new", "route", "deliver",
                                          "requeue", "offline", "saving", "done"}]
      <3>1. CASE up[via[m]]
        <4>1. got' = [got EXCEPT ![m] = got[m] + 1] /\ got \in [Message -> Nat]
              /\ pub' = [pub EXCEPT ![m] = "done"]
          BY <1>3, <3>1 DEF Types, Deliver
        <4>2. got[m] + 1 \in Nat
          BY <4>1
        <4>3. got' \in [Message -> Nat]
          BY <4>1, <4>2
        <4> QED BY <4>1, <4>3 DEF Types
      <3>2. CASE ~up[via[m]]
        BY <1>3, <3>2 DEF Types, Deliver
      <3> QED BY <3>1, <3>2
    <2>4. Types'
      BY <1>0, <1>3, <2>1, QueueFrame DEF Types, Deliver
    <2>2. Queues' /\ NotYetQueued'
      <3>1. UNCHANGED <<stamp, file, read, entry, loaded, flush, snap>>
        BY <1>0, <1>3 DEF Deliver
      <3>2. \A n \in Message : pub'[n] # "done" => /\ pub[n] # "done"
                                                   /\ pub[n] = "saving" => pub'[n] = "saving"
        BY <1>3 DEF Types, Deliver
      <3> QED BY <3>1, <3>2, QueuesSame, PublisherGoesOn
    <2>3. Installed' /\ DrainsApart' /\ EmptyHands'
      BY <1>3 DEF Types, Installed, DrainsApart, EmptyHands, HasInstalled, Deliver
    <2> QED BY <2>4, <2>2, <2>3
  <1>4. ASSUME NEW m \in Message, AppendFails(m)
        PROVE  NotifyIInv'
    <2>1. Types'
      BY <1>0, <1>4, QueueFrame DEF Types, Entry, AppendFails
    <2>2. Queues' /\ NotYetQueued'
      <3>1. IsQueue(file)' /\ ToSet(file') \subseteq ToSet(file)
        BY <1>0, <1>4, UnfinishedIs DEF AppendFails
      <3> QED BY <1>0, <1>4, <3>1, QueueFrame, EmptyIsQueue
              DEF Types, Queues, NotYetQueued, AppendFails
    <2>3. Installed' /\ DrainsApart' /\ EmptyHands'
      BY <1>4 DEF Types, Installed, DrainsApart, EmptyHands, HasInstalled, AppendFails
    <2> QED BY <2>1, <2>2, <2>3
  <1>5. ASSUME NEW s \in Login, DrainEnd(s)
        PROVE  NotifyIInv'
    <2>1. Types'
      BY <1>0, <1>5, QueueFrame DEF Types, Entry, DrainEnd
    <2>2. Queues' /\ NotYetQueued'
      BY <1>0, <1>5, QueueFrame DEF Types, Queues, NotYetQueued, DrainEnd
    <2>3. Installed' /\ DrainsApart' /\ EmptyHands'
      <3>1. /\ (reg[s] = "draining" /\ loaded[s] = <<>>) \/ reg[s] = "registered"
            /\ reg' = [reg EXCEPT ![s] = "active"]
            /\ UNCHANGED <<entry, loaded, from, leave, flush>>
        BY <1>5 DEF DrainEnd
      <3>2. /\ reg'[s] = "active"
            /\ \A r \in Login \ {s} : reg'[r] = reg[r]
        BY <3>1 DEF Types
      <3>3. Installed'
        BY <3>1, <3>2 DEF Installed, HasInstalled
      <3>4. DrainsApart'
        BY <3>1, <3>2 DEF DrainsApart
      <3>5. EmptyHands'
        BY <3>1, <3>2 DEF EmptyHands
      <3> QED BY <3>3, <3>4, <3>5
    <2> QED BY <2>1, <2>2, <2>3
  <1>6. ASSUME NEW s \in Login, Drop(s)
        PROVE  NotifyIInv'
    <2>1. Types'
      BY <1>0, <1>6, QueueFrame DEF Types, Entry, Drop
    <2>2. Queues' /\ NotYetQueued'
      BY <1>0, <1>6, QueueFrame DEF Types, Queues, NotYetQueued, Drop
    <2>3. Installed' /\ DrainsApart' /\ EmptyHands'
      BY <1>6 DEF Types, Installed, DrainsApart, EmptyHands, HasInstalled, Drop
    <2> QED BY <2>1, <2>2, <2>3
  <1>7. ASSUME NEW s \in Login, Reconnect(s)
        PROVE  NotifyIInv'
    <2>1. Types'
      BY <1>0, <1>7, QueueFrame DEF Types, Entry, Reconnect
    <2>2. Queues' /\ NotYetQueued'
      BY <1>0, <1>7, QueueFrame DEF Types, Queues, NotYetQueued, Reconnect
    <2>3. Installed' /\ DrainsApart' /\ EmptyHands'
      BY <1>7 DEF Types, Installed, DrainsApart, EmptyHands, HasInstalled, Reconnect
    <2> QED BY <2>1, <2>2, <2>3
  <1>8. ASSUME NEW s \in Login, RemoveFromIndex(s)
        PROVE  NotifyIInv'
    <2>1. Types'
      BY <1>0, <1>8, QueueFrame DEF Types, Entry, RemoveFromIndex
    <2>2. Queues' /\ NotYetQueued'
      BY <1>0, <1>8, QueueFrame DEF Types, Queues, NotYetQueued, RemoveFromIndex
    <2>3. Installed' /\ DrainsApart' /\ EmptyHands'
      BY <1>8 DEF Types, Installed, DrainsApart, EmptyHands, HasInstalled, RemoveFromIndex
    <2> QED BY <2>1, <2>2, <2>3
  <1>9. ASSUME NEW s \in Login, Takeover(s)
        PROVE  NotifyIInv'
    <2>1. Types'
      BY <1>0, <1>9, QueueFrame DEF Types, Entry, Takeover
    <2>2. Queues' /\ NotYetQueued'
      BY <1>0, <1>9, QueueFrame DEF Types, Queues, NotYetQueued, Takeover
    <2>3. Installed' /\ DrainsApart' /\ EmptyHands'
      BY <1>9 DEF Types, Installed, DrainsApart, EmptyHands, HasInstalled, Takeover
    <2> QED BY <2>1, <2>2, <2>3
  <1>10. ASSUME NEW s \in Login, UnregisterAbsent(s)
        PROVE  NotifyIInv'
    <2>1. Types'
      BY <1>0, <1>10, QueueFrame DEF Types, Entry, UnregisterAbsent
    <2>2. Queues' /\ NotYetQueued'
      BY <1>0, <1>10, QueueFrame DEF Types, Queues, NotYetQueued, UnregisterAbsent
    <2>3. Installed' /\ DrainsApart' /\ EmptyHands'
      BY <1>10 DEF Types, Installed, DrainsApart, EmptyHands, HasInstalled, UnregisterAbsent
    <2> QED BY <2>1, <2>2, <2>3
  <1>11. ASSUME NEW s \in Login, UnregisterSaveFails(s)
        PROVE  NotifyIInv'
    <2>1. Types'
      BY <1>0, <1>11, QueueFrame DEF Types, Entry, UnregisterSaveFails
    <2>2. Queues' /\ NotYetQueued'
      <3>1. IsQueue(file)' /\ ToSet(file') \subseteq ToSet(file)
        BY <1>0, <1>11, UnfinishedIs DEF UnregisterSaveFails
      <3> QED BY <1>0, <1>11, <3>1, QueueFrame, EmptyIsQueue
              DEF Types, Queues, NotYetQueued, UnregisterSaveFails
    <2>3. Installed' /\ DrainsApart' /\ EmptyHands'
      BY <1>11 DEF Types, Installed, DrainsApart, EmptyHands, HasInstalled, UnregisterSaveFails
    <2> QED BY <2>1, <2>2, <2>3
  <1>12. ASSUME NEW s \in Login, Forget(s)
        PROVE  NotifyIInv'
    <2>1. Types'
      BY <1>0, <1>12, QueueFrame DEF Types, Entry, Forget
    <2>2. Queues' /\ NotYetQueued'
      BY <1>0, <1>12, QueueFrame DEF Types, Queues, NotYetQueued, Forget
    <2>3. Installed' /\ DrainsApart' /\ EmptyHands'
      BY <1>12 DEF Types, Installed, DrainsApart, EmptyHands, HasInstalled, Forget
    <2> QED BY <2>1, <2>2, <2>3
  <1>13. ASSUME SaveAllFails
        PROVE  NotifyIInv'
    <2>1. Types'
      BY <1>0, <1>13, QueueFrame DEF Types, Entry, SaveAllFails
    <2>2. Queues' /\ NotYetQueued'
      <3>1. IsQueue(file)' /\ ToSet(file') \subseteq ToSet(file)
        BY <1>0, <1>13, UnfinishedIs DEF SaveAllFails
      <3> QED BY <1>0, <1>13, <3>1, QueueFrame DEF Types, Queues, NotYetQueued, Entry, SaveAllFails
    <2>3. Installed' /\ DrainsApart' /\ EmptyHands'
      BY <1>13 DEF Types, Installed, DrainsApart, EmptyHands, HasInstalled, Entry, SaveAllFails
    <2> QED BY <2>1, <2>2, <2>3
  <1> QED BY <1>1, <1>2, <1>3, <1>4, <1>5, <1>6, <1>7, <1>8, <1>9, <1>10, <1>11, <1>12, <1>13

LEMMA NotifyRouteQueue ==
  ASSUME NotifyIInv, NEW m \in Message, RouteQueue(m)
  PROVE  NotifyIInv'
  <1> USE DEF NotifyIInv, fileVars, pubVars, regVars, leaveVars, Online, Goto
  <1> DEFINE r == Append1(entry.queue, m)
  <1>0. entry \in Entry /\ stamp' = stamp /\ pub[m] # "done"
    BY DEF RouteQueue, Types
  <1>1. IsQueue(r.queue) /\ r.out \subseteq ToSet(entry.queue) \cup {m}
        /\ ToSet(r.queue) = (ToSet(entry.queue) \cup {m}) \ r.out
    <2>1. IsQueue(entry.queue) /\ m \notin ToSet(entry.queue) /\ StampsFit
      BY <1>0 DEF RouteQueue, Queues, NotYetQueued, Types
    <2> QED BY <2>1, Append1Is
  <1>2. ToSet(entry.queue) \subseteq Message
    BY <1>0, ToSetIs DEF Entry
  <1>3. entry' = [entry EXCEPT !.queue = r.queue, !.dirty = TRUE] /\ dropped' = dropped \cup r.out
        /\ pub' = [pub EXCEPT ![m] = "done"] /\ entry # NoEntry
        /\ UNCHANGED <<file, named, stamp, via, read, reg, loaded, from, leave, flush, taken, up,
                       snap, got, env>>
    BY DEF RouteQueue
  <1> HIDE DEF r
  <1>4. entry' \in Entry /\ entry'.login = entry.login /\ entry'.queue = r.queue
        /\ entry'.dirty = TRUE
    BY <1>0, <1>1, <1>3 DEF Entry, IsQueue
  <1>5. Types'
    BY <1>0, <1>1, <1>2, <1>3, <1>4, QueueFrame DEF Types
  <1>6. Queues'
    BY <1>0, <1>1, <1>3, <1>4, QueueFrame DEF Queues
  <1>7. NotYetQueued'
    BY <1>1, <1>3, <1>4 DEF NotYetQueued, Types
  <1>8. DrainsApart'
    BY <1>0, <1>1, <1>3, <1>4 DEF DrainsApart, NotYetQueued
  <1>9. Installed' /\ EmptyHands'
    BY <1>3, <1>4 DEF Installed, EmptyHands, HasInstalled
  <1> QED BY <1>5, <1>6, <1>7, <1>8, <1>9

LEMMA NotifyAppendLoad ==
  ASSUME NotifyIInv, NEW m \in Message, AppendLoad(m)
  PROVE  NotifyIInv'
  <1> USE DEF NotifyIInv, fileVars, pubVars, regVars, leaveVars, Online, Goto
  <1>1. PICK q \in {file, <<>>} : /\ Read(q)
                                  /\ read' = [read EXCEPT ![m] = Append1(q, m).queue]
                                  /\ dropped' = dropped \cup Append1(q, m).out
    BY DEF AppendLoad
  <1> DEFINE r == Append1(q, m)
  <1>2. IsQueue(q) /\ ToSet(q) \subseteq ToSet(file) /\ ToSet(q) \subseteq Message
    BY EmptyIsQueue, ToSetIs DEF Queues, IsQueue
  <1>3. m \notin ToSet(q) /\ StampsFit /\ stamp' = stamp
    BY <1>2 DEF AppendLoad, NotYetQueued, Types
  <1>4. IsQueue(r.queue) /\ r.out \subseteq ToSet(q) \cup {m}
        /\ ToSet(r.queue) = (ToSet(q) \cup {m}) \ r.out
    BY <1>2, <1>3, Append1Is
  <1> HIDE DEF r
  <1>5. /\ read' = [read EXCEPT ![m] = r.queue] /\ dropped' = dropped \cup r.out
        /\ named' = TRUE /\ pub' = [pub EXCEPT ![m] = "saving"] /\ pub[m] = "offline"
        /\ UNCHANGED <<file, entry, stamp, via, reg, loaded, from, leave, flush, taken, up,
                       snap, got, env>>
    BY <1>1 DEF AppendLoad, r
  <1>6. Types'
    BY <1>2, <1>3, <1>4, <1>5, QueueFrame DEF Types, IsQueue
  <1>7. Queues'
    BY <1>3, <1>4, <1>5, QueueFrame DEF Queues, Types
  <1>8. NotYetQueued'
    <2>1. \A n, l \in Message : pub[n] # "done" /\ n \in ToSet(read'[l])
                                 => n = l /\ pub'[n] = "saving"
      BY <1>2, <1>4, <1>5 DEF NotYetQueued, Types
    <2> QED BY <1>5, <2>1 DEF NotYetQueued, Types
  <1>9. Installed' /\ DrainsApart' /\ EmptyHands'
    BY <1>5 DEF Installed, EmptyHands, DrainsApart, HasInstalled
  <1> QED BY <1>6, <1>7, <1>8, <1>9

LEMMA NotifyWrites ==
  ASSUME NotifyIInv,
         \/ \E m \in Message : AppendSave(m)
         \/ \E s \in Login : UnregisterSave(s)
         \/ SaveAllWrite
  PROVE  NotifyIInv'
  <1> USE DEF NotifyIInv, fileVars, pubVars, regVars, leaveVars, Online, Goto
  <1>0. stamp' = stamp
    BY DEF AppendSave, UnregisterSave, SaveAllWrite
  <1>1. ASSUME NEW m \in Message, AppendSave(m)
        PROVE  NotifyIInv'
    <2>1. file' = read[m] \/ file' = file
      BY <1>1 DEF AppendSave, Write
    <2>2. Types'
      BY <1>0, <1>1, QueueFrame DEF Types, AppendSave
    <2>3. Queues'
      BY <1>0, <1>1, <2>1, QueueFrame, EmptyIsQueue DEF Types, Queues, AppendSave
    <2>4. NotYetQueued'
      BY <1>1, <2>1, EmptyIsQueue DEF Types, NotYetQueued, AppendSave
    <2>5. Installed' /\ DrainsApart' /\ EmptyHands'
      BY <1>1 DEF Installed, DrainsApart, EmptyHands, HasInstalled, AppendSave
    <2> QED BY <2>2, <2>3, <2>4, <2>5
  <1>2. ASSUME NEW s \in Login, UnregisterSave(s)
        PROVE  NotifyIInv'
    <2>1. file' = flush[s] \/ file' = file
      BY <1>2 DEF UnregisterSave, Write
    <2>2. Types'
      BY <1>0, <1>2, QueueFrame DEF Types, UnregisterSave
    <2>3. Queues'
      BY <1>0, <1>2, <2>1, QueueFrame, EmptyIsQueue DEF Types, Queues, UnregisterSave
    <2>4. NotYetQueued'
      BY <1>2, <2>1, EmptyIsQueue DEF Types, NotYetQueued, UnregisterSave
    <2>5. Installed' /\ DrainsApart' /\ EmptyHands'
      BY <1>2 DEF Types, Installed, DrainsApart, EmptyHands, HasInstalled, UnregisterSave
    <2> QED BY <2>2, <2>3, <2>4, <2>5
  <1>3. ASSUME SaveAllWrite
        PROVE  NotifyIInv'
    <2>1. file' = snap \/ file' = file
      BY <1>3 DEF SaveAllWrite, Write
    <2>2. Types'
      BY <1>0, <1>3, QueueFrame DEF Types, SaveAllWrite
    <2>3. Queues'
      BY <1>0, <1>3, <2>1, QueueFrame DEF Types, Queues, SaveAllWrite
    <2>4. NotYetQueued'
      BY <1>3, <2>1 DEF Types, NotYetQueued, SaveAllWrite
    <2>5. Installed' /\ DrainsApart' /\ EmptyHands'
      BY <1>3 DEF Installed, DrainsApart, EmptyHands, HasInstalled, SaveAllWrite
    <2> QED BY <2>2, <2>3, <2>4, <2>5
  <1> QED BY <1>1, <1>2, <1>3

LEMMA NotifyRegister ==
  ASSUME NotifyIInv, NEW s \in Login, RegisterLoad(s) \/ RegisterInstall(s)
  PROVE  NotifyIInv'
  <1> USE DEF NotifyIInv, fileVars, pubVars, regVars, leaveVars, Online, Goto
  <1>0. stamp' = stamp
    BY DEF RegisterLoad, RegisterInstall
  <1>1. CASE RegisterLoad(s)
    <2>1. PICK q \in {file, <<>>} : loaded' = [loaded EXCEPT ![s] = q]
      BY <1>1 DEF RegisterLoad
    <2>2. IsQueue(q) /\ ToSet(q) \subseteq ToSet(file)
      BY EmptyIsQueue DEF Queues
    <2>3. Types'
      BY <1>0, <1>1, <2>1, <2>2, QueueFrame DEF Types, RegisterLoad, IsQueue
    <2>4. Queues'
      BY <1>0, <1>1, <2>1, <2>2, QueueFrame DEF Types, Queues, RegisterLoad
    <2>5. NotYetQueued'
      BY <1>1, <2>1, <2>2 DEF Types, NotYetQueued, RegisterLoad
    <2>6. Installed' /\ DrainsApart' /\ EmptyHands'
      BY <1>1, <2>1 DEF Types, Installed, DrainsApart, EmptyHands, HasInstalled, RegisterLoad
    <2> QED BY <2>3, <2>4, <2>5, <2>6
  <1>2. CASE RegisterInstall(s)
    <2>1. entry' = [login |-> s, queue |-> loaded[s], dirty |-> FALSE] /\ loaded[s] \in Seq(Message)
      BY <1>2 DEF RegisterInstall, Types
    <2>2. entry' \in Entry /\ entry'.login = s /\ entry'.queue = loaded[s]
      BY <2>1 DEF Entry
    <2>3. Types'
      BY <1>0, <1>2, <2>2, QueueFrame DEF Types, RegisterInstall
    <2>4. Queues'
      BY <1>0, <1>2, <2>2, QueueFrame, EmptyIsQueue DEF Types, Queues, RegisterInstall
    <2>5. NotYetQueued'
      BY <1>2, <2>2, EmptyIsQueue DEF Types, NotYetQueued, RegisterInstall
    <2>6. \A r \in Login : reg'[r] = "draining" => reg[r] = "draining" /\ from[r] # s
                                                   /\ loaded'[r] = loaded[r]
      BY <1>2 DEF Types, Installed, HasInstalled, RegisterInstall
    <2>7. DrainsApart'
      BY <1>2, <2>2, <2>6 DEF DrainsApart, RegisterInstall
    <2>8. Installed' /\ EmptyHands'
      BY <1>2, <2>2 DEF Types, Installed, EmptyHands, HasInstalled, RegisterInstall
    <2> QED BY <2>3, <2>4, <2>5, <2>7, <2>8
  <1> QED BY <1>1, <1>2

LEMMA DrainTakeIs ==
  ASSUME NotifyIInv, NEW s \in Login, DrainTake(s)
  PROVE  /\ entry \in Entry /\ entry # NoEntry /\ reg[s] = "registered"
         /\ loaded' = [loaded EXCEPT ![s] = entry.queue]
         /\ from' = [from EXCEPT ![s] = entry.login]
         /\ reg' = [reg EXCEPT ![s] = "draining"]
         /\ entry' \in Entry /\ entry'.login = entry.login /\ entry'.queue = <<>>
         /\ entry'.dirty <=> entry.dirty \/ entry.queue # <<>>
         /\ UNCHANGED <<file, named, stamp, pub, via, read, leave, flush, taken, up, snap, got,
                        dropped, env>>
  <1> USE DEF NotifyIInv, fileVars, pubVars, regVars, leaveVars, Online
  <1>1. /\ entry \in Entry /\ entry # NoEntry /\ reg[s] = "registered"
        /\ loaded' = [loaded EXCEPT ![s] = entry.queue]
        /\ from' = [from EXCEPT ![s] = entry.login]
        /\ reg' = [reg EXCEPT ![s] = "draining"]
        /\ UNCHANGED <<file, named, stamp, pub, via, read, leave, flush, taken, up, snap, got,
                       dropped, env>>
    BY DEF DrainTake, Types
  <1>2. <<>> \in Seq(Message)
    OBVIOUS
  <1>3. CASE entry.dirty \/ entry.queue # <<>>
    <2>1. (entry.dirty \/ entry.queue # <<>>) = TRUE
      BY <1>3
    <2>2. entry' = [entry EXCEPT !.queue = <<>>, !.dirty = TRUE]
      BY <2>1, Zenon DEF DrainTake
    <2>3. entry' \in Entry /\ entry'.login = entry.login /\ entry'.queue = <<>>
          /\ entry'.dirty = TRUE
      BY <1>1, <1>2, <2>2 DEF Entry
    <2> QED BY <1>1, <1>3, <2>3
  <1>4. CASE ~(entry.dirty \/ entry.queue # <<>>)
    <2>1. (entry.dirty \/ entry.queue # <<>>) = FALSE
      BY <1>4
    <2>2. entry' = [entry EXCEPT !.queue = <<>>, !.dirty = FALSE]
      BY <2>1, Zenon DEF DrainTake
    <2>3. entry' \in Entry /\ entry'.login = entry.login /\ entry'.queue = <<>>
          /\ entry'.dirty = FALSE
      BY <1>1, <1>2, <2>2 DEF Entry
    <2> QED BY <1>1, <1>4, <2>3
  <1> QED BY <1>3, <1>4

LEMMA NotifyDrainTake ==
  ASSUME NotifyIInv, NEW s \in Login, DrainTake(s)
  PROVE  NotifyIInv'
  <1> USE DEF NotifyIInv, Online
  <1>1. /\ entry \in Entry /\ entry # NoEntry /\ reg[s] = "registered" /\ stamp' = stamp
        /\ loaded' = [loaded EXCEPT ![s] = entry.queue]
        /\ from' = [from EXCEPT ![s] = entry.login]
        /\ reg' = [reg EXCEPT ![s] = "draining"]
        /\ UNCHANGED <<file, named, pub, via, read, leave, flush, taken, up, snap, got,
                       dropped, env>>
    BY DrainTakeIs
  <1>2. entry' \in Entry /\ entry'.login = entry.login /\ entry'.queue = <<>>
    BY DrainTakeIs
  <1>3. Types'
    BY <1>1, <1>2, QueueFrame DEF Types, Entry
  <1>4. Queues'
    BY <1>1, <1>2, QueueFrame, EmptyIsQueue DEF Types, Queues
  <1>5. NotYetQueued'
    BY <1>1, <1>2, EmptyIsQueue DEF Types, NotYetQueued
  <1>6. ASSUME NEW p \in Login, reg'[p] = "draining", NEW r \in Login \ {p}, reg'[r] = "draining",
               from'[r] = from'[p]
        PROVE  ToSet(loaded'[r]) \cap ToSet(loaded'[p]) = {}
    <2>1. CASE p = s
      BY <1>1, <1>6, <2>1 DEF Types, DrainsApart
    <2>2. CASE r = s
      BY <1>1, <1>6, <2>2 DEF Types, DrainsApart
    <2>3. CASE p # s /\ r # s
      BY <1>1, <1>6, <2>3 DEF Types, DrainsApart
    <2> QED BY <2>1, <2>2, <2>3
  <1>7. DrainsApart'
    BY <1>2, <1>6, EmptyIsQueue DEF DrainsApart
  <1>8. Installed' /\ EmptyHands'
    BY <1>1, <1>2 DEF Types, Installed, EmptyHands, HasInstalled
  <1> QED BY <1>3, <1>4, <1>5, <1>7, <1>8

LEMMA NotifyDrainDeliver ==
  ASSUME NotifyIInv, NEW s \in Login, DrainDeliver(s)
  PROVE  NotifyIInv'
  <1> USE DEF NotifyIInv, fileVars, pubVars, regVars, leaveVars, Online
  <1> DEFINE h == Head(loaded[s])
             q == Tail(loaded[s])
  <1>1. IsQueue(loaded[s]) /\ loaded[s] # <<>> /\ reg[s] = "draining"
    BY DEF Queues, DrainDeliver
  <1>2. IsQueue(q) /\ h \in Message /\ ToSet(q) \subseteq ToSet(loaded[s])
    BY <1>1, TailIs
  <1>3. /\ got' = [got EXCEPT ![h] = @ + 1]
        /\ loaded' = [loaded EXCEPT ![s] = q]
        /\ UNCHANGED <<file, named, entry, stamp, pub, via, read, reg, from, leave, flush, taken,
                       up, snap, dropped, env>>
    BY DEF DrainDeliver, Told
  <1> HIDE DEF h, q
  <1>4. got' \in [Message -> Nat]
    <2>1. got \in [Message -> Nat] /\ got[h] + 1 \in Nat
      BY <1>2 DEF Types
    <2> QED BY <1>2, <1>3, <2>1
  <1>5. Types'
    BY <1>2, <1>3, <1>4, QueueFrame DEF Types, IsQueue
  <1>6. Queues'
    BY <1>2, <1>3, QueueFrame DEF Types, Queues
  <1>7. NotYetQueued'
    BY <1>2, <1>3 DEF Types, NotYetQueued
  <1>8. DrainsApart'
    BY <1>2, <1>3 DEF Types, DrainsApart
  <1>9. Installed' /\ EmptyHands'
    BY <1>1, <1>3 DEF Types, Installed, EmptyHands, HasInstalled
  <1> QED BY <1>5, <1>6, <1>7, <1>8, <1>9

(* The writer fails: either nothing goes back, or all of it does. *)
LEMMA DrainFailsIs ==
  ASSUME NotifyIInv, NEW s \in Login, DrainFails(s)
  PROVE  /\ reg[s] = "draining" /\ loaded[s] # <<>>
         /\ loaded' = [loaded EXCEPT ![s] = <<>>] /\ reg' = [reg EXCEPT ![s] = "active"]
         /\ UNCHANGED <<file, named, stamp, pub, via, read, from, leave, flush, taken,
                        up, snap, got, env>>
         /\ \/ ~(Online /\ entry.login = from[s]) /\ UNCHANGED <<entry, dropped>>
            \/ /\ Online /\ Online' /\ entry.login = from[s]
               /\ entry' \in Entry /\ entry'.login = entry.login /\ entry'.dirty = entry.dirty
               /\ IsQueue(entry'.queue)
               /\ \E out \in SUBSET (ToSet(entry.queue) \cup ToSet(loaded[s])) :
                    /\ dropped' = dropped \cup out
                    /\ ToSet(entry'.queue) = (ToSet(entry.queue) \cup ToSet(loaded[s])) \ out
  <1> USE DEF fileVars, pubVars, regVars, leaveVars, Online
  <1>1. CASE ~(Online /\ entry.login = from[s])
    BY <1>1 DEF DrainFails
  <1>2. CASE Online /\ entry.login = from[s]
    <2> DEFINE r == AppendEach(entry.queue, loaded[s])
    <2>1. /\ StampsFit /\ IsQueue(entry.queue) /\ entry \in Entry
          /\ loaded[s] \in Seq(Message) /\ IsInjective(loaded[s])
          /\ ToSet(loaded[s]) \cap ToSet(entry.queue) = {}
      BY <1>2 DEF NotifyIInv, Types, Queues, IsQueue, DrainsApart, DrainFails
    <2>2. /\ IsQueue(r.queue) /\ r.out \subseteq ToSet(entry.queue) \cup ToSet(loaded[s])
          /\ ToSet(r.queue) = (ToSet(entry.queue) \cup ToSet(loaded[s])) \ r.out
      BY <2>1, AppendEachIs
    <2>3. entry' = [entry EXCEPT !.queue = r.queue] /\ dropped' = dropped \cup r.out
      BY <1>2 DEF DrainFails
    <2>4. /\ reg[s] = "draining" /\ loaded[s] # <<>>
          /\ loaded' = [loaded EXCEPT ![s] = <<>>] /\ reg' = [reg EXCEPT ![s] = "active"]
          /\ UNCHANGED <<file, named, stamp, pub, via, read, from, leave, flush, taken,
                         up, snap, got, env>>
      BY DEF DrainFails
    <2> HIDE DEF r
    <2>5. /\ entry' \in Entry /\ entry'.login = entry.login /\ entry'.dirty = entry.dirty
          /\ entry'.queue = r.queue
      BY <2>1, <2>2, <2>3 DEF Entry, IsQueue
    <2>6. entry' # NoEntry
      BY <2>5, NotifyAssumption
    <2> QED BY <1>2, <2>2, <2>3, <2>4, <2>5, <2>6
  <1> QED BY <1>1, <1>2

LEMMA NotifyDrainFails ==
  ASSUME NotifyIInv, NEW s \in Login, DrainFails(s)
  PROVE  NotifyIInv'
  <1> USE DEF NotifyIInv, Online
  <1>1. /\ reg[s] = "draining" /\ loaded[s] # <<>>
        /\ loaded' = [loaded EXCEPT ![s] = <<>>] /\ reg' = [reg EXCEPT ![s] = "active"]
        /\ UNCHANGED <<file, named, stamp, pub, via, read, from, leave, flush, taken,
                       up, snap, got, env>>
    BY DrainFailsIs
  <1>2. CASE ~(Online /\ entry.login = from[s]) /\ UNCHANGED <<entry, dropped>>
    <2>1. Types'
      BY <1>1, <1>2, QueueFrame DEF Types
    <2>2. Queues'
      BY <1>1, <1>2, QueueFrame, EmptyIsQueue DEF Types, Queues
    <2>3. NotYetQueued' /\ DrainsApart'
      <3>1. /\ loaded'[s] = <<>> /\ reg'[s] = "active"
            /\ \A r \in Login \ {s} : loaded'[r] = loaded[r] /\ reg'[r] = reg[r]
        BY <1>1 DEF Types
      <3>2. NotYetQueued'
        BY <1>1, <1>2, <3>1, EmptyIsQueue DEF NotYetQueued
      <3>3. DrainsApart'
        <4> SUFFICES ASSUME NEW r \in Login, reg'[r] = "draining"
                     PROVE  /\ (Online /\ entry.login = from[r])' =>
                                 ToSet(entry'.queue) \cap ToSet(loaded'[r]) = {}
                            /\ \A x \in Login \ {r} : reg'[x] = "draining" /\ from'[x] = from'[r] =>
                                                       ToSet(loaded'[x]) \cap ToSet(loaded'[r]) = {}
          BY DEF DrainsApart
        <4>1. reg[r] = "draining" /\ loaded'[r] = loaded[r] /\ UNCHANGED <<entry, from>>
          BY <1>1, <1>2, <3>1
        <4>2. \A x \in Login : reg'[x] = "draining" => reg[x] = "draining" /\ loaded'[x] = loaded[x]
          BY <3>1
        <4> QED BY <4>1, <4>2 DEF DrainsApart
      <3> QED BY <3>2, <3>3
    <2>4. Installed' /\ EmptyHands'
      BY <1>1, <1>2 DEF Types, Installed, EmptyHands, HasInstalled
    <2> QED BY <2>1, <2>2, <2>3, <2>4
  <1>3. CASE /\ Online /\ Online' /\ entry.login = from[s]
             /\ entry' \in Entry /\ entry'.login = entry.login /\ entry'.dirty = entry.dirty
             /\ IsQueue(entry'.queue)
             /\ \E out \in SUBSET (ToSet(entry.queue) \cup ToSet(loaded[s])) :
                  /\ dropped' = dropped \cup out
                  /\ ToSet(entry'.queue) = (ToSet(entry.queue) \cup ToSet(loaded[s])) \ out
    <2>1. PICK out \in SUBSET (ToSet(entry.queue) \cup ToSet(loaded[s])) :
                 /\ dropped' = dropped \cup out
                 /\ ToSet(entry'.queue) = (ToSet(entry.queue) \cup ToSet(loaded[s])) \ out
      BY <1>3
    <2>2. ToSet(entry.queue) \subseteq Message /\ ToSet(loaded[s]) \subseteq Message
      BY <1>3, ToSetIs DEF Queues, IsQueue
    <2>3. Types'
      <3>1. dropped' \subseteq Message
        BY <2>1, <2>2 DEF Types
      <3>2. StampsFit'
        BY <1>1, QueueFrame DEF Types
      <3>3. <<>> \in Seq(Message)
        OBVIOUS
      <3>4. /\ loaded' \in [Login -> Seq(Message)]
            /\ reg' \in [Login -> {"out", "loading", "registered", "draining", "active"}]
        BY <1>1, <3>3 DEF Types
      <3> QED BY <1>1, <1>3, <3>1, <3>2, <3>4 DEF Types
    <2>4. Queues'
      BY <1>1, <1>3, QueueFrame, EmptyIsQueue DEF Types, Queues
    <2>5. NotYetQueued'
      <3>1. \A r \in Login : ToSet(loaded'[r]) \subseteq ToSet(loaded[r])
        BY <1>1, EmptyIsQueue DEF Types
      <3>2. \A m \in Message : pub[m] # "done" => m \notin ToSet(entry'.queue)
        BY <1>3, <2>1 DEF NotYetQueued
      <3> QED BY <1>1, <3>1, <3>2 DEF NotYetQueued
    <2>6. DrainsApart'
      <3>1. \A r \in Login : reg'[r] = "draining" => r # s /\ reg[r] = "draining"
                                                      /\ loaded'[r] = loaded[r]
        BY <1>1 DEF Types
      <3> QED BY <1>1, <1>3, <2>1, <3>1 DEF DrainsApart
    <2>7. Installed' /\ EmptyHands'
      BY <1>1, <1>3 DEF Types, Installed, EmptyHands, HasInstalled
    <2> QED BY <2>3, <2>4, <2>5, <2>6, <2>7
  <1> QED BY <1>2, <1>3, DrainFailsIs

LEMMA NotifyUnregister ==
  ASSUME NotifyIInv, NEW s \in Login, Unregister(s)
  PROVE  NotifyIInv'
  <1> USE DEF NotifyIInv, fileVars, pubVars, regVars, leaveVars, Online
  <1>0. /\ entry \in Entry /\ entry # NoEntry /\ entry' = NoEntry /\ leave[s] = "removed"
        /\ UNCHANGED <<file, named, stamp, pub, via, read, reg, loaded, from, taken, up, snap,
                       got, dropped, env>>
    BY DEF Unregister, Types
  <1>1. PICK q \in {entry.queue, <<>>} :
          /\ flush' = [flush EXCEPT ![s] = q]
          /\ \/ leave' = [leave EXCEPT ![s] = "saving"]
             \/ q = <<>> /\ leave' = [leave EXCEPT ![s] = "forget"]
    BY DEF Unregister
  <1>2. IsQueue(q) /\ \A m \in Message : pub[m] # "done" => m \notin ToSet(q)
    BY <1>0, EmptyIsQueue DEF Queues, NotYetQueued
  <1>3. Types'
    BY <1>0, <1>1, <1>2, QueueFrame DEF Types, IsQueue
  <1>4. Queues'
    BY <1>0, <1>1, <1>2, QueueFrame DEF Types, Queues
  <1>5. NotYetQueued'
    BY <1>0, <1>1, <1>2 DEF Types, NotYetQueued
  <1>6. Installed' /\ DrainsApart' /\ EmptyHands'
    BY <1>0, <1>1 DEF Types, Installed, DrainsApart, EmptyHands, HasInstalled
  <1> QED BY <1>3, <1>4, <1>5, <1>6

LEMMA NotifySaveAllTake ==
  ASSUME NotifyIInv, SaveAllTake
  PROVE  NotifyIInv'
  <1> USE DEF NotifyIInv, fileVars, pubVars, regVars, leaveVars, Online
  <1>1. entry \in Entry /\ entry # NoEntry /\ snap' = entry.queue /\ stamp' = stamp
    BY DEF SaveAllTake, Types
  <1>2. entry' \in Entry /\ entry'.login = entry.login /\ entry'.queue = entry.queue
    BY <1>1 DEF SaveAllTake, Entry
  <1>3. Types'
    BY <1>1, <1>2, QueueFrame DEF Types, SaveAllTake
  <1>4. Queues' /\ NotYetQueued'
    BY <1>1, <1>2, QueueFrame DEF Queues, NotYetQueued, SaveAllTake
  <1>5. Installed' /\ DrainsApart' /\ EmptyHands'
    BY <1>1, <1>2 DEF Installed, DrainsApart, EmptyHands, HasInstalled, SaveAllTake
  <1> QED BY <1>3, <1>4, <1>5

LEMMA NotifyCrash ==
  ASSUME NotifyIInv, Crash
  PROVE  NotifyIInv'
  <1> USE DEF NotifyIInv, Online
  <1>1. stamp' = stamp /\ <<>> \in Seq(Message)
    BY DEF Crash
  <1>2. Types'
    BY <1>1, QueueFrame DEF Types, Crash
  <1>3. Queues' /\ NotYetQueued'
    <2>1. IsQueue(file)' /\ ToSet(file') \subseteq ToSet(file)
      BY <1>1, UnfinishedIs DEF Crash
    <2> QED BY <1>1, <2>1, QueueFrame, EmptyIsQueue DEF Types, Queues, NotYetQueued, Crash
  <1>4. Installed' /\ DrainsApart' /\ EmptyHands'
    BY DEF Types, Installed, DrainsApart, EmptyHands, HasInstalled, Crash
  <1> QED BY <1>2, <1>3, <1>4

LEMMA NotifyStep == NotifyIInv /\ [Next]_vars => NotifyIInv'
  <1> SUFFICES ASSUME NotifyIInv, [Next]_vars PROVE NotifyIInv'
    OBVIOUS
  <1>1. ASSUME NEW m \in Message, Publish(m) \/ Publisher(m)
        PROVE  NotifyIInv'
    BY <1>1, NotifyPublish, NotifySmall, NotifyRouteQueue, NotifyAppendLoad, NotifyWrites
       DEF Publisher
  <1>2. ASSUME NEW s \in Login, Session(s)
        PROVE  NotifyIInv'
    BY <1>2, NotifySmall, NotifyWrites, NotifyRegister, NotifyDrainTake, NotifyDrainDeliver,
       NotifyDrainFails, NotifyUnregister
       DEF Session, Registering, Leaving
  <1>3. CASE Autosave
    BY <1>3, NotifySmall, NotifyWrites, NotifySaveAllTake DEF Autosave
  <1>4. CASE UNCHANGED vars
    <2>1. stamp' = stamp
      BY <1>4 DEF vars, pubVars
    <2>2. Types' /\ Queues' /\ NotYetQueued'
      BY <1>4, <2>1, QueueFrame
         DEF NotifyIInv, Types, Queues, NotYetQueued, Online, vars, fileVars, pubVars, regVars,
             leaveVars
    <2>3. Installed' /\ DrainsApart' /\ EmptyHands'
      BY <1>4 DEF NotifyIInv, Installed, DrainsApart, EmptyHands, HasInstalled, Online, vars,
                  fileVars, pubVars, regVars, leaveVars
    <2> QED BY <2>2, <2>3 DEF NotifyIInv
  <1> QED BY <1>1, <1>2, <1>3, <1>4, NotifyCrash DEF Next

------------------------------------------------------------------------------
(* Before the first login. *)

LEMMA OfflineInit == Init => OfflineIInv
  <1> SUFFICES ASSUME Init PROVE OfflineIInv
    OBVIOUS
  <1>1. Owed = {} /\ ~Online
    BY DEF Init, Owed, Online
  <1>2. \A m \in Message : pub[m] # "saving"
    BY DEF Init
  <1> QED BY <1>1, <1>2 DEF Init, OfflineIInv, OneSaving, SavesAllOwed

(* Until somebody logs in, only publishers and the end of the process act. *)
LEMMA NobodySteps ==
  ASSUME NotifyIInv, OfflineIInv, Next, NobodyYet', Intact'
  PROVE  /\ Intact /\ NobodyYet
         /\ \/ \E m \in Message : \/ Publish(m) \/ RouteOffline(m) \/ Deliver(m)
                                  \/ AppendLoad(m) \/ AppendSave(m) \/ AppendFails(m)
            \/ Crash
  <1> USE DEF fileVars, pubVars, regVars, leaveVars, Intact
  <1>1. ASSUME NEW m \in Message, Publish(m) \/ Publisher(m)
        PROVE  UNCHANGED <<reg, env>>
    BY <1>1 DEF Publish, Publisher, RouteImmediate, RouteQueue, RouteOffline, Deliver,
                AppendLoad, AppendSave, AppendFails
  <1>2. ASSUME NEW s \in Login, Session(s)
        PROVE  env' = env /\ \A r \in Login : reg'[r] = reg[r] \/ reg'[r] # "out"
    <2>1. reg \in [Login -> {"out", "loading", "registered", "draining", "active"}]
      BY DEF NotifyIInv, Types
    <2> QED BY <1>2, <2>1
         DEF Session, Registering, Leaving, RegisterLoad, RegisterInstall, DrainTake,
             DrainDeliver, DrainFails, DrainEnd, Drop, Reconnect, RemoveFromIndex, Takeover,
             UnregisterAbsent, Unregister, UnregisterSave, UnregisterSaveFails, Forget
  <1>3. CASE Autosave
    <2>1. NobodyYet /\ env' = env
      BY <1>3 DEF NobodyYet, Autosave, SaveAllTake, SaveAllWrite, SaveAllFails
    <2>2. ~Online /\ snap = NoSnap
      BY <2>1 DEF OfflineIInv
    <2> QED BY <1>3, <2>2 DEF Autosave, SaveAllTake, SaveAllWrite, SaveAllFails
  <1>4. CASE Crash
    <2>1. \A s \in Login : reg'[s] = "out" => reg[s] = "out"
      BY <1>4 DEF Crash
    <2> QED BY <1>4, <2>1 DEF NobodyYet, Crash
  <1>5. ASSUME NEW s \in Login, Session(s)
        PROVE  FALSE
    <2>1. NobodyYet /\ env' = env
      BY <1>2, <1>5 DEF NobodyYet
    <2>2. reg[s] = "out" /\ leave[s] = "no" /\ reg'[s] = "out"
      BY <2>1 DEF NobodyYet, NotifyIInv, EmptyHands
    <2>3. RegisterLoad(s)
      BY <1>5, <2>2
         DEF Session, Registering, Leaving, RegisterInstall, DrainTake,
             DrainDeliver, DrainFails, DrainEnd, Drop, Reconnect, RemoveFromIndex, Takeover,
             UnregisterAbsent, Unregister, UnregisterSave, UnregisterSaveFails, Forget
    <2> QED BY <2>2, <2>3 DEF RegisterLoad, NotifyIInv, Types
  <1>6. ASSUME NEW m \in Message, Publish(m) \/ Publisher(m)
        PROVE  /\ Intact /\ NobodyYet
               /\ \/ Publish(m) \/ RouteOffline(m) \/ Deliver(m)
                  \/ AppendLoad(m) \/ AppendSave(m) \/ AppendFails(m)
    <2>1. NobodyYet /\ Intact
      BY <1>1, <1>6 DEF NobodyYet
    <2>2. ~Online
      BY <2>1 DEF OfflineIInv
    <2> QED BY <1>6, <2>1, <2>2 DEF Publisher, RouteImmediate, RouteQueue
  <1> QED BY <1>3, <1>4, <1>5, <1>6 DEF Next

LEMMA OfflineStep == NotifyIInv /\ OfflineIInv /\ [Next]_vars => OfflineIInv'
  <1> SUFFICES ASSUME NotifyIInv, OfflineIInv, [Next]_vars, NobodyYet', Intact'
               PROVE  /\ ~Online' /\ snap' = NoSnap
                      /\ OneSaving' /\ SavesAllOwed'
                      /\ Owed' \subseteq ToSet(file')
    BY DEF OfflineIInv
  <1> USE DEF fileVars, pubVars, regVars, leaveVars, Online, Goto, Told
  <1>1. CASE UNCHANGED vars
    BY <1>1 DEF OfflineIInv, OneSaving, SavesAllOwed, NobodyYet, Owed, Intact, vars
  <1>2. CASE Next
    <2>1. /\ Intact /\ NobodyYet
          /\ \/ \E m \in Message : \/ Publish(m) \/ RouteOffline(m) \/ Deliver(m)
                                   \/ AppendLoad(m) \/ AppendSave(m) \/ AppendFails(m)
             \/ Crash
      BY <1>2, NobodySteps
    <2>2. /\ ~Online /\ snap = NoSnap /\ OneSaving /\ SavesAllOwed /\ Owed \subseteq ToSet(file)
      BY <2>1 DEF OfflineIInv
    <2>3. ASSUME NEW m \in Message, Publish(m) \/ RouteOffline(m) \/ Deliver(m) \/ AppendFails(m)
          PROVE  /\ Owed' \subseteq Owed
                 /\ \A n \in Message : pub'[n] = "saving" => pub[n] = "saving" /\ read'[n] = read[n]
                 /\ dropped \subseteq dropped'
                 /\ UNCHANGED <<file, named, entry, snap>>
      <3>1. Types
        BY DEF NotifyIInv
      <3>2. CASE Publish(m)
        BY <3>1, <3>2 DEF Publish, Owed, Types
      <3>3. CASE RouteOffline(m)
        BY <3>1, <3>3 DEF RouteOffline, Owed, Types
      <3>4. CASE Deliver(m)
        <4>1. CASE up[via[m]]
          BY <3>1, <3>4, <4>1 DEF Deliver, Owed, Types
        <4>2. CASE ~up[via[m]]
          BY <3>1, <3>4, <4>2 DEF Deliver, Owed, Types
        <4> QED BY <4>1, <4>2
      <3>5. CASE AppendFails(m)
        <4>1. UNCHANGED file
          BY <2>1, <3>5 DEF AppendFails, Unfinished, Intact
        <4> QED BY <3>1, <3>5, <4>1 DEF AppendFails, Owed, Types
      <3> QED BY <2>3, <3>2, <3>3, <3>4, <3>5
    <2>4. CASE \E m \in Message : \/ Publish(m) \/ RouteOffline(m) \/ Deliver(m) \/ AppendFails(m)
      BY <2>2, <2>3, <2>4 DEF OneSaving, SavesAllOwed
    <2>5. ASSUME NEW m \in Message, AppendLoad(m)
          PROVE  /\ ~Online' /\ snap' = NoSnap /\ OneSaving' /\ SavesAllOwed'
                 /\ Owed' \subseteq ToSet(file')
      <3> DEFINE r == Append1(file, m)
      <3>1. /\ read' = [read EXCEPT ![m] = r.queue] /\ dropped' = dropped \cup r.out
            /\ named' = TRUE /\ pub' = [pub EXCEPT ![m] = "saving"] /\ pub[m] = "offline"
            /\ \A n \in Message : pub[n] # "saving"
            /\ UNCHANGED <<file, entry, snap, got>>
        <4>1. \A n \in Message : pub[n] # "saving"
          BY <2>5 DEF AppendLoad
        <4>2. ~Writing
          BY <2>1, <2>2, <4>1 DEF Writing, NobodyYet, NotifyIInv, EmptyHands
        <4> QED BY <2>1, <2>5, <4>2 DEF AppendLoad, Read, Intact
      <3>2. ToSet(r.queue) = (ToSet(file) \cup {m}) \ r.out
        <4>1. StampsFit /\ IsQueue(file) /\ m \notin ToSet(file)
          BY <3>1 DEF NotifyIInv, Types, Queues, NotYetQueued
        <4> QED BY <4>1, Append1Is
      <3> HIDE DEF r
      <3>3. Owed' \subseteq Owed \ r.out
        BY <3>1 DEF Owed, NotifyIInv, Types
      <3> QED BY <2>2, <3>1, <3>2, <3>3 DEF OneSaving, SavesAllOwed, NotifyIInv, Types
    <2>6. ASSUME NEW m \in Message, AppendSave(m)
          PROVE  /\ ~Online' /\ snap' = NoSnap /\ OneSaving' /\ SavesAllOwed'
                 /\ Owed' \subseteq ToSet(file')
      <3>1. /\ file' = read[m] /\ read' = [read EXCEPT ![m] = <<>>]
            /\ pub' = [pub EXCEPT ![m] = "done"] /\ pub[m] = "saving"
            /\ UNCHANGED <<entry, snap, got, dropped>>
        BY <2>2, <2>6 DEF AppendSave, Write, SavesAllOwed
      <3>2. Owed' \subseteq Owed \cup ({m} \ dropped)
        BY <3>1 DEF Owed, NotifyIInv, Types
      <3>3. Owed' \subseteq ToSet(file')
        BY <2>2, <3>1, <3>2 DEF SavesAllOwed
      <3>4. \A n \in Message : pub'[n] # "saving"
        BY <2>2, <3>1 DEF OneSaving, NotifyIInv, Types
      <3> QED BY <2>2, <3>1, <3>3, <3>4 DEF OneSaving, SavesAllOwed
    <2>7. CASE Crash
      <3>1. /\ \A n \in Message : pub'[n] # "saving"
            /\ Owed' \subseteq Owed
            /\ file' = file /\ entry' = NoEntry /\ snap' = NoSnap
        BY <2>1, <2>7 DEF Crash, Unfinished, Intact, Owed, NotifyIInv, Types
      <3> QED BY <2>2, <3>1 DEF OneSaving, SavesAllOwed
    <2> QED BY <2>1, <2>4, <2>5, <2>6, <2>7
  <1> QED BY <1>1, <1>2

------------------------------------------------------------------------------
(* While everything takes turns. *)

LEMMA KeptInit == Init => KeptIInv
  <1> SUFFICES ASSUME Init PROVE TakingTurns
    BY DEF KeptIInv
  <1>1. Owed = {} /\ ~Online /\ \A m \in Message : pub[m] = "new" /\ got[m] = 0
    BY DEF Init, Owed, Online
  <1>2. \A s \in Login : reg[s] = "out" /\ leave[s] = "no"
    BY DEF Init
  <1>3. ToSet(file) = {}
    BY EmptyIsQueue DEF Init
  <1>4. \A m \in Message : ~Waits(m)
    BY <1>1, <1>2, <1>3 DEF Waits
  <1>5. OneSaving /\ SavesAllOwed /\ OneAtATime
    BY <1>1, <1>2 DEF OneSaving, SavesAllOwed, OneAtATime, Alive
  <1>6. OwnEntry /\ CleanIsSaved
    BY <1>1, <1>2 DEF OwnEntry, InGame, HasInstalled, CleanIsSaved
  <1>7. OwedWaits
    BY <1>1, <1>4 DEF OwedWaits
  <1> QED BY <1>5, <1>6, <1>7 DEF Init, TakingTurns

(* Who is there, and what is not. *)
LEMMA TurnsAre ==
  ASSUME NotifyIInv, TakingTurns
  PROVE  /\ Online => \A s \in Login : leave[s] # "saving"
         /\ \A s \in Login : leave[s] # "saving" => ToSet(flush[s]) = {}
         /\ \A r, s \in Login : leave[r] = "saving" /\ leave[s] = "saving" => r = s
         /\ \A s \in Login : reg[s] = "draining" => Online /\ entry.login = s
         /\ (\A s \in Login : ~Alive(s)) =>
              /\ ~Online
              /\ \A s \in Login : leave[s] # "saving" /\ reg[s] \notin {"loading", "draining"}
         /\ \A s \in Login : reg[s] = "loading" =>
              /\ ~Online /\ \A r \in Login : leave[r] # "saving" /\ (r # s => ~Alive(r))
         /\ \A s \in Login : reg[s] # "loading" /\ reg[s] # "draining" => ToSet(loaded[s]) = {}
  <1> USE DEF TakingTurns, OneAtATime, OwnEntry, Alive, InGame, HasInstalled
  <1>1. Online => entry.login \in Login
    BY DEF NotifyIInv, Types, Entry, Online
  <1>2. \A s \in Login : (leave[s] # "saving" => flush[s] = <<>>)
                         /\ (reg[s] \notin {"loading", "draining"} => loaded[s] = <<>>)
    BY DEF NotifyIInv, EmptyHands
  <1>3. \A s \in Login : reg[s] = "draining" => Online /\ entry.login = s
    OBVIOUS
  <1>4. (\A s \in Login : ~Alive(s)) =>
              /\ ~Online
              /\ \A s \in Login : leave[s] # "saving" /\ reg[s] \notin {"loading", "draining"}
    BY <1>1
  <1>5. \A s \in Login : reg[s] = "loading" =>
              /\ ~Online /\ \A r \in Login : leave[r] # "saving" /\ (r # s => ~Alive(r))
    BY <1>1
  <1>6. Online => \A s \in Login : leave[s] # "saving"
    BY <1>1
  <1>7. \A r, s \in Login : leave[r] = "saving" /\ leave[s] = "saving" => r = s
    OBVIOUS
  <1> QED BY ONLY <1>2, <1>3, <1>4, <1>5, <1>6, <1>7, EmptyIsQueue

LEMMA KeptQuiet ==
  ASSUME NotifyIInv, TakingTurns, Calm,
         \/ \E m \in Message : Publish(m) \/ RouteImmediate(m) \/ RouteOffline(m) \/ Deliver(m)
         \/ \E s \in Login : Drop(s) \/ Reconnect(s) \/ RemoveFromIndex(s)
                             \/ UnregisterAbsent(s) \/ Forget(s) \/ DrainEnd(s)
  PROVE  TakingTurns'
  <1> USE DEF fileVars, pubVars, regVars, leaveVars, Online, Goto, Told
  <1>1. ASSUME NEW m \in Message, Publish(m) \/ RouteImmediate(m)
        PROVE  TakingTurns'
    <2>1. /\ UNCHANGED <<file, named, entry, read, regVars, leaveVars, snap, got, dropped, env>>
          /\ pub[m] # "done" /\ pub[m] # "saving" /\ \E x \in {"route", "deliver"} : pub' = [pub EXCEPT ![m] = x]
      BY <1>1 DEF Publish, RouteImmediate
    <2>2. /\ \A n \in Message : pub'[n] = "done" <=> pub[n] = "done"
          /\ \A n \in Message : pub'[n] = "saving" <=> pub[n] = "saving"
          /\ \A n \in Message : pub'[n] = "offline" => pub[n] = "offline"
      BY <2>1 DEF NotifyIInv, Types
    <2>3. Owed' = Owed
      BY <2>1, <2>2 DEF Owed
    <2>4. \A n : Waits(n)' <=> Waits(n)
      BY <2>1 DEF Waits
    <2> QED BY <2>1, <2>2, <2>3, <2>4
            DEF TakingTurns, OneSaving, SavesAllOwed, OneAtATime, Alive, OwnEntry, InGame, HasInstalled,
                CleanIsSaved, OwedWaits
  <1>2. ASSUME NEW m \in Message, RouteOffline(m)
        PROVE  TakingTurns'
    <2>1. /\ UNCHANGED <<file, named, entry, read, regVars, leaveVars, snap, got, dropped, env>>
          /\ pub[m] # "done" /\ pub[m] # "saving" /\ pub' = [pub EXCEPT ![m] = "offline"]
      BY <1>2 DEF RouteOffline
    <2>2. /\ \A n \in Message : pub'[n] = "done" <=> pub[n] = "done"
          /\ \A n \in Message : pub'[n] = "saving" <=> pub[n] = "saving"
      BY <2>1 DEF NotifyIInv, Types
    <2>3. Owed' = Owed
      BY <2>1, <2>2 DEF Owed
    <2>4. \A n : Waits(n)' <=> Waits(n)
      BY <2>1 DEF Waits
    <2>5. \A s \in Login : ~Alive(s)
      BY <1>2 DEF RouteOffline, Calm, Settled, TakingTurns, OwnEntry, InGame, HasInstalled, Alive
    <2> QED BY <2>1, <2>2, <2>3, <2>4, <2>5
            DEF TakingTurns, OneSaving, SavesAllOwed, OneAtATime, Alive, OwnEntry, InGame, HasInstalled,
                CleanIsSaved, OwedWaits
  <1>3. ASSUME NEW m \in Message, Deliver(m)
        PROVE  TakingTurns'
    <2>1. /\ UNCHANGED <<file, named, entry, read, regVars, leaveVars, snap, dropped, env>>
          /\ pub[m] = "deliver"
          /\ \/ got' = [got EXCEPT ![m] = got[m] + 1] /\ pub' = [pub EXCEPT ![m] = "done"]
             \/ got' = got /\ pub' = [pub EXCEPT ![m] = "requeue"]
      BY <1>3 DEF Deliver
    <2>2. got[m] = 0 /\ ~Waits(m) /\ \A n \in Message : m \notin ToSet(read[n])
      BY <2>1 DEF TakingTurns, OwedWaits, NotifyIInv, NotYetQueued, Waits
    <2>3. /\ \A n \in Message : pub'[n] = "saving" <=> pub[n] = "saving"
          /\ \A n \in Message : pub'[n] = "offline" => pub[n] = "offline"
          /\ \A n \in Message \ {m} : pub'[n] = pub[n] /\ got'[n] = got[n]
          /\ got'[m] \in {0, 1} /\ (pub'[m] # "done" => got'[m] = 0)
      BY <2>1, <2>2 DEF NotifyIInv, Types
    <2>4. Owed' \subseteq Owed
      BY <2>1, <2>2, <2>3 DEF Owed, NotifyIInv, Types
    <2>5. \A n : Waits(n)' <=> Waits(n)
      BY <2>1 DEF Waits
    <2>6. \A n \in Message : ToSet(read[n]) \subseteq Message
      BY ToSetIs DEF NotifyIInv, Types
    <2>7. OwedWaits'
      BY <2>1, <2>2, <2>3, <2>4, <2>5, <2>6 DEF TakingTurns, OwedWaits
    <2> QED BY <2>1, <2>3, <2>4, <2>7
            DEF TakingTurns, OneSaving, SavesAllOwed, OneAtATime, Alive, OwnEntry, InGame, HasInstalled,
                CleanIsSaved
  <1>4. ASSUME NEW s \in Login, Drop(s) \/ Reconnect(s)
        PROVE  TakingTurns'
    <2>1. UNCHANGED <<file, named, entry, pubVars, regVars, leaveVars, snap, got, dropped, env>>
      BY <1>4 DEF Drop, Reconnect
    <2> QED BY <2>1
            DEF TakingTurns, OneSaving, SavesAllOwed, OneAtATime, Alive, OwnEntry, InGame, HasInstalled,
                CleanIsSaved, OwedWaits, Owed, Waits
  <1>5. ASSUME NEW s \in Login, RemoveFromIndex(s)
        PROVE  TakingTurns'
    <2>1. /\ UNCHANGED <<file, named, entry, pubVars, regVars, flush, taken, snap, got, dropped, env>>
          /\ leave' = [leave EXCEPT ![s] = "removed"] /\ leave[s] = "no" /\ reg[s] = "active"
      BY <1>5 DEF RemoveFromIndex
    <2>2. \A r \in Login : /\ (Alive(r)' <=> Alive(r)) /\ (InGame(r)' <=> InGame(r))
                           /\ (leave'[r] = "saving" <=> leave[r] = "saving")
      BY <2>1 DEF NotifyIInv, Types, Alive, InGame, HasInstalled
    <2>3. (\A n : Waits(n)' <=> Waits(n)) /\ Owed' = Owed
      BY <2>1, <2>2 DEF Waits, Owed
    <2>4. OwnEntry'
      <3>1. entry # NoEntry => entry.login \in Login
        BY DEF NotifyIInv, Types, Entry
      <3> QED BY <2>1, <2>2, <3>1 DEF NotifyIInv, Types, TakingTurns, OwnEntry
    <2> QED BY <2>1, <2>2, <2>3, <2>4
            DEF TakingTurns, OneSaving, SavesAllOwed, OneAtATime,
                CleanIsSaved, OwedWaits
  <1>6. ASSUME NEW s \in Login, UnregisterAbsent(s)
        PROVE  TakingTurns'
    BY <1>6 DEF UnregisterAbsent, TakingTurns, OwnEntry, InGame, HasInstalled
  <1>7. ASSUME NEW s \in Login, Forget(s)
        PROVE  TakingTurns'
    <2>1. /\ UNCHANGED <<file, entry, pubVars, regVars, flush, taken, snap, got, dropped, env>>
          /\ leave' = [leave EXCEPT ![s] = "gone"] /\ leave[s] = "forget" /\ reg[s] = "active"
      BY <1>7 DEF Forget, TakingTurns, OwnEntry
    <2>2. \A r \in Login : /\ ~Alive(r)' /\ (InGame(r)' <=> InGame(r))
                           /\ (leave'[r] = "saving" <=> leave[r] = "saving")
      BY <2>1 DEF NotifyIInv, Types, Alive, InGame, HasInstalled, TakingTurns, OneAtATime
    <2>3. (\A n : Waits(n)' <=> Waits(n)) /\ Owed' = Owed
      BY <2>1, <2>2 DEF Waits, Owed
    <2>4. OwnEntry'
      <3>1. entry # NoEntry => entry.login \in Login
        BY DEF NotifyIInv, Types, Entry
      <3> QED BY <2>1, <2>2, <3>1 DEF NotifyIInv, Types, TakingTurns, OwnEntry
    <2>5. \A m \in Message : pub[m] # "saving"
      BY <2>1 DEF TakingTurns, OneAtATime, Alive
    <2>6. OwedWaits'
      BY <2>1, <2>3 DEF TakingTurns, OwedWaits
    <2> QED BY <2>1, <2>2, <2>4, <2>5, <2>6
            DEF TakingTurns, OneSaving, SavesAllOwed, OneAtATime, CleanIsSaved
  <1>8. ASSUME NEW s \in Login, DrainEnd(s)
        PROVE  TakingTurns'
    <2>1. /\ UNCHANGED <<file, named, entry, pubVars, loaded, from, leaveVars, snap, got, dropped, env>>
          /\ reg' = [reg EXCEPT ![s] = "active"] /\ reg[s] \in {"draining", "registered"}
          /\ reg[s] = "draining" => loaded[s] = <<>>
      BY <1>8 DEF DrainEnd
    <2>2. \A r \in Login : /\ (Alive(r)' <=> Alive(r)) /\ (InGame(r)' <=> InGame(r))
                           /\ (reg'[r] = "draining" => reg[r] = "draining")
                           /\ (reg'[r] = "loading" => reg[r] = "loading")
                           /\ (reg[r] = "draining" => reg'[r] = "draining" \/ r = s)
      BY <2>1 DEF NotifyIInv, Types, Alive, InGame, HasInstalled
    <2>3. (\A n : Waits(n)' <=> Waits(n)) /\ Owed' = Owed
      BY <2>1, <2>2, EmptyIsQueue DEF Waits, Owed
    <2>4. OwnEntry'
      <3>1. entry # NoEntry => entry.login \in Login
        BY DEF NotifyIInv, Types, Entry
      <3>2. OwnEntry
        BY DEF TakingTurns
      <3>3. \A r \in Login : reg'[r] = IF r = s THEN "active" ELSE reg[r]
        BY <2>1 DEF NotifyIInv, Types
      <3>4. \A r \in Login : leave'[r] # "no" => reg'[r] = "active"
        BY <2>1, <3>2, <3>3 DEF OwnEntry
      <3>5. \A r \in Login : reg'[r] = "draining" => from'[r] = r
        BY <2>1, <2>2, <3>2 DEF OwnEntry
      <3> QED BY <2>1, <2>2, <3>1, <3>2, <3>4, <3>5 DEF OwnEntry
    <2>5. OwedWaits'
      BY <2>1, <2>3 DEF TakingTurns, OwedWaits
    <2> QED BY <2>1, <2>2, <2>3, <2>4, <2>5
            DEF TakingTurns, OneSaving, SavesAllOwed, OneAtATime, CleanIsSaved
  <1> QED BY <1>1, <1>2, <1>3, <1>4, <1>5, <1>6, <1>7, <1>8

LEMMA KeptRouteQueue ==
  ASSUME NotifyIInv, TakingTurns, NEW m \in Message, RouteQueue(m)
  PROVE  TakingTurns'
  <1> USE DEF fileVars, pubVars, regVars, leaveVars, Online, Goto
  <1> DEFINE r == Append1(entry.queue, m)
  <1>0. entry \in Entry /\ pub[m] # "done"
    BY DEF RouteQueue, NotifyIInv, Types
  <1>1. IsQueue(r.queue) /\ ToSet(r.queue) = (ToSet(entry.queue) \cup {m}) \ r.out
    <2>1. IsQueue(entry.queue) /\ m \notin ToSet(entry.queue) /\ StampsFit
      BY <1>0 DEF RouteQueue, NotifyIInv, Queues, NotYetQueued, Types
    <2> QED BY <2>1, Append1Is
  <1>2. entry' = [entry EXCEPT !.queue = r.queue, !.dirty = TRUE] /\ dropped' = dropped \cup r.out
        /\ pub' = [pub EXCEPT ![m] = "done"] /\ entry # NoEntry /\ pub[m] \in {"route", "requeue"}
        /\ UNCHANGED <<file, named, read, reg, loaded, from, leave, flush, taken, snap, got>>
    BY DEF RouteQueue
  <1> HIDE DEF r
  <1>3. entry' \in Entry /\ entry'.login = entry.login /\ entry'.queue = r.queue
        /\ entry'.dirty = TRUE
    BY <1>0, <1>1, <1>2 DEF Entry, IsQueue
  <1>4. entry' # NoEntry
    BY <1>3, NotifyAssumption
  <1>5. Owed' \subseteq (Owed \cup {m}) \ r.out
    BY <1>2 DEF Owed, NotifyIInv, Types
  <1>6. \A s \in Login : leave[s] # "saving"
    BY <1>2, TurnsAre
  <1>7. \A n \in Message : pub[n] # "saving"
    BY <1>2 DEF TakingTurns, OneAtATime, OwnEntry, InGame, HasInstalled, Alive, NotifyIInv, Types, Entry
  <1>8. \A n : Waits(n) => n \in ToSet(r.queue) \cup r.out
                           \/ \E s \in Login : reg[s] = "draining" /\ n \in ToSet(loaded[s])
    BY <1>1, <1>2, <1>6 DEF Waits
  <1>9. \A n : Waits(n)' <=> n \in ToSet(r.queue)
                             \/ \E s \in Login : reg[s] = "draining" /\ n \in ToSet(loaded[s])
    BY <1>2, <1>3, <1>4, <1>6 DEF Waits
  <1>10. OwedWaits'
    <2>1. \A n \in Owed' : Waits(n)'
      <3> SUFFICES ASSUME NEW n \in Owed' PROVE Waits(n)'
        OBVIOUS
      <3>1. CASE n = m
        BY <1>1, <1>5, <1>9, <3>1
      <3>2. CASE n # m
        <4>1. n \in Owed /\ n \notin r.out
          BY <1>5, <3>2
        <4>2. Waits(n)
          BY <4>1 DEF TakingTurns, OwedWaits
        <4> QED BY <1>8, <1>9, <4>1, <4>2
      <3> QED BY <3>1, <3>2
    <2>2. got[m] = 0
      BY <1>0 DEF TakingTurns, OwedWaits
    <2>3. \A n \in Message : Waits(n)' => n = m \/ Waits(n)
      BY <1>1, <1>2, <1>6, <1>9 DEF Waits
    <2>4. \A n \in Message : Waits(n)' => got'[n] = 0
      BY <1>2, <2>2, <2>3 DEF TakingTurns, OwedWaits
    <2>5. \A n \in Message : pub'[n] # "done" => pub[n] # "done"
      BY <1>2 DEF NotifyIInv, Types
    <2>6. \A n \in Message : pub'[n] # "saving"
      BY <1>2, <1>7 DEF NotifyIInv, Types
    <2> QED BY <1>2, <2>1, <2>4, <2>5, <2>6 DEF TakingTurns, OwedWaits
  <1>11. \A n \in Message : pub'[n] # "saving" /\ (pub'[n] = "offline" => pub[n] = "offline")
    BY <1>2, <1>7 DEF NotifyIInv, Types
  <1>12. OneSaving' /\ SavesAllOwed' /\ OneAtATime'
    BY <1>2, <1>11 DEF TakingTurns, OneSaving, SavesAllOwed, OneAtATime, Alive
  <1>13. OwnEntry' /\ CleanIsSaved'
    BY <1>2, <1>3, <1>4 DEF TakingTurns, OwnEntry, CleanIsSaved, InGame, HasInstalled
  <1> QED BY <1>2, <1>10, <1>12, <1>13 DEF TakingTurns

LEMMA KeptAppendLoad ==
  ASSUME NotifyIInv, TakingTurns, Calm, NEW m \in Message, AppendLoad(m)
  PROVE  TakingTurns'
  <1> USE DEF fileVars, pubVars, regVars, leaveVars, Online, Goto
  <1> DEFINE r == Append1(file, m)
  <1>1. /\ read' = [read EXCEPT ![m] = r.queue] /\ dropped' = dropped \cup r.out
        /\ named' = TRUE /\ pub' = [pub EXCEPT ![m] = "saving"] /\ pub[m] = "offline"
        /\ \A n \in Message : pub[n] # "saving"
        /\ UNCHANGED <<file, entry, reg, loaded, from, leave, flush, taken, snap, got>>
    <2>1. pub[m] = "offline" /\ \A n \in Message : pub[n] # "saving"
      BY DEF AppendLoad
    <2>2. \A s \in Login : leave[s] # "saving"
      BY <2>1, TurnsAre DEF TakingTurns, OneAtATime
    <2>3. ~Writing
      BY <2>1, <2>2 DEF Writing, TakingTurns
    <2> QED BY <2>3 DEF AppendLoad, Read, Calm
  <1>2. IsQueue(r.queue) /\ ToSet(r.queue) = (ToSet(file) \cup {m}) \ r.out
    <2>1. StampsFit /\ IsQueue(file) /\ m \notin ToSet(file)
      BY <1>1 DEF NotifyIInv, Types, Queues, NotYetQueued
    <2> QED BY <2>1, Append1Is
  <1> HIDE DEF r
  <1>3. \A s \in Login : ~Alive(s)
    BY <1>1 DEF TakingTurns, OneAtATime
  <1>4. Owed' \subseteq Owed \ r.out
    BY <1>1 DEF Owed, NotifyIInv, Types
  <1>5. \A n : (Waits(n) <=> n \in ToSet(file)) /\ (Waits(n)' <=> n \in ToSet(file))
    BY <1>1, <1>3, TurnsAre DEF Waits
  <1>6. \A n \in Message : pub'[n] = "saving" <=> n = m
    BY <1>1 DEF NotifyIInv, Types
  <1>7. read'[m] = r.queue
    BY <1>1 DEF NotifyIInv, Types
  <1>8. OneSaving' /\ SavesAllOwed'
    <2>1. Owed \subseteq ToSet(file)
      BY <1>5 DEF TakingTurns, OwedWaits
    <2> QED BY <1>1, <1>2, <1>4, <1>6, <1>7, <2>1 DEF OneSaving, SavesAllOwed
  <1>9. OneAtATime'
    <2>1. \A s \in Login : ~Alive(s)'
      BY <1>1, <1>3 DEF Alive
    <2> QED BY <2>1 DEF OneAtATime
  <1>10. OwnEntry' /\ CleanIsSaved'
    BY <1>1 DEF TakingTurns, OwnEntry, CleanIsSaved, InGame, HasInstalled
  <1>11. OwedWaits'
    <2>1. \A n \in Owed' : Waits(n)'
      BY <1>4, <1>5 DEF TakingTurns, OwedWaits
    <2>2. \A n \in Message : Waits(n)' => got'[n] = 0
      BY <1>1, <1>5 DEF TakingTurns, OwedWaits
    <2>3. \A n \in Message : got'[n] <= 1 /\ (pub'[n] # "done" => got'[n] = 0)
      BY <1>1 DEF TakingTurns, OwedWaits, NotifyIInv, Types
    <2>4. ASSUME NEW n \in ToSet(r.queue) PROVE got[n] = 0
      <3>1. n \in Message
        BY <1>2, <2>4, ToSetIs DEF IsQueue
      <3>2. n = m \/ n \in ToSet(file)
        BY <1>2, <2>4
      <3> QED BY <1>1, <1>5, <3>1, <3>2 DEF TakingTurns, OwedWaits
    <2> QED BY <1>1, <1>6, <1>7, <2>1, <2>2, <2>3, <2>4 DEF OwedWaits
  <1> QED BY <1>1, <1>8, <1>9, <1>10, <1>11 DEF TakingTurns

LEMMA KeptAppendSave ==
  ASSUME NotifyIInv, TakingTurns, NEW m \in Message, AppendSave(m)
  PROVE  TakingTurns'
  <1> USE DEF fileVars, pubVars, regVars, leaveVars, Online, Goto
  <1>1. /\ file' = read[m] /\ read' = [read EXCEPT ![m] = <<>>]
        /\ pub' = [pub EXCEPT ![m] = "done"] /\ pub[m] = "saving"
        /\ UNCHANGED <<named, entry, reg, loaded, from, leave, flush, taken, snap, got, dropped>>
    BY DEF AppendSave, Write, TakingTurns, SavesAllOwed
  <1>2. \A s \in Login : ~Alive(s)
    BY <1>1 DEF TakingTurns, OneAtATime
  <1>3. Owed' \subseteq Owed \cup ({m} \ dropped)
    BY <1>1 DEF Owed, NotifyIInv, Types
  <1>4. Owed' \subseteq ToSet(file')
    BY <1>1, <1>3 DEF TakingTurns, SavesAllOwed
  <1>5. \A n : Waits(n)' <=> n \in ToSet(file')
    BY <1>1, <1>2, TurnsAre DEF Waits
  <1>6. \A n \in Message : /\ pub'[n] # "saving"
                           /\ pub'[n] = "offline" => pub[n] = "offline"
                           /\ pub'[n] # "done" => pub[n] # "done"
    BY <1>1 DEF TakingTurns, OneSaving, NotifyIInv, Types
  <1>7. OwedWaits'
    BY <1>1, <1>4, <1>5, <1>6 DEF TakingTurns, OwedWaits
  <1>8. OneSaving' /\ SavesAllOwed' /\ OneAtATime'
    BY <1>1, <1>6 DEF TakingTurns, OneSaving, SavesAllOwed, OneAtATime, Alive
  <1>9. OwnEntry'
    BY <1>1 DEF TakingTurns, OwnEntry, InGame, HasInstalled
  <1>10. CleanIsSaved'
    BY <1>1, <1>2, TurnsAre DEF CleanIsSaved
  <1> QED BY <1>1, <1>7, <1>8, <1>9, <1>10 DEF TakingTurns

LEMMA KeptRegister ==
  ASSUME NotifyIInv, TakingTurns, Calm, NEW s \in Login, RegisterLoad(s) \/ RegisterInstall(s)
  PROVE  TakingTurns'
  <1> USE DEF fileVars, pubVars, regVars, leaveVars, Online
  <1>1. CASE RegisterLoad(s)
    <2>1. \A r \in Login : ~Alive(r)
      BY <1>1 DEF RegisterLoad, Calm, Alone, Alive
    <2>2. /\ ~Online /\ \A r \in Login : leave[r] # "saving" /\ reg[r] \notin {"loading", "draining"}
      BY <2>1, TurnsAre
    <2>3. NobodyOffline /\ ~Writing
      BY <1>1, <2>2 DEF RegisterLoad, Calm, NobodyOffline, Writing, TakingTurns
    <2>4. /\ reg[s] = "out" /\ leave[s] = "no" /\ loaded' = [loaded EXCEPT ![s] = file]
          /\ named' = TRUE /\ reg' = [reg EXCEPT ![s] = "loading"]
          /\ \A m \in Message : pub[m] \notin {"offline", "saving"}
          /\ UNCHANGED <<file, entry, pub, read, from, leave, flush, taken, snap, got, dropped>>
      BY <1>1, <2>3 DEF RegisterLoad, Calm, NobodyOffline, Read
    <2>5. \A r \in Login : /\ (r # s => reg'[r] = reg[r] /\ loaded'[r] = loaded[r])
                           /\ reg'[s] = "loading" /\ loaded'[s] = file
                           /\ (Alive(r)' <=> r = s)
      BY <2>4, <2>1 DEF NotifyIInv, Types, Alive
    <2>6. (\A n : Waits(n)' <=> Waits(n)) /\ Owed' = Owed
      BY <2>4, <2>2 DEF Waits, Owed
    <2>7. OneSaving' /\ SavesAllOwed' /\ OneAtATime'
      BY <2>4, <2>5 DEF OneSaving, SavesAllOwed, OneAtATime
    <2>8. OwnEntry'
      <3>1. \A r \in Login : InGame(r)' => InGame(r)
        BY <2>4, <2>5 DEF InGame, HasInstalled
      <3> QED BY <2>4, <2>2, <2>5, <3>1 DEF TakingTurns, OwnEntry
    <2>9. CleanIsSaved' /\ OwedWaits'
      BY <2>4, <2>2, <2>5, <2>6 DEF TakingTurns, CleanIsSaved, OwedWaits
    <2> QED BY <2>4, <2>7, <2>8, <2>9 DEF TakingTurns
  <1>2. CASE RegisterInstall(s)
    <2>1. /\ reg[s] = "loading" /\ entry' = [login |-> s, queue |-> loaded[s], dirty |-> FALSE]
          /\ loaded' = [loaded EXCEPT ![s] = <<>>] /\ reg' = [reg EXCEPT ![s] = "registered"]
          /\ UNCHANGED <<file, named, pub, read, from, leave, flush, taken, snap, got, dropped>>
      BY <1>2 DEF RegisterInstall
    <2>2. loaded[s] = file /\ ~Online /\ leave[s] = "no"
          /\ \A r \in Login : leave[r] # "saving" /\ (r # s => ~Alive(r))
      BY <2>1, TurnsAre DEF TakingTurns, CleanIsSaved, OwnEntry
    <2>3. entry' \in Entry /\ entry'.login = s /\ entry'.queue = file /\ entry'.dirty = FALSE
      BY <2>1, <2>2 DEF Entry, NotifyIInv, Types
    <2>4. entry' # NoEntry
      BY <2>3, NotifyAssumption
    <2>5. \A r \in Login : /\ (r # s => reg'[r] = reg[r] /\ loaded'[r] = loaded[r])
                           /\ reg'[s] = "registered" /\ loaded'[s] = <<>>
                           /\ (Alive(r)' <=> Alive(r))
                           /\ reg'[r] # "draining" /\ reg'[r] # "loading"
      BY <2>1, <2>2, TurnsAre DEF NotifyIInv, Types, Alive, TakingTurns, OneAtATime
    <2>6. (\A n : Waits(n)' <=> Waits(n)) /\ Owed' = Owed
      BY <2>1, <2>2, <2>3, <2>4, <2>5 DEF Waits, Owed
    <2>7. OneSaving' /\ SavesAllOwed' /\ OneAtATime'
      BY <2>1, <2>5, <2>6 DEF TakingTurns, OneSaving, SavesAllOwed, OneAtATime
    <2>8. OwnEntry'
      <3>1. \A r \in Login : InGame(r)' <=> r = s
        <4>1. \A r \in Login : InGame(r)' => Alive(r)'
          BY DEF InGame, HasInstalled, Alive
        <4> QED BY <2>1, <2>2, <2>5, <4>1 DEF InGame, HasInstalled
      <3> QED BY <2>1, <2>2, <2>3, <2>4, <2>5, <3>1 DEF TakingTurns, OwnEntry
    <2>9. CleanIsSaved' /\ OwedWaits'
      BY <2>1, <2>3, <2>5, <2>6 DEF TakingTurns, CleanIsSaved, OwedWaits
    <2> QED BY <2>1, <2>7, <2>8, <2>9 DEF TakingTurns
  <1> QED BY <1>1, <1>2

LEMMA KeptDrainTake ==
  ASSUME NotifyIInv, TakingTurns, NEW s \in Login, DrainTake(s)
  PROVE  TakingTurns'
  <1> USE DEF Online
  <1>1. /\ entry \in Entry /\ entry # NoEntry /\ reg[s] = "registered"
        /\ loaded' = [loaded EXCEPT ![s] = entry.queue]
        /\ from' = [from EXCEPT ![s] = entry.login]
        /\ reg' = [reg EXCEPT ![s] = "draining"]
        /\ entry' \in Entry /\ entry'.login = entry.login /\ entry'.queue = <<>>
        /\ entry'.dirty <=> entry.dirty \/ entry.queue # <<>>
        /\ UNCHANGED <<file, named, pub, read, leave, flush, taken, snap, got, dropped>>
    BY DrainTakeIs
  <1>2. entry' # NoEntry
    BY <1>1, NotifyAssumption
  <1>3. leave[s] = "no" /\ entry.login = s
    BY <1>1 DEF TakingTurns, OwnEntry, InGame, HasInstalled
  <1>4. \A r \in Login : leave[r] # "saving" /\ reg[r] # "draining" /\ reg[r] # "loading"
    BY <1>1, <1>3, TurnsAre
  <1>5. \A r \in Login : /\ (r # s => reg'[r] = reg[r] /\ loaded'[r] = loaded[r] /\ from'[r] = from[r])
                         /\ reg'[s] = "draining" /\ loaded'[s] = entry.queue /\ from'[s] = s
                         /\ (Alive(r)' <=> Alive(r)) /\ (InGame(r)' <=> InGame(r))
    BY <1>1, <1>3 DEF NotifyIInv, Types, Alive, InGame, HasInstalled
  <1>6. (\A n : Waits(n)' <=> Waits(n)) /\ Owed' = Owed
    BY <1>1, <1>2, <1>4, <1>5, EmptyIsQueue DEF Waits, Owed
  <1>7. OneSaving' /\ SavesAllOwed' /\ OneAtATime' /\ OwedWaits'
    BY <1>1, <1>5, <1>6 DEF TakingTurns, OneSaving, SavesAllOwed, OneAtATime, OwedWaits
  <1>8. OwnEntry'
    BY <1>1, <1>2, <1>3, <1>5 DEF TakingTurns, OwnEntry
  <1>9. CleanIsSaved'
    BY <1>1, <1>4, <1>5 DEF TakingTurns, CleanIsSaved
  <1> QED BY <1>1, <1>7, <1>8, <1>9 DEF TakingTurns

LEMMA KeptDrainDeliver ==
  ASSUME NotifyIInv, TakingTurns, NEW s \in Login, DrainDeliver(s)
  PROVE  TakingTurns'
  <1> USE DEF fileVars, pubVars, regVars, leaveVars, Online
  <1> DEFINE h == Head(loaded[s])
             q == Tail(loaded[s])
  <1>1. IsQueue(loaded[s]) /\ loaded[s] # <<>> /\ reg[s] = "draining"
    BY DEF NotifyIInv, Queues, DrainDeliver
  <1>2. IsQueue(q) /\ h \in Message /\ ToSet(q) = ToSet(loaded[s]) \ {h} /\ h \in ToSet(loaded[s])
    BY <1>1, TailIs
  <1>3. /\ got' = [got EXCEPT ![h] = got[h] + 1]
        /\ loaded' = [loaded EXCEPT ![s] = q]
        /\ UNCHANGED <<file, named, entry, pub, read, reg, from, leave, flush, taken,
                       snap, dropped>>
    BY DEF DrainDeliver, Told
  <1> HIDE DEF h, q
  <1>4. /\ Online /\ entry.login = s /\ entry.dirty
        /\ \A r \in Login : leave[r] # "saving" /\ reg[r] # "loading"
        /\ \A r \in Login : reg[r] = "draining" => r = s
    BY <1>1, TurnsAre DEF TakingTurns, CleanIsSaved
  <1>5. h \notin ToSet(entry.queue) /\ pub[h] = "done"
    BY <1>1, <1>2, <1>4
       DEF NotifyIInv, DrainsApart, NotYetQueued, TakingTurns, OwnEntry
  <1>6. Waits(h) /\ got[h] = 0
    <2>1. Waits(h)
      BY <1>1, <1>2, <1>4 DEF Waits
    <2> QED BY <1>2, <2>1 DEF TakingTurns, OwedWaits
  <1>7. \A n : Waits(n)' <=> Waits(n) /\ n # h
    BY <1>1, <1>2, <1>3, <1>4, <1>5 DEF Waits, NotifyIInv, Types
  <1>8. /\ got'[h] = 1 /\ \A n \in Message \ {h} : got'[n] = got[n]
        /\ Owed' \subseteq Owed \ {h}
    BY <1>2, <1>3, <1>6 DEF Owed, NotifyIInv, Types
  <1>9. \A n \in Message : pub[n] # "saving"
    BY <1>1, <1>4 DEF TakingTurns, OneAtATime, OwnEntry, InGame, HasInstalled, Alive
  <1>10. OwedWaits'
    BY <1>3, <1>5, <1>7, <1>8, <1>9 DEF TakingTurns, OwedWaits
  <1>11. OneSaving' /\ SavesAllOwed' /\ OneAtATime' /\ OwnEntry' /\ CleanIsSaved'
    BY <1>3, <1>4, <1>9
       DEF TakingTurns, OneSaving, SavesAllOwed, OneAtATime, Alive, OwnEntry, InGame, HasInstalled,
           CleanIsSaved
  <1> QED BY <1>3, <1>10, <1>11 DEF TakingTurns

LEMMA KeptDrainFails ==
  ASSUME NotifyIInv, TakingTurns, NEW s \in Login, DrainFails(s)
  PROVE  TakingTurns'
  <1> USE DEF Online
  <1>1. /\ reg[s] = "draining" /\ loaded[s] # <<>>
        /\ loaded' = [loaded EXCEPT ![s] = <<>>] /\ reg' = [reg EXCEPT ![s] = "active"]
        /\ UNCHANGED <<file, named, pub, read, from, leave, flush, taken, snap, got>>
    BY DrainFailsIs
  <1>2. /\ Online /\ entry.login = s /\ from[s] = s /\ entry.dirty
        /\ \A r \in Login : leave[r] # "saving" /\ reg[r] # "loading"
        /\ \A r \in Login : reg[r] = "draining" => r = s
    BY <1>1, TurnsAre DEF TakingTurns, CleanIsSaved, OwnEntry
  <1>3. /\ Online' /\ entry'.login = entry.login /\ entry'.dirty = entry.dirty
        /\ \E out \in SUBSET (ToSet(entry.queue) \cup ToSet(loaded[s])) :
             /\ dropped' = dropped \cup out
             /\ ToSet(entry'.queue) = (ToSet(entry.queue) \cup ToSet(loaded[s])) \ out
    BY <1>2, DrainFailsIs
  <1>4. PICK out \in SUBSET (ToSet(entry.queue) \cup ToSet(loaded[s])) :
             /\ dropped' = dropped \cup out
             /\ ToSet(entry'.queue) = (ToSet(entry.queue) \cup ToSet(loaded[s])) \ out
    BY <1>3
  <1>5. \A r \in Login : /\ (r # s => reg'[r] = reg[r] /\ loaded'[r] = loaded[r])
                         /\ reg'[s] = "active" /\ reg'[r] # "draining" /\ reg'[r] # "loading"
                         /\ (Alive(r)' <=> Alive(r)) /\ (InGame(r)' <=> InGame(r))
    BY <1>1, <1>2 DEF NotifyIInv, Types, Alive, InGame, HasInstalled
  <1>6. \A n : Waits(n) <=> n \in ToSet(entry.queue) \cup ToSet(loaded[s])
    BY <1>1, <1>2 DEF Waits
  <1>7. \A n : Waits(n)' <=> Waits(n) /\ n \notin out
    BY <1>1, <1>2, <1>3, <1>4, <1>5, <1>6 DEF Waits
  <1>8. Owed' \subseteq Owed \ out
    BY <1>1, <1>4 DEF Owed
  <1>9. \A n \in Message : pub[n] # "saving"
    BY <1>1, <1>2 DEF TakingTurns, OneAtATime, OwnEntry, InGame, HasInstalled, Alive
  <1>10. OwedWaits'
    BY <1>1, <1>7, <1>8, <1>9 DEF TakingTurns, OwedWaits
  <1>11. OneSaving' /\ SavesAllOwed' /\ OneAtATime'
    BY <1>1, <1>5, <1>9 DEF TakingTurns, OneSaving, SavesAllOwed, OneAtATime
  <1>12. OwnEntry' /\ CleanIsSaved'
    BY <1>1, <1>2, <1>3, <1>5 DEF TakingTurns, OwnEntry, CleanIsSaved
  <1> QED BY <1>1, <1>10, <1>11, <1>12 DEF TakingTurns

LEMMA KeptUnregister ==
  ASSUME NotifyIInv, TakingTurns, Calm, NEW s \in Login, Unregister(s)
  PROVE  TakingTurns'
  <1> USE DEF fileVars, pubVars, regVars, leaveVars, Online
  <1>1. /\ entry \in Entry /\ entry # NoEntry /\ entry' = NoEntry /\ leave[s] = "removed"
        /\ \A m \in Message : pub[m] \notin {"offline", "saving"}
        /\ flush' = [flush EXCEPT ![s] = IF entry.dirty THEN entry.queue ELSE <<>>]
        /\ leave' = [leave EXCEPT ![s] = IF entry.dirty THEN "saving" ELSE "forget"]
        /\ UNCHANGED <<file, named, pub, read, reg, loaded, from, taken, snap, got, dropped>>
    BY DEF Unregister, Calm, NobodyOffline, NotifyIInv, Types
  <1>2. reg[s] = "active" /\ entry.login = s
    BY <1>1 DEF TakingTurns, OwnEntry, InGame, HasInstalled
  <1>3. /\ \A r \in Login : leave[r] # "saving" /\ reg[r] # "loading" /\ reg[r] # "draining"
        /\ \A r \in Login : r # s => ~Alive(r)
    BY <1>1, <1>2, TurnsAre DEF TakingTurns, OneAtATime, Alive
  <1>4. \A n : Waits(n) <=> n \in ToSet(entry.queue)
    BY <1>1, <1>3 DEF Waits
  <1>5. \A n : Waits(n)' <=> Waits(n)
    <2>1. CASE entry.dirty
      <3>1. /\ leave'[s] = "saving" /\ flush'[s] = entry.queue
            /\ \A r \in Login : r # s => flush'[r] = flush[r] /\ ToSet(flush[r]) = {}
        BY <1>1, <1>3, <2>1, TurnsAre DEF NotifyIInv, Types
      <3> QED BY <1>4, <3>1 DEF Waits
    <2>2. CASE ~entry.dirty
      <3>1. \A r \in Login : leave'[r] # "saving"
        BY <1>1, <1>3, <2>2 DEF NotifyIInv, Types
      <3>2. entry.queue = file'
        BY <1>1, <2>2 DEF TakingTurns, CleanIsSaved
      <3> QED BY <1>1, <1>4, <3>1, <3>2 DEF Waits
    <2> QED BY <2>1, <2>2
  <1>6. leave'[s] \in {"saving", "forget"} /\ \A r \in Login : r # s => leave'[r] = leave[r]
    BY <1>1 DEF NotifyIInv, Types
  <1>7. \A r \in Login : ~InGame(r)' /\ (Alive(r)' <=> Alive(r))
    BY <1>1, <1>2, <1>3, <1>6 DEF InGame, HasInstalled, Alive
  <1>8. Owed' = Owed
    BY <1>1 DEF Owed
  <1>9. OneSaving' /\ SavesAllOwed' /\ OneAtATime' /\ OwedWaits'
    BY <1>1, <1>5, <1>7, <1>8 DEF TakingTurns, OneSaving, SavesAllOwed, OneAtATime, OwedWaits
  <1>10. OwnEntry' /\ CleanIsSaved'
    BY <1>1, <1>2, <1>3, <1>6, <1>7 DEF TakingTurns, OwnEntry, CleanIsSaved
  <1> QED BY <1>1, <1>9, <1>10 DEF TakingTurns

LEMMA KeptUnregisterSave ==
  ASSUME NotifyIInv, TakingTurns, NEW s \in Login, UnregisterSave(s)
  PROVE  TakingTurns'
  <1> USE DEF fileVars, pubVars, regVars, leaveVars, Online
  <1>1. leave[s] = "saving" /\ reg[s] = "active" /\ Alive(s) /\ named
    BY DEF UnregisterSave, TakingTurns, OneAtATime, OwnEntry, Alive
  <1>2. /\ file' = flush[s] /\ flush' = [flush EXCEPT ![s] = <<>>]
        /\ leave' = [leave EXCEPT ![s] = "forget"]
        /\ UNCHANGED <<named, entry, pub, read, reg, loaded, from, taken, snap, got, dropped>>
    BY <1>1 DEF UnregisterSave, Write
  <1>3. /\ ~Online
        /\ \A r \in Login : r # s => leave[r] # "saving" /\ ToSet(flush[r]) = {}
        /\ \A r \in Login : reg[r] # "loading" /\ reg[r] # "draining"
    BY <1>1, TurnsAre DEF TakingTurns, OneAtATime
  <1>4. \A n : Waits(n) <=> n \in ToSet(flush[s])
    BY <1>1, <1>3 DEF Waits
  <1>5. \A r \in Login : /\ leave'[r] # "saving" /\ (leave'[r] = "no" <=> leave[r] = "no")
                         /\ (InGame(r)' <=> InGame(r)) /\ (Alive(r)' <=> Alive(r))
    BY <1>1, <1>2, <1>3 DEF InGame, HasInstalled, Alive, NotifyIInv, Types
  <1>6. (\A n : Waits(n)' <=> Waits(n)) /\ Owed' = Owed
    BY <1>2, <1>3, <1>4, <1>5 DEF Waits, Owed
  <1>7. OneSaving' /\ SavesAllOwed' /\ OneAtATime' /\ OwedWaits'
    BY <1>2, <1>5, <1>6 DEF TakingTurns, OneSaving, SavesAllOwed, OneAtATime, OwedWaits
  <1>8. OwnEntry' /\ CleanIsSaved'
    BY <1>2, <1>3, <1>5 DEF TakingTurns, OwnEntry, CleanIsSaved
  <1> QED BY <1>2, <1>7, <1>8 DEF TakingTurns

LEMMA KeptStep == NotifyIInv /\ KeptIInv /\ [Next]_vars => KeptIInv'
  <1> SUFFICES ASSUME NotifyIInv, KeptIInv, [Next]_vars, Calm'
               PROVE  TakingTurns'
    BY DEF KeptIInv
  <1>1. env' = env
    <2> USE DEF fileVars, pubVars, regVars, leaveVars
    <2>1. ASSUME NEW m \in Message, Publish(m) \/ Publisher(m) PROVE env' = env
      BY <2>1 DEF Publish, Publisher, RouteImmediate, RouteQueue, RouteOffline, Deliver,
                  AppendLoad, AppendSave, AppendFails
    <2>2. ASSUME NEW s \in Login, Session(s) PROVE env' = env
      BY <2>2 DEF Session, Registering, Leaving, RegisterLoad, RegisterInstall, DrainTake,
             DrainDeliver, DrainFails, DrainEnd, Drop, Reconnect, RemoveFromIndex, Takeover,
             UnregisterAbsent, Unregister, UnregisterSave, UnregisterSaveFails, Forget
    <2>3. CASE Autosave \/ Crash \/ UNCHANGED vars
      BY <2>3 DEF Autosave, SaveAllTake, SaveAllWrite, SaveAllFails, Crash, vars
    <2> QED BY <2>1, <2>2, <2>3 DEF Next
  <1>2. Calm /\ TakingTurns
    BY <1>1 DEF Calm, KeptIInv
  <1>3. ASSUME NEW m \in Message, Publish(m) \/ Publisher(m)
        PROVE  TakingTurns'
    <2>1. ~AppendFails(m)
      BY <1>2 DEF AppendFails, Calm
    <2> QED BY <1>2, <1>3, <2>1, KeptQuiet, KeptRouteQueue, KeptAppendLoad, KeptAppendSave
            DEF Publisher
  <1>4. ASSUME NEW s \in Login, Session(s)
        PROVE  TakingTurns'
    <2>1. ~Takeover(s) /\ ~UnregisterSaveFails(s)
      BY <1>2 DEF Takeover, UnregisterSaveFails, Calm
    <2> QED BY <1>2, <1>4, <2>1, KeptQuiet, KeptRegister, KeptDrainTake, KeptDrainDeliver,
               KeptDrainFails, KeptUnregister, KeptUnregisterSave
            DEF Session, Registering, Leaving
  <1>5. ~Autosave /\ ~Crash
    BY <1>2 DEF Autosave, SaveAllTake, SaveAllWrite, SaveAllFails, Crash, Calm, TakingTurns
  <1>6. CASE UNCHANGED vars
    BY <1>2, <1>6
       DEF vars, fileVars, pubVars, regVars, leaveVars, Online, TakingTurns, OneSaving,
           SavesAllOwed, OneAtATime, Alive, OwnEntry, InGame, HasInstalled, CleanIsSaved,
           OwedWaits, Owed, Waits
  <1> QED BY <1>3, <1>4, <1>5, <1>6 DEF Next

------------------------------------------------------------------------------
LEMMA NotifyInvariant == Spec => [](NotifyIInv /\ OfflineIInv /\ KeptIInv)
  <1>1. Init => NotifyIInv /\ OfflineIInv /\ KeptIInv
    BY NotifyInit, OfflineInit, KeptInit
  <1>2. NotifyIInv /\ OfflineIInv /\ KeptIInv /\ [Next]_vars
          => (NotifyIInv /\ OfflineIInv /\ KeptIInv)'
    BY NotifyStep, OfflineStep, KeptStep
  <1> QED BY <1>1, <1>2, PTL DEF Spec

(* Whatever happens - logins that overlap, crashes, disks that fail - every
   queue, in memory, on disk or on its way there, holds each notification
   once, in drain order, within the cap (queue.go, manager.go). *)
THEOREM NotifyTypes == Spec => []NotifyTypeOK
  <1>1. NotifyIInv => NotifyTypeOK
    <2> SUFFICES ASSUME NotifyIInv PROVE NotifyTypeOK
      OBVIOUS
    <2>1. \A q \in Snapshots : IsQueue(q)
      BY EmptyIsQueue DEF NotifyIInv, Queues, Snapshots, Backlog
    <2>2. QueuesInOrder
      BY <2>1 DEF QueuesInOrder, IsQueue
    <2> QED BY <2>2 DEF NotifyIInv, Types, NotifyTypeOK, Entry
  <1> QED BY <1>1, NotifyInvariant, PTL

(* "Two simultaneous publishes ... neither is lost" (store.go): before the
   first login, with any number of publishers, failed writes and crashes, all
   the player is owed is in the file, unless the file cannot be read or a write
   ends between its two renames (atomic.go). *)
THEOREM NotifyOfflineKept == Spec => []OfflineKept
  <1>1. NotifyIInv /\ OfflineIInv => OfflineKept
    BY DEF OfflineIInv, OfflineKept, NobodyYet, Intact
  <1> QED BY <1>1, NotifyInvariant, PTL

(* While sessions and publishes to the file take turns and nothing fails, what
   the player is owed is in its file or in a queue that will be delivered or
   saved, through logouts, logins and dropped connections, and nothing is
   delivered twice (manager.go, Register, Drain, Unregister). *)
THEOREM NotifyKept == Spec => []Kept
  <1>1. NotifyIInv /\ KeptIInv => Kept
    <2> SUFFICES ASSUME NotifyIInv, TakingTurns
                 PROVE  /\ Owed \subseteq ToSet(file) \cup ToSet(Backlog)
                             \cup UNION {ToSet(loaded[s]) \cup ToSet(flush[s]) : s \in Login}
                        /\ \A m \in Message : got[m] <= 1
      BY DEF KeptIInv, Kept, Calm
    <2>1. \A m \in Owed : \/ m \in ToSet(file) \/ m \in ToSet(Backlog)
                          \/ \E s \in Login : m \in ToSet(loaded[s]) \cup ToSet(flush[s])
      BY DEF TakingTurns, OwedWaits, Waits, Backlog
    <2> QED BY <2>1 DEF TakingTurns, OwedWaits
  <1> QED BY <1>1, NotifyInvariant, PTL

(* In the same circumstances whoever plays has the entry, with its own sink: a
   publish never goes to the file of a player who is there. *)
THEOREM NotifyRegistered == Spec => [](env \subseteq {"again", "drops"} => ActiveIsRegistered)
  <1>1. KeptIInv => (env \subseteq {"again", "drops"} => ActiveIsRegistered)
    BY DEF KeptIInv, Calm, TakingTurns, OwnEntry, InGame, HasInstalled, ActiveIsRegistered
  <1> QED BY <1>1, NotifyInvariant, PTL
==============================================================================
