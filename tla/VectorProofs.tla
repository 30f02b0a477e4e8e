---------------------------- MODULE VectorProofs ----------------------------
(***************************************************************************)
(* For every number of vectors, every set of values and every size: used   *)
(* as the kernel uses them, vectors hold what was put in, every object     *)
(* ends once, and all storage is some vector's.                            *)
(***************************************************************************)
EXTENDS Vector, TLAPS, FiniteSetTheorems, SequenceTheorems

(* The slots of storage for n elements that holds the elements s.          *)
Slots(s, n) == [i \in 1..n |-> IF i <= Len(s) THEN s[i] ELSE Raw]

(* A vector's members and the storage hold the elements s.                 *)
Owns(u, h, s) ==
  /\ u \in [m_size : Nat, m_capacity : Int, m_data : Nat]
  /\ s \in Seq(Values) /\ u.m_size = Len(s)
  /\ u.m_data = NULL => u.m_capacity <= 0 /\ u.m_size = 0
  /\ u.m_data # NULL => /\ u.m_data \in DOMAIN h
                        /\ u.m_size <= u.m_capacity
                        /\ h[u.m_data] = Slots(s, u.m_capacity)

Apart(all) ==
  \A v, w \in Vectors : v # w /\ all[v].m_data # NULL => all[w].m_data # all[v].m_data

(* Vectors with the elements e own all storage and all objects there are.  *)
Sound(m, e) ==
  /\ m = [vectors |-> m.vectors, heap |-> m.heap, alive |-> m.alive]
  /\ m.vectors = [v \in Vectors |-> m.vectors[v]]
  /\ m.heap = [b \in DOMAIN m.heap |-> m.heap[b]]
  /\ e = [v \in Vectors |-> e[v]]
  /\ \A v \in Vectors : Owns(m.vectors[v], m.heap, e[v])
  /\ Apart(m.vectors)
  /\ DOMAIN m.heap \subseteq {m.vectors[v].m_data : v \in Vectors} \ {NULL}
  /\ IsFiniteSet(DOMAIN m.heap)
  /\ IsFiniteSet(Objects(m.vectors)) /\ m.alive = Cardinality(Objects(m.vectors))

VectorInv == trivially_copyable \in BOOLEAN /\ Sound(memory, elems)

-----------------------------------------------------------------------------
(* Numbers of objects.                                                     *)

LEMMA ObjectsMembers ==
  ASSUME NEW all, NEW x
  PROVE  x \in Objects(all) <=>
           \E v \in Vectors : \E i \in 1..all[v].m_size : x = <<v, i>>
<1>1. ASSUME x \in Objects(all)
      PROVE  \E v \in Vectors : \E i \in 1..all[v].m_size : x = <<v, i>>
  <2>1. PICK v \in Vectors : x \in {v} \X (1..all[v].m_size)
    BY <1>1 DEF Objects
  <2> QED
    BY <2>1
<1>2. ASSUME NEW v \in Vectors, NEW i \in 1..all[v].m_size, x = <<v, i>>
      PROVE  x \in Objects(all)
  BY <1>2 DEF Objects
<1> QED
  BY <1>1, <1>2

(* Every set of natural numbers that is not empty has a least member.      *)
LEMMA LeastMember ==
  ASSUME NEW S \in SUBSET Nat, S # {}
  PROVE  \E p \in S : \A q \in S : p <= q
<1> DEFINE Below == {p \in Nat \X Nat : p[1] < p[2]}
<1>1. IsWellFoundedOn(Below, Nat)
  BY NatLessThanWellFounded DEF OpToRel
<1> HIDE DEF Below
<1>2. PICK x \in S : \A y \in S : <<y, x>> \notin Below
  BY <1>1, WFMin, Zenon
<1>3. ASSUME NEW y \in S PROVE x <= y
  <2>1. x \in Nat /\ y \in Nat /\ <<y, x>> \notin Below
    BY <1>2
  <2>2. y < x => <<y, x>> \in Below
    BY <2>1 DEF Below
  <2> QED
    BY <2>1, <2>2
<1> QED
  BY <1>3, Zenon

(* What holds of 0, and of a number if it does of the one before, holds up *)
(* to n.                                                                   *)
LEMMA UpTo ==
  ASSUME NEW n \in Nat, NEW S, 0 \in S,
         \A k \in 1..n : k - 1 \in S => k \in S
  PROVE  \A k \in 0..n : k \in S
<1> DEFINE T == {k \in 0..n : k \notin S}
<1>1. SUFFICES ASSUME T # {} PROVE FALSE
  OBVIOUS
<1>2. PICK p \in T : \A q \in T : p <= q
  <2>1. T \in SUBSET Nat
    OBVIOUS
  <2> HIDE DEF T
  <2> QED
    BY <1>1, <2>1, LeastMember, Zenon
<1>3. p \in 1..n /\ p \notin S
  OBVIOUS
<1>4. p - 1 \in 0..n /\ ~(p <= p - 1)
  BY <1>3
<1>5. p - 1 \in S
  BY <1>2, <1>4
<1> QED
  BY <1>3, <1>5


(* The objects of one vector, and those of all others.                     *)
ObjectsOf(v, n) == {v} \X (1..n)
Others(all, v) == UNION {{w} \X (1..all[w].m_size) : w \in Vectors \ {v}}

LEMMA CountOne ==
  ASSUME NEW v, NEW n \in Nat
  PROVE  IsFiniteSet(ObjectsOf(v, n)) /\ Cardinality(ObjectsOf(v, n)) = n
<1> DEFINE S == {k \in Nat : /\ IsFiniteSet(ObjectsOf(v, k))
                             /\ Cardinality(ObjectsOf(v, k)) = k}
<1>1. 0 \in S
  <2>1. ObjectsOf(v, 0) = {}
    BY DEF ObjectsOf
  <2> QED
    BY <2>1, FS_EmptySet
<1>2. ASSUME NEW k \in 1..n, k - 1 \in S PROVE k \in S
  <2>1. ObjectsOf(v, k) = ObjectsOf(v, k - 1) \cup {<<v, k>>} /\ <<v, k>> \notin ObjectsOf(v, k - 1)
    BY DEF ObjectsOf
  <2>2. IsFiniteSet(ObjectsOf(v, k - 1)) /\ Cardinality(ObjectsOf(v, k - 1)) = k - 1
    BY <1>2
  <2>3. /\ IsFiniteSet(ObjectsOf(v, k))
        /\ Cardinality(ObjectsOf(v, k)) = Cardinality(ObjectsOf(v, k - 1)) + 1
    BY <2>1, <2>2, FS_AddElement
  <2>4. k \in Nat /\ (k - 1) + 1 = k
    OBVIOUS
  <2>5. Cardinality(ObjectsOf(v, k)) = k
    BY <2>2, <2>3, <2>4
  <2> QED
    BY <2>3, <2>4, <2>5
<1>3. n \in 0..n
  OBVIOUS
<1>4. n \in S
  <2> HIDE DEF S
  <2> QED
    BY <1>1, <1>2, <1>3, UpTo
<1> QED
  BY <1>4

(* Who else has an object does not matter to how many a change to v makes  *)
(* more or fewer.                                                          *)
LEMMA CountChange ==
  ASSUME NEW all, NEW new, NEW v \in Vectors,
         \A w \in Vectors \ {v} : new[w].m_size = all[w].m_size,
         all[v].m_size \in Nat, new[v].m_size \in Nat, IsFiniteSet(Objects(all))
  PROVE  /\ IsFiniteSet(Objects(new))
         /\ Cardinality(Objects(new)) = Cardinality(Objects(all)) - all[v].m_size + new[v].m_size
<1>1. ASSUME NEW a PROVE Objects(a) = Others(a, v) \cup ObjectsOf(v, a[v].m_size)
  BY DEF Objects, Others, ObjectsOf
<1>2. ASSUME NEW a, NEW n PROVE Others(a, v) \cap ObjectsOf(v, n) = {}
  BY DEF Others, ObjectsOf
<1>3. Others(new, v) = Others(all, v)
  BY DEF Others
<1>4. IsFiniteSet(Others(all, v))
  <2>1. Others(all, v) \in SUBSET Objects(all)
    BY <1>1
  <2> QED
    BY <2>1, FS_Subset
<1>5. ASSUME NEW n \in Nat
      PROVE  /\ IsFiniteSet(Others(all, v) \cup ObjectsOf(v, n))
             /\ Cardinality(Others(all, v) \cup ObjectsOf(v, n)) = Cardinality(Others(all, v)) + n
  <2>1. IsFiniteSet(ObjectsOf(v, n)) /\ Cardinality(ObjectsOf(v, n)) = n
    BY CountOne
  <2>2. Cardinality({}) = 0
    BY FS_EmptySet
  <2>3. Others(all, v) \cap ObjectsOf(v, n) = {}
    BY <1>2
  <2>4. /\ IsFiniteSet(Others(all, v) \cup ObjectsOf(v, n))
        /\ Cardinality(Others(all, v) \cup ObjectsOf(v, n))
             = Cardinality(Others(all, v)) + Cardinality(ObjectsOf(v, n)) - Cardinality({})
    BY <1>4, <2>1, <2>3, FS_Union
  <2>5. Cardinality(Others(all, v)) \in Nat
    BY <1>4, FS_CardinalityType
  <2> QED
    BY <2>1, <2>2, <2>4, <2>5
<1>6. Cardinality(Others(all, v)) \in Nat
  BY <1>4, FS_CardinalityType
<1>7. Objects(all) = Others(all, v) \cup ObjectsOf(v, all[v].m_size)
  BY <1>1
<1>8. Objects(new) = Others(all, v) \cup ObjectsOf(v, new[v].m_size)
  BY <1>1, <1>3
<1>9. Cardinality(Objects(all)) = Cardinality(Others(all, v)) + all[v].m_size
  BY <1>5, <1>7
<1>10. /\ IsFiniteSet(Objects(new))
       /\ Cardinality(Objects(new)) = Cardinality(Others(all, v)) + new[v].m_size
  BY <1>5, <1>8
<1> QED
  BY <1>6, <1>9, <1>10

(* malloc's storage is nobody else's.                                      *)
LEMMA FreshIsFree ==
  ASSUME NEW m, IsFiniteSet(DOMAIN m.heap)
  PROVE  Fresh(m) \in Nat /\ Fresh(m) # NULL /\ Fresh(m) \notin DOMAIN m.heap
<1> DEFINE n == Cardinality(DOMAIN m.heap)
<1>1. n \in Nat
  BY FS_CardinalityType
<1> HIDE DEF n
<1>2. \E b \in 1..(n + 1) : b \notin DOMAIN m.heap
  <2> SUFFICES ASSUME \A b \in 1..(n + 1) : b \in DOMAIN m.heap PROVE FALSE
    OBVIOUS
  <2>1. 1..(n + 1) \in SUBSET (DOMAIN m.heap)
    OBVIOUS
  <2>2. Cardinality(1..(n + 1)) <= n
    BY <2>1, FS_Subset DEF n
  <2>3. Cardinality(1..(n + 1)) = n + 1
    BY <1>1, FS_Interval
  <2> QED
    BY <1>1, <2>2, <2>3
<1>3. Fresh(m) \in 1..(n + 1) /\ Fresh(m) \notin DOMAIN m.heap
  BY <1>2 DEF Fresh, n
<1> QED
  BY <1>1, <1>3 DEF NULL

-----------------------------------------------------------------------------
(* Slots.                                                                  *)

LEMMA SlotsMembers ==
  ASSUME NEW s \in Seq(Values), NEW n \in Nat
  PROVE  /\ Slots(s, n) = [i \in 1..n |-> IF i <= Len(s) THEN s[i] ELSE Raw]
         /\ DOMAIN Slots(s, n) = 1..n
         /\ Slots(s, n) \in Seq(Values \cup {Raw}) /\ Len(Slots(s, n)) = n
         /\ \A i \in 1..n : Slots(s, n)[i] = IF i <= Len(s) THEN s[i] ELSE Raw
<1>1. \A i \in 1..n : (IF i <= Len(s) THEN s[i] ELSE Raw) \in Values \cup {Raw}
  OBVIOUS
<1>2. Slots(s, n) \in [1..n -> Values \cup {Raw}]
  BY <1>1 DEF Slots
<1>3. Slots(s, n) \in Seq(Values \cup {Raw}) /\ Len(Slots(s, n)) = n
  BY <1>2
<1> QED
  BY <1>3 DEF Slots

(* A function on 1..n.                                                     *)
OnSlots(t, n) == t = [i \in 1..n |-> t[i]]

(* Slots are equal when they agree everywhere.                             *)
LEMMA SameSlots ==
  ASSUME NEW s \in Seq(Values), NEW n \in Nat, NEW t,
         OnSlots(t, n),
         \A i \in 1..n : t[i] = IF i <= Len(s) THEN s[i] ELSE Raw
  PROVE  t = Slots(s, n)
<1>1. t = [i \in 1..n |-> IF i <= Len(s) THEN s[i] ELSE Raw]
  BY DEF OnSlots
<1> QED
  BY <1>1 DEF Slots

LEMMA SlotsContents ==
  ASSUME NEW s \in Seq(Values), NEW n \in Nat, Len(s) <= n
  PROVE  SubSeq(Slots(s, n), 1, Len(s)) = s
<1>1. \A i \in 1..n : Slots(s, n)[i] = IF i <= Len(s) THEN s[i] ELSE Raw
  BY SlotsMembers
<1>2. \A i \in 1..Len(s) : Slots(s, n)[i] = s[i]
  BY <1>1
<1> DEFINE t == SubSeq(Slots(s, n), 1, Len(s))
<1>3. /\ t \in Seq(Values)
      /\ Len(t) = IF 1 <= Len(s) THEN Len(s) - 1 + 1 ELSE 0
      /\ \A i \in 1..(Len(s) - 1 + 1) : t[i] = Slots(s, n)[1 + i - 1]
  <2>1. \A i \in 1..Len(s) : Slots(s, n)[i] \in Values
    BY <1>2
  <2>2. 1 \in Int /\ Len(s) \in Int
    OBVIOUS
  <2> QED
    BY <2>1, <2>2, SubSeqProperties
<1> HIDE DEF t
<1>4. Len(t) = Len(s)
  BY <1>3
<1>5. \A i \in 1..Len(s) : t[i] = s[i]
  BY <1>2, <1>3
<1>6. t = s
  BY <1>3, <1>4, <1>5, SeqEqual
<1> QED
  BY <1>6 DEF t

(* Elements and slots without an object behind them.                       *)
LEMMA Joined ==
  ASSUME NEW s \in Seq(Values), NEW r \in Seq({Raw}), NEW n \in Nat, Len(s) + Len(r) = n
  PROVE  /\ OnSlots(s \o r, n)
         /\ \A i \in 1..n : (s \o r)[i] = IF i <= Len(s) THEN s[i] ELSE r[i - Len(s)]
<1> DEFINE t == s \o r
<1>1. s \in Seq(Values \cup {Raw}) /\ r \in Seq(Values \cup {Raw})
  BY SeqMonotonic
<1>2. /\ t \in Seq(Values \cup {Raw}) /\ Len(t) = n
      /\ \A i \in 1..n : t[i] = IF i <= Len(s) THEN s[i] ELSE r[i - Len(s)]
  BY <1>1, ConcatProperties
<1> HIDE DEF t
<1>3. t \in [1..n -> Values \cup {Raw}]
  BY <1>2, LenProperties
<1>4. OnSlots(t, n)
  BY <1>3 DEF OnSlots
<1> QED
  BY <1>2, <1>4 DEF t

LEMMA SlotsPadded ==
  ASSUME NEW s \in Seq(Values), NEW n \in Nat, Len(s) <= n
  PROVE  s \o RawSlots(n - Len(s)) = Slots(s, n)
<1> DEFINE r == RawSlots(n - Len(s))
           t == s \o r
<1>1. r \in Seq({Raw}) /\ Len(r) = n - Len(s) /\ \A i \in 1..(n - Len(s)) : r[i] = Raw
  <2>1. n - Len(s) \in Nat
    OBVIOUS
  <2>2. r \in [1..(n - Len(s)) -> {Raw}]
    BY DEF RawSlots
  <2> QED
    BY <2>1, <2>2
<1> HIDE DEF r
<1>2. Len(s) + Len(r) = n
  BY <1>1
<1>3. /\ OnSlots(t, n)
      /\ \A i \in 1..n : t[i] = IF i <= Len(s) THEN s[i] ELSE r[i - Len(s)]
  BY <1>1, <1>2, Joined
<1>4. \A i \in 1..n : t[i] = IF i <= Len(s) THEN s[i] ELSE Raw
  BY <1>1, <1>3
<1> HIDE DEF t
<1>5. t = Slots(s, n)
  BY <1>3, <1>4, SameSlots
<1> QED
  BY <1>5 DEF t, r

LEMMA SlotsPushed ==
  ASSUME NEW s \in Seq(Values), NEW n \in Nat, Len(s) < n, NEW value \in Values
  PROVE  [Slots(s, n) EXCEPT ![Len(s) + 1] = value] = Slots(Append(s, value), n)
<1> DEFINE t == [Slots(s, n) EXCEPT ![Len(s) + 1] = value]
           a == Append(s, value)
<1>1. a \in Seq(Values) /\ Len(a) = Len(s) + 1
  OBVIOUS
<1>2. \A i \in 1..Len(s) : a[i] = s[i]
  OBVIOUS
<1>3. a[Len(s) + 1] = value
  OBVIOUS
<1>4. /\ DOMAIN Slots(s, n) = 1..n
      /\ \A i \in 1..n : Slots(s, n)[i] = IF i <= Len(s) THEN s[i] ELSE Raw
  BY SlotsMembers
<1>5. OnSlots(t, n)
  BY <1>4 DEF OnSlots
<1>6. \A i \in 1..n : t[i] = IF i = Len(s) + 1 THEN value ELSE Slots(s, n)[i]
  BY <1>4
<1> HIDE DEF t, a
<1>7. ASSUME NEW i \in 1..n PROVE t[i] = IF i <= Len(a) THEN a[i] ELSE Raw
  <2>1. CASE i <= Len(s)
    BY <2>1, <1>1, <1>2, <1>4, <1>6
  <2>2. CASE i = Len(s) + 1
    BY <2>2, <1>1, <1>3, <1>6
  <2>3. CASE i > Len(s) + 1
    BY <2>3, <1>1, <1>4, <1>6
  <2> QED
    BY <2>1, <2>2, <2>3
<1>8. t = Slots(a, n)
  BY <1>1, <1>5, <1>7, SameSlots
<1> QED
  BY <1>8 DEF t, a

(* The first elements of a sequence.                                       *)
LEMMA SubSeqOne ==
  ASSUME NEW S, NEW s \in Seq(S), NEW n \in Nat, n <= Len(s),
         NEW a, a = SubSeq(s, 1, n)
  PROVE  a \in Seq(S) /\ Len(a) = n /\ \A i \in 1..n : a[i] = s[i]
<1>1. \A i \in 1..n : s[i] \in S
  OBVIOUS
<1>2. /\ a \in Seq(S) /\ Len(a) = IF 1 <= n THEN n - 1 + 1 ELSE 0
      /\ \A i \in 1..(n - 1 + 1) : a[i] = s[1 + i - 1]
  <2>1. 1 \in Int
    OBVIOUS
  <2> QED
    BY <1>1, <2>1, SubSeqProperties
<1> QED
  BY <1>2

LEMMA SlotsPopped ==
  ASSUME NEW s \in Seq(Values), NEW n \in Nat, Len(s) <= n, Len(s) > 0
  PROVE  [Slots(s, n) EXCEPT ![Len(s)] = Raw] = Slots(SubSeq(s, 1, Len(s) - 1), n)
<1> DEFINE t == [Slots(s, n) EXCEPT ![Len(s)] = Raw]
           a == SubSeq(s, 1, Len(s) - 1)
<1>1. /\ a \in Seq(Values) /\ Len(a) = Len(s) - 1
      /\ \A i \in 1..(Len(s) - 1) : a[i] = s[i]
  <2> DEFINE k == Len(s) - 1
  <2>1. a = SubSeq(s, 1, k) /\ k \in Nat /\ k <= Len(s)
    OBVIOUS
  <2> HIDE DEF a, k
  <2>2. a \in Seq(Values) /\ Len(a) = k /\ \A i \in 1..k : a[i] = s[i]
    BY <2>1, SubSeqOne
  <2> QED
    BY <2>2 DEF k
<1>4. /\ DOMAIN Slots(s, n) = 1..n
      /\ \A i \in 1..n : Slots(s, n)[i] = IF i <= Len(s) THEN s[i] ELSE Raw
  BY SlotsMembers
<1>5. OnSlots(t, n)
  BY <1>4 DEF OnSlots
<1>6. \A i \in 1..n : t[i] = IF i = Len(s) THEN Raw ELSE Slots(s, n)[i]
  BY <1>4
<1> HIDE DEF t, a
<1>7. \A i \in 1..n : t[i] = IF i <= Len(a) THEN a[i] ELSE Raw
  BY <1>1, <1>4, <1>6
<1>8. t = Slots(a, n)
  BY <1>1, <1>5, <1>7, SameSlots
<1> QED
  BY <1>8 DEF t, a

(* An element is assigned.                                                 *)
Put(t, k, value) == [t EXCEPT ![k] = value]

LEMMA SlotsAssigned ==
  ASSUME NEW s \in Seq(Values), NEW n \in Nat, Len(s) <= n, NEW value \in Values,
         NEW k \in 1..Len(s)
  PROVE  Put(Slots(s, n), k, value) = Slots(Put(s, k, value), n)
<1> DEFINE t == [Slots(s, n) EXCEPT ![k] = value]
           a == [s EXCEPT ![k] = value]
<1>1. a \in Seq(Values) /\ Len(a) = Len(s) 
  BY ExceptSeq
<1>2. \A i \in 1..Len(s) : a[i] = IF i = k THEN value ELSE s[i]
  BY ExceptSeq
<1>4. /\ DOMAIN Slots(s, n) = 1..n
      /\ \A i \in 1..n : Slots(s, n)[i] = IF i <= Len(s) THEN s[i] ELSE Raw
  BY SlotsMembers
<1>5. OnSlots(t, n)
  BY <1>4 DEF OnSlots
<1>6. \A i \in 1..n : t[i] = IF i = k THEN value ELSE Slots(s, n)[i]
  BY <1>4
<1> HIDE DEF t, a
<1>7. \A i \in 1..n : t[i] = IF i <= Len(a) THEN a[i] ELSE Raw
  BY <1>1, <1>2, <1>4, <1>6
<1>8. t = Slots(a, n)
  BY <1>1, <1>5, <1>7, SameSlots
<1> QED
  BY <1>8 DEF t, a, Put

LEMMA SlotsFilled ==
  ASSUME NEW s \in Seq(Values), NEW n \in Nat, Len(s) <= n, NEW value \in Values
  PROVE  /\ [i \in 1..Len(s) |-> value] \in Seq(Values)
         /\ Len([i \in 1..Len(s) |-> value]) = Len(s)
         /\ [i \in 1..Len(s) |-> value] \o SubSeq(Slots(s, n), Len(s) + 1, n)
              = Slots([i \in 1..Len(s) |-> value], n)
<1> DEFINE a == [i \in 1..Len(s) |-> value]
           r == SubSeq(Slots(s, n), Len(s) + 1, n)
           t == a \o r
<1>1. a \in Seq(Values) /\ Len(a) = Len(s) /\ \A i \in 1..Len(s) : a[i] = value
  <2>1. a \in [1..Len(s) -> Values]
    OBVIOUS
  <2> QED
    BY <2>1
<1>2. \A i \in 1..n : Slots(s, n)[i] = IF i <= Len(s) THEN s[i] ELSE Raw
  BY SlotsMembers
<1>3. /\ r \in Seq({Raw}) /\ Len(r) = n - Len(s)
      /\ \A i \in 1..(n - Len(s)) : r[i] = Raw
  <2>1. \A i \in (Len(s) + 1)..n : Slots(s, n)[i] = Raw
    BY <1>2
  <2>2. /\ r \in Seq({Raw})
        /\ Len(r) = IF Len(s) + 1 <= n THEN n - (Len(s) + 1) + 1 ELSE 0
        /\ \A i \in 1..(n - (Len(s) + 1) + 1) : r[i] = Slots(s, n)[Len(s) + 1 + i - 1]
    <3>1. Len(s) + 1 \in Int /\ n \in Int
      OBVIOUS
    <3>2. \A i \in (Len(s) + 1)..n : Slots(s, n)[i] \in {Raw}
      BY <2>1
    <3> QED
      BY <3>1, <3>2, SubSeqProperties
  <2> HIDE DEF r
  <2>3. Len(r) = n - Len(s)
    BY <2>2
  <2>4. ASSUME NEW i \in 1..(n - Len(s)) PROVE r[i] = Raw
    <3>1. i \in 1..(n - (Len(s) + 1) + 1) /\ Len(s) + 1 + i - 1 \in (Len(s) + 1)..n
      OBVIOUS
    <3> QED
      BY <2>1, <2>2, <3>1
  <2> QED
    BY <2>2, <2>3, <2>4
<1> HIDE DEF a, r
<1>4. Len(a) + Len(r) = n
  BY <1>1, <1>3
<1>5. /\ OnSlots(t, n)
      /\ \A i \in 1..n : t[i] = IF i <= Len(a) THEN a[i] ELSE r[i - Len(a)]
  BY <1>1, <1>3, <1>4, Joined
<1> HIDE DEF t
<1>6. \A i \in 1..n : t[i] = IF i <= Len(a) THEN a[i] ELSE Raw
  BY <1>1, <1>3, <1>5
<1>7. t = Slots(a, n)
  BY <1>1, <1>5, <1>6, SameSlots
<1> QED
  BY <1>1, <1>7 DEF t, a, r

LEMMA RemoveAtMembers ==
  ASSUME NEW s \in Seq(Values), NEW k \in 1..Len(s), NEW a, a = RemoveAt(s, k)
  PROVE  /\ a \in Seq(Values) /\ Len(a) = Len(s) - 1
         /\ \A i \in 1..(Len(s) - 1) : a[i] = IF i < k THEN s[i] ELSE s[i + 1]
<1> DEFINE p == SubSeq(s, 1, k - 1)
           q == SubSeq(s, k + 1, Len(s))
<1>1. p \in Seq(Values) /\ Len(p) = k - 1 /\ \A i \in 1..(k - 1) : p[i] = s[i]
  <2> DEFINE j == k - 1
  <2>1. j \in Nat /\ j <= Len(s) /\ p = SubSeq(s, 1, j)
    OBVIOUS
  <2> HIDE DEF j, p
  <2>2. p \in Seq(Values) /\ Len(p) = j /\ \A i \in 1..j : p[i] = s[i]
    BY <2>1, SubSeqOne
  <2> QED
    BY <2>2 DEF j
<1>2. q \in Seq(Values) /\ Len(q) = Len(s) - k /\ \A i \in 1..(Len(s) - k) : q[i] = s[k + i]
  <2> DEFINE j == k + 1
  <2>1. /\ j \in Int /\ Len(s) \in Int /\ q = SubSeq(s, j, Len(s)) /\ k \in Int
        /\ \A i \in j..Len(s) : s[i] \in Values
        /\ k <= Len(s)
    OBVIOUS
  <2> HIDE DEF j, q
  <2>2. /\ q \in Seq(Values) /\ Len(q) = IF j <= Len(s) THEN Len(s) - j + 1 ELSE 0
        /\ \A i \in 1..(Len(s) - j + 1) : q[i] = s[j + i - 1]
    BY <2>1, SubSeqProperties
  <2>3. Len(q) = Len(s) - k
    BY <2>1, <2>2 DEF j
  <2>4. ASSUME NEW i \in 1..(Len(s) - k) PROVE q[i] = s[k + i]
    <3>1. i \in 1..(Len(s) - j + 1) /\ j + i - 1 = k + i
      BY <2>1 DEF j
    <3> QED
      BY <2>2, <3>1
  <2> QED
    BY <2>2, <2>3, <2>4
<1>3. a = p \o q
  BY DEF RemoveAt
<1> HIDE DEF p, q
<1>4. /\ a \in Seq(Values) /\ Len(a) = Len(p) + Len(q)
      /\ \A i \in 1..(Len(p) + Len(q)) : a[i] = IF i <= Len(p) THEN p[i] ELSE q[i - Len(p)]
  <2>1. /\ p \o q \in Seq(Values) /\ Len(p \o q) = Len(p) + Len(q)
        /\ \A i \in 1..(Len(p) + Len(q)) :
             (p \o q)[i] = IF i <= Len(p) THEN p[i] ELSE q[i - Len(p)]
    BY <1>1, <1>2, ConcatProperties
  <2> QED
    BY <1>3, <2>1
<1>5. Len(a) = Len(s) - 1
  BY <1>1, <1>2, <1>4
<1>6. ASSUME NEW i \in 1..(Len(s) - 1) PROVE a[i] = IF i < k THEN s[i] ELSE s[i + 1]
  <2>1. a[i] = IF i <= k - 1 THEN p[i] ELSE q[i - (k - 1)]
    BY <1>1, <1>2, <1>4
  <2>2. CASE i < k
    BY <1>1, <2>1, <2>2
  <2>3. CASE ~(i < k)
    <3>1. i - (k - 1) \in 1..(Len(s) - k) /\ k + (i - (k - 1)) = i + 1
      BY <2>3
    <3>2. q[i - (k - 1)] = s[k + (i - (k - 1))]
      BY <1>2, <3>1
    <3> QED
      BY <2>1, <2>3, <3>1, <3>2
  <2> QED
    BY <2>2, <2>3
<1> QED
  BY <1>4, <1>5, <1>6

(* Copied from the place behind, every slot gets what the next one held.   *)
LEMMA MemcpyOnePlace ==
  ASSUME NEW slots, NEW n \in Nat, OnSlots(slots, n),
         NEW dest \in 1..n, NEW count \in Nat, NEW i \in 1..n
  PROVE  memcpy(slots, dest, dest + 1, count)[i] =
           IF i \in dest..(dest + count - 1) THEN slots[i + 1] ELSE slots[i]
<1>0. DOMAIN slots = 1..n
  BY DEF OnSlots
<1> DEFINE Body(f) ==
             [k \in DOMAIN slots |->
                IF k \notin dest..(dest + count - 1) THEN slots[k]
                ELSE IF dest + 1 + k - dest \in dest..(k - 1) THEN f[dest + 1 + k - dest]
                ELSE slots[dest + 1 + k - dest]]
           g == [k \in 1..n |-> IF k \in dest..(dest + count - 1) THEN slots[k + 1] ELSE slots[k]]
<1>1. ASSUME NEW f PROVE Body(f) = g
  <2>1. ASSUME NEW k \in 1..n
        PROVE  /\ dest + 1 + k - dest = k + 1
               /\ dest + 1 + k - dest \notin dest..(k - 1)
    OBVIOUS
  <2> QED
    BY <1>0, <2>1
<1>2. memcpy(slots, dest, dest + 1, count) = CHOOSE f : f = Body(f)
  BY DEF memcpy
<1> HIDE DEF Body
<1>3. (CHOOSE f : f = Body(f)) = g
  <2>1. g = Body(g)
    BY <1>1
  <2>2. PICK f : f = Body(f)
    BY <2>1
  <2>3. (CHOOSE h : h = Body(h)) = Body(CHOOSE h : h = Body(h))
    BY <2>1
  <2> QED
    BY <1>1, <2>3
<1> QED
  BY <1>2, <1>3

IsMemmoved(moved, slots, dest, src, count) == moved = memmove(slots, dest, src, count)

LEMMA MemmoveOnePlace ==
  ASSUME NEW slots, NEW n \in Nat, OnSlots(slots, n),
         NEW dest \in 1..n, NEW src, src = dest + 1, NEW count \in Nat,
         NEW moved, IsMemmoved(moved, slots, dest, src, count)
  PROVE  \A i \in 1..n : moved[i] =
           IF i \in dest..(dest + count - 1) THEN slots[i + 1] ELSE slots[i]
<1> SUFFICES ASSUME NEW i \in 1..n
             PROVE  memmove(slots, dest, dest + 1, count)[i] =
                      IF i \in dest..(dest + count - 1) THEN slots[i + 1] ELSE slots[i]
  BY DEF IsMemmoved
<1>1. CASE count = 0
  <2>1. memmove(slots, dest, dest + 1, count) = slots
    BY <1>1 DEF memmove
  <2>2. i \notin dest..(dest + count - 1)
    BY <1>1
  <2> QED
    BY <2>1, <2>2
<1>2. CASE count # 0
  <2>1. dest # dest + 1 /\ dest < dest + 1 /\ dest + count >= dest + 1
    BY <1>2
  <2>2. memmove(slots, dest, dest + 1, count) = memcpy(slots, dest, dest + 1, count)
    BY <1>2, <2>1 DEF memmove
  <2>3. memcpy(slots, dest, dest + 1, count)[i] =
          IF i \in dest..(dest + count - 1) THEN slots[i + 1] ELSE slots[i]
    BY MemcpyOnePlace
  <2> QED
    BY <2>2, <2>3, Zenon
<1> QED
  BY <1>1, <1>2

(* What removal of an element leaves in the slots.                         *)
LastEnded(moved, n, size) == [i \in 1..n |-> IF i = size THEN Raw ELSE moved[i]]

LEMMA SlotsMoved ==
  ASSUME NEW s \in Seq(Values), NEW n \in Nat, Len(s) <= n, NEW k \in 1..Len(s),
         NEW moved, moved = memmove(Slots(s, n), k, k + 1, Len(s) - k)
  PROVE  \A i \in 1..n :
           moved[i] = IF i \in k..(Len(s) - 1) THEN Slots(s, n)[i + 1] ELSE Slots(s, n)[i]
<1> DEFINE count == Len(s) - k
           slots == Slots(s, n)
           src == k + 1
<1>1. count \in Nat /\ k \in 1..n /\ k + count - 1 = Len(s) - 1
  OBVIOUS
<1>2. OnSlots(slots, n)
  BY SlotsMembers DEF OnSlots
<1>3. IsMemmoved(moved, slots, k, src, count) /\ src = k + 1
  BY DEF IsMemmoved
<1> HIDE DEF count, slots, src
<1>4. \A j \in 1..n :
        moved[j] = IF j \in k..(k + count - 1) THEN slots[j + 1] ELSE slots[j]
  BY <1>1, <1>2, <1>3, MemmoveOnePlace
<1>5. \A j \in 1..n :
        moved[j] = IF j \in k..(Len(s) - 1) THEN slots[j + 1] ELSE slots[j]
  BY <1>1, <1>4
<1> QED
  BY <1>5 DEF slots

LEMMA SlotsRemoved ==
  ASSUME NEW s \in Seq(Values), NEW n \in Nat, Len(s) <= n, NEW k \in 1..Len(s),
         NEW moved, moved = memmove(Slots(s, n), k, k + 1, Len(s) - k)
  PROVE  LastEnded(moved, n, Len(s)) = Slots(RemoveAt(s, k), n)
<1> DEFINE a == RemoveAt(s, k)
           t == [i \in 1..n |-> IF i = Len(s) THEN Raw ELSE moved[i]]
<1>1. /\ a \in Seq(Values) /\ Len(a) = Len(s) - 1
      /\ \A i \in 1..(Len(s) - 1) : a[i] = IF i < k THEN s[i] ELSE s[i + 1]
  <2>1. a = RemoveAt(s, k)
    OBVIOUS
  <2> HIDE DEF a
  <2> QED
    BY <2>1, RemoveAtMembers
<1>2. /\ DOMAIN Slots(s, n) = 1..n
      /\ \A i \in 1..n : Slots(s, n)[i] = IF i <= Len(s) THEN s[i] ELSE Raw
  BY SlotsMembers
<1>3. \A i \in 1..n :
        moved[i] = IF i \in k..(Len(s) - 1) THEN Slots(s, n)[i + 1] ELSE Slots(s, n)[i]
  <2> HIDE DEF a, t
  <2> QED
    BY SlotsMoved
<1>4. \A i \in 1..n : t[i] = IF i = Len(s) THEN Raw ELSE moved[i]
  OBVIOUS
<1>5. OnSlots(t, n)
  BY DEF OnSlots
<1> HIDE DEF a, t
<1>6. ASSUME NEW i \in 1..n PROVE t[i] = IF i <= Len(a) THEN a[i] ELSE Raw
  <2>1. CASE i < k
    BY <1>1, <1>2, <1>3, <1>4, <2>1
  <2>2. CASE k <= i /\ i < Len(s)
    <3>1. i + 1 \in 1..n /\ i + 1 <= Len(s) /\ i \in k..(Len(s) - 1) /\ i # Len(s)
      BY <2>2
    <3>2. t[i] = Slots(s, n)[i + 1]
      BY <1>3, <1>4, <3>1
    <3>3. Slots(s, n)[i + 1] = s[i + 1]
      BY <1>2, <3>1
    <3>4. i \in 1..(Len(s) - 1) /\ i <= Len(a) /\ ~(i < k)
      BY <1>1, <2>2
    <3>5. a[i] = s[i + 1]
      BY <1>1, <3>4
    <3> QED
      BY <3>2, <3>3, <3>4, <3>5
  <2>3. CASE i = Len(s)
    BY <1>1, <1>4, <2>3
  <2>4. CASE i > Len(s)
    BY <1>1, <1>2, <1>3, <1>4, <2>4
  <2> QED
    BY <2>1, <2>2, <2>3, <2>4
<1>7. t = Slots(a, n)
  BY <1>1, <1>5, <1>6, SameSlots
<1> QED
  BY <1>7 DEF t, a, LastEnded

-----------------------------------------------------------------------------
(* One vector changes.                                                     *)

(* The memory with other members of v and other storage.                   *)
Changed(m, v, u, h) ==
  [vectors |-> [m.vectors EXCEPT ![v] = u], heap |-> h,
   alive |-> m.alive - m.vectors[v].m_size + u.m_size]

(* What callers put in, with other elements in v.                          *)
Holding(e, v, s) == [e EXCEPT ![v] = s]

(* The storage of the others stays, and v's own is freed unless v keeps it.*)
OthersKept(m, v, u, h) ==
  /\ h = [b \in DOMAIN h |-> h[b]]
  /\ \A b \in DOMAIN m.heap \ {m.vectors[v].m_data} : b \in DOMAIN h /\ h[b] = m.heap[b]
  /\ DOMAIN h \subseteq (DOMAIN m.heap \ {m.vectors[v].m_data}) \cup ({u.m_data} \ {NULL})
  /\ u.m_data = NULL \/ u.m_data = m.vectors[v].m_data \/ u.m_data \notin DOMAIN m.heap

LEMMA OneChanges ==
  ASSUME NEW m, NEW e, Sound(m, e), NEW v \in Vectors, NEW u, NEW h, NEW s,
         Owns(u, h, s), OthersKept(m, v, u, h),
         NEW n, n = Changed(m, v, u, h), NEW f, f = Holding(e, v, s)
  PROVE  Sound(n, f)
<1>1. /\ n = [vectors |-> n.vectors, heap |-> n.heap, alive |-> n.alive]
      /\ n.vectors = [m.vectors EXCEPT ![v] = u] /\ n.heap = h
      /\ n.alive = m.alive - m.vectors[v].m_size + u.m_size
  BY DEF Changed
<1>2. /\ n.vectors = [w \in Vectors |-> n.vectors[w]] /\ n.vectors[v] = u
      /\ \A w \in Vectors \ {v} : n.vectors[w] = m.vectors[w]
  BY <1>1 DEF Sound
<1>3. /\ f = [w \in Vectors |-> f[w]] /\ f[v] = s
      /\ \A w \in Vectors \ {v} : f[w] = e[w]
  BY DEF Sound, Holding
<1>4. \A w \in Vectors : Owns(m.vectors[w], m.heap, e[w])
  BY DEF Sound
<1>5. Apart(m.vectors)
  BY DEF Sound
<1>6. n.heap = [b \in DOMAIN n.heap |-> n.heap[b]]
  BY <1>1 DEF OthersKept
<1>7. ASSUME NEW w \in Vectors \ {v}, m.vectors[w].m_data # NULL
      PROVE  /\ m.vectors[w].m_data \in DOMAIN m.heap
             /\ m.vectors[w].m_data # m.vectors[v].m_data
             /\ m.vectors[w].m_data # u.m_data
  <2>1. m.vectors[w].m_data \in DOMAIN m.heap
    BY <1>4, <1>7 DEF Owns
  <2>2. m.vectors[w].m_data # m.vectors[v].m_data
    BY <1>5, <1>7 DEF Apart
  <2> QED
    BY <1>7, <2>1, <2>2 DEF OthersKept
<1>8. \A w \in Vectors : Owns(n.vectors[w], n.heap, f[w])
  <2>1. ASSUME NEW w \in Vectors \ {v} PROVE Owns(n.vectors[w], n.heap, f[w])
    <3>1. Owns(m.vectors[w], m.heap, e[w])
      BY <1>4
    <3>2. m.vectors[w].m_data # NULL =>
            /\ m.vectors[w].m_data \in DOMAIN h
            /\ h[m.vectors[w].m_data] = m.heap[m.vectors[w].m_data]
      BY <1>7 DEF OthersKept
    <3>3. Owns(m.vectors[w], h, e[w])
      BY <3>1, <3>2 DEF Owns
    <3> QED
      BY <1>1, <1>2, <1>3, <3>3
  <2>2. Owns(n.vectors[v], n.heap, f[v])
    BY <1>1, <1>2, <1>3
  <2> QED
    BY <2>1, <2>2
<1>9. Apart(n.vectors)
  <2> SUFFICES ASSUME NEW x \in Vectors, NEW w \in Vectors, x # w, n.vectors[x].m_data # NULL
               PROVE  n.vectors[w].m_data # n.vectors[x].m_data
    BY DEF Apart
  <2>1. CASE x # v /\ w # v
    BY <1>2, <1>5, <2>1 DEF Apart
  <2>2. CASE x = v
    BY <1>2, <1>7, <2>2
  <2>3. CASE w = v
    BY <1>2, <1>7, <2>3
  <2> QED
    BY <2>1, <2>2, <2>3
<1>10. DOMAIN n.heap \subseteq {n.vectors[w].m_data : w \in Vectors} \ {NULL}
  <2> SUFFICES ASSUME NEW b \in DOMAIN h
               PROVE  b # NULL /\ \E w \in Vectors : b = n.vectors[w].m_data
    BY <1>1
  <2>1. CASE b \in DOMAIN m.heap \ {m.vectors[v].m_data}
    <3>1. PICK w \in Vectors : b = m.vectors[w].m_data
      BY <2>1 DEF Sound
    <3>2. b # NULL
      BY <2>1 DEF Sound
    <3>3. w # v
      BY <2>1, <3>1
    <3> QED
      BY <1>2, <3>1, <3>2, <3>3
  <2>2. CASE b \in {u.m_data} \ {NULL}
    BY <1>2, <2>2
  <2> QED
    BY <2>1, <2>2 DEF OthersKept
<1>11. IsFiniteSet(DOMAIN n.heap)
  <2>1. IsFiniteSet(DOMAIN m.heap)
    BY DEF Sound
  <2>2. IsFiniteSet(DOMAIN m.heap \cup {u.m_data})
    BY <2>1, FS_AddElement
  <2>3. DOMAIN n.heap \in SUBSET (DOMAIN m.heap \cup {u.m_data})
    BY <1>1 DEF OthersKept
  <2> QED
    BY <2>2, <2>3, FS_Subset
<1>12. IsFiniteSet(Objects(n.vectors)) /\ n.alive = Cardinality(Objects(n.vectors))
  <2>1. IsFiniteSet(Objects(m.vectors)) /\ m.alive = Cardinality(Objects(m.vectors))
    BY DEF Sound
  <2>2. m.vectors[v].m_size \in Nat /\ n.vectors[v].m_size \in Nat
    BY <1>2, <1>4 DEF Owns
  <2>3. \A w \in Vectors \ {v} : n.vectors[w].m_size = m.vectors[w].m_size
    BY <1>2
  <2>4. /\ IsFiniteSet(Objects(n.vectors))
        /\ Cardinality(Objects(n.vectors)) =
             Cardinality(Objects(m.vectors)) - m.vectors[v].m_size + n.vectors[v].m_size
    <3> DEFINE all == m.vectors
               new == n.vectors
    <3>1. /\ IsFiniteSet(Objects(all)) /\ all[v].m_size \in Nat /\ new[v].m_size \in Nat
          /\ \A w \in Vectors \ {v} : new[w].m_size = all[w].m_size
      BY <2>1, <2>2, <2>3
    <3> HIDE DEF all, new
    <3>2. /\ IsFiniteSet(Objects(new))
          /\ Cardinality(Objects(new)) = Cardinality(Objects(all)) - all[v].m_size + new[v].m_size
      BY <3>1, CountChange
    <3> QED
      BY <3>2 DEF all, new
  <2> QED
    BY <1>1, <1>2, <2>1, <2>4
<1> QED
  BY <1>1, <1>2, <1>3, <1>6, <1>8, <1>9, <1>10, <1>11, <1>12 DEF Sound

(* What a vector holds is in the first slots of its storage.               *)
LEMMA ContentsHeld ==
  ASSUME NEW m, NEW e, Sound(m, e), NEW v \in Vectors
  PROVE  Contents(m, v) = e[v]
<1> DEFINE u == m.vectors[v]
           s == e[v]
<1>1. Owns(u, m.heap, s)
  BY DEF Sound
<1> HIDE DEF s
<1>2. CASE u.m_data = NULL
  <2>1. s \in Seq(Values) /\ Len(s) = 0
    BY <1>1, <1>2 DEF Owns
  <2>2. s = <<>>
    BY <2>1
  <2> QED
    BY <1>2, <2>2 DEF Contents, s
<1>3. CASE u.m_data # NULL
  <2>1. /\ s \in Seq(Values) /\ u.m_size = Len(s) /\ u.m_capacity \in Nat
        /\ Len(s) <= u.m_capacity
        /\ m.heap[u.m_data] = Slots(s, u.m_capacity)
    BY <1>1, <1>3 DEF Owns
  <2>2. SubSeq(Slots(s, u.m_capacity), 1, Len(s)) = s
    BY <2>1, SlotsContents
  <2> QED
    BY <1>3, <2>1, <2>2 DEF Contents, s
<1> QED
  BY <1>2, <1>3

(* The shape of a memory and of what callers put in.                       *)
Whole(m, e) ==
  /\ m = [vectors |-> m.vectors, heap |-> m.heap, alive |-> m.alive]
  /\ m.vectors = [v \in Vectors |-> m.vectors[v]]
  /\ m.alive \in Int
  /\ e = [v \in Vectors |-> e[v]]

LEMMA SoundParts ==
  ASSUME NEW m, NEW e, Sound(m, e), NEW v \in Vectors
  PROVE  Whole(m, e) /\ Owns(m.vectors[v], m.heap, e[v])
<1>1. m.alive \in Int
  BY FS_CardinalityType DEF Sound
<1> QED
  BY <1>1 DEF Sound, Whole

LEMMA FreedMembers ==
  ASSUME NEW m, NEW v
  PROVE  /\ DOMAIN Freed(m, v) = DOMAIN m.heap \ {m.vectors[v].m_data}
         /\ \A b \in DOMAIN m.heap \ {m.vectors[v].m_data} : Freed(m, v)[b] = m.heap[b]
         /\ Freed(m, v) = [b \in DOMAIN Freed(m, v) |-> Freed(m, v)[b]]
BY DEF Freed

(* set_size gives a vector storage of its own with the elements it had.    *)
LEMMA ResizedSound ==
  ASSUME NEW m, NEW e, Sound(m, e), NEW v \in Vectors,
         NEW n \in Nat, m.vectors[v].m_size <= n,
         NEW r, r = Resized(m, v, n)
  PROVE  /\ Sound(r, e) /\ r.vectors[v].m_size = m.vectors[v].m_size
         /\ r.vectors[v].m_capacity = n /\ r.vectors[v].m_data # NULL
<1> DEFINE u == m.vectors[v]
           s == e[v]
           fresh == Fresh(m)
           moved == Contents(m, v) \o RawSlots(n - u.m_size)
           h == [b \in DOMAIN Freed(m, v) \cup {fresh} |->
                   IF b = fresh THEN moved ELSE Freed(m, v)[b]]
           w == [m_size |-> u.m_size, m_capacity |-> n, m_data |-> fresh]
<1>0. Whole(m, e) /\ Owns(m.vectors[v], m.heap, e[v])
  BY SoundParts
<1>1. /\ m = [vectors |-> m.vectors, heap |-> m.heap, alive |-> m.alive]
      /\ m.vectors = [x \in Vectors |-> m.vectors[x]]
      /\ u = [m_size |-> u.m_size, m_capacity |-> u.m_capacity, m_data |-> u.m_data]
      /\ m.alive \in Int /\ u.m_size \in Nat
      /\ e = [x \in Vectors |-> e[x]]
      /\ s \in Seq(Values) /\ u.m_size = Len(s)
  BY <1>0 DEF Whole, Owns
<1>2. fresh \in Nat /\ fresh # NULL /\ fresh \notin DOMAIN m.heap
  <2>1. IsFiniteSet(DOMAIN m.heap)
    BY DEF Sound
  <2> QED
    BY <2>1, FreshIsFree
<1>3. moved = Slots(s, n)
  <2>1. Contents(m, v) = s
    BY ContentsHeld
  <2>2. s \o RawSlots(n - Len(s)) = Slots(s, n)
    BY <1>1, SlotsPadded
  <2>3. moved = s \o RawSlots(n - Len(s))
    BY <1>1, <2>1, Zenon
  <2> QED
    BY <2>2, <2>3, Zenon
<1>4. r = [m EXCEPT !.heap = h, !.vectors[v].m_capacity = n, !.vectors[v].m_data = fresh]
  BY DEF Resized
<1> HIDE DEF fresh, moved
<1>5. /\ DOMAIN h = (DOMAIN m.heap \ {u.m_data}) \cup {fresh}
      /\ h = [b \in DOMAIN h |-> h[b]] /\ h[fresh] = moved
      /\ \A b \in DOMAIN m.heap \ {u.m_data} : h[b] = m.heap[b]
  <2> DEFINE kept == Freed(m, v)
             rest == DOMAIN m.heap \ {u.m_data}
  <2>1. DOMAIN kept = rest /\ \A b \in rest : kept[b] = m.heap[b]
    BY FreedMembers
  <2>2. fresh \notin rest
    BY <1>2
  <2>3. h = [b \in DOMAIN kept \cup {fresh} |-> IF b = fresh THEN moved ELSE kept[b]]
    OBVIOUS
  <2> HIDE DEF kept, rest, h
  <2>4. /\ DOMAIN h = rest \cup {fresh} /\ h = [b \in DOMAIN h |-> h[b]] /\ h[fresh] = moved
        /\ \A b \in rest : h[b] = kept[b]
    BY <2>1, <2>2, <2>3
  <2> QED
    BY <2>1, <2>4 DEF rest
<1> HIDE DEF h, s
<1>6. r = [vectors |-> [m.vectors EXCEPT ![v] = w], heap |-> h, alive |-> m.alive]
  <2>1. r = [vectors |-> r.vectors, heap |-> h, alive |-> m.alive]
    BY <1>1, <1>4
  <2>2. r.vectors = [x \in Vectors |-> IF x = v THEN [u EXCEPT !.m_capacity = n, !.m_data = fresh]
                                      ELSE m.vectors[x]]
    <3> DEFINE a == m.vectors
    <3>1. /\ a = [x \in Vectors |-> a[x]] /\ u = a[v] /\ m.vectors = a
          /\ m = [vectors |-> m.vectors, heap |-> m.heap, alive |-> m.alive]
      BY <1>1, <1>4
    <3> HIDE DEF a, u
    <3>2. [m EXCEPT !.heap = h, !.vectors[v].m_capacity = n, !.vectors[v].m_data = fresh].vectors
            = [x \in Vectors |-> IF x = v THEN [u EXCEPT !.m_capacity = n, !.m_data = fresh]
                                 ELSE a[x]]
      BY <3>1
    <3> QED
      BY <1>4, <3>2, Zenon DEF a
  <2>3. [u EXCEPT !.m_capacity = n, !.m_data = fresh] = w
    <3>1. u = [m_size |-> u.m_size, m_capacity |-> u.m_capacity, m_data |-> u.m_data]
      BY <1>1
    <3>2. w = [m_size |-> u.m_size, m_capacity |-> n, m_data |-> fresh]
      OBVIOUS
    <3> DEFINE t == [u EXCEPT !.m_capacity = n]
    <3> HIDE DEF u, w
    <3>3. t = [m_size |-> u.m_size, m_capacity |-> n, m_data |-> u.m_data]
      BY <3>1
    <3>4. [u EXCEPT !.m_capacity = n, !.m_data = fresh] = [t EXCEPT !.m_data = fresh]
      OBVIOUS
    <3> HIDE DEF t
    <3>5. [t EXCEPT !.m_data = fresh] = [m_size |-> u.m_size, m_capacity |-> n, m_data |-> fresh]
      BY <3>3
    <3> QED
      BY <3>2, <3>4, <3>5, Zenon
  <2>4. [m.vectors EXCEPT ![v] = w] = [x \in Vectors |-> IF x = v THEN w ELSE m.vectors[x]]
    BY <1>1
  <2> QED
    BY <2>1, <2>2, <2>3, <2>4
<1>7. w.m_size = u.m_size /\ w.m_capacity = n /\ w.m_data = fresh
  OBVIOUS
<1>8. Owns(w, h, s)
  <2>1. w \in [m_size : Nat, m_capacity : Int, m_data : Nat]
    BY <1>1, <1>2
  <2>2. fresh \in DOMAIN h /\ h[fresh] = Slots(s, n)
    BY <1>3, <1>5
  <2> HIDE DEF w
  <2> QED
    BY <1>1, <1>2, <1>7, <2>1, <2>2 DEF Owns
<1> HIDE DEF w
<1>9. OthersKept(m, v, w, h)
  BY <1>2, <1>5, <1>7 DEF OthersKept
<1>10. r = Changed(m, v, w, h)
  <2>1. m.alive - m.vectors[v].m_size + w.m_size = m.alive
    BY <1>1, <1>7
  <2> QED
    BY <1>6, <2>1 DEF Changed
<1>11. Holding(e, v, s) = e
  BY <1>1 DEF s, Holding
<1>12. Sound(r, e)
  BY <1>8, <1>9, <1>10, <1>11, OneChanges
<1>13. r.vectors[v] = w
  BY <1>1, <1>6
<1> QED
  BY <1>2, <1>7, <1>12, <1>13

(* The memory with the elements a in v's slots.                            *)
Written(m, v, a) ==
  [vectors |-> [m.vectors EXCEPT ![v].m_size = Len(a)],
   heap |-> [m.heap EXCEPT ![m.vectors[v].m_data] = Slots(a, m.vectors[v].m_capacity)],
   alive |-> m.alive - m.vectors[v].m_size + Len(a)]

LEMMA WrittenSound ==
  ASSUME NEW m, NEW e, Sound(m, e), NEW v \in Vectors, m.vectors[v].m_data # NULL,
         NEW a \in Seq(Values), Len(a) <= m.vectors[v].m_capacity,
         NEW f, f = Holding(e, v, a)
  PROVE  Sound(Written(m, v, a), f)
<1> DEFINE u == m.vectors[v]
           h == [m.heap EXCEPT ![u.m_data] = Slots(a, u.m_capacity)]
           w == [m_size |-> Len(a), m_capacity |-> u.m_capacity, m_data |-> u.m_data]
           r == Written(m, v, a)
<1>0. Whole(m, e) /\ Owns(m.vectors[v], m.heap, e[v])
  BY SoundParts
<1>1. /\ m.vectors = [x \in Vectors |-> m.vectors[x]]
      /\ u = [m_size |-> u.m_size, m_capacity |-> u.m_capacity, m_data |-> u.m_data]
      /\ Owns(u, m.heap, e[v])
      /\ u.m_capacity \in Int /\ u.m_data \in Nat
  BY <1>0 DEF Whole, Owns
<1>2. u.m_data \in DOMAIN m.heap
  BY <1>1 DEF Owns
<1>3. /\ DOMAIN h = DOMAIN m.heap
      /\ h = [b \in DOMAIN h |-> h[b]]
      /\ \A b \in DOMAIN m.heap \ {u.m_data} : h[b] = m.heap[b]
      /\ h[u.m_data] = Slots(a, u.m_capacity)
  <2>1. m.heap = [b \in DOMAIN m.heap |-> m.heap[b]]
    BY DEF Sound
  <2> QED
    BY <1>2, <2>1
<1>4. r = [vectors |-> [m.vectors EXCEPT ![v] = w], heap |-> h,
           alive |-> m.alive - u.m_size + Len(a)]
  <2>1. r = [vectors |-> [m.vectors EXCEPT ![v].m_size = Len(a)], heap |-> h,
             alive |-> m.alive - u.m_size + Len(a)]
    BY DEF Written
  <2>2. [m.vectors EXCEPT ![v].m_size = Len(a)] = [m.vectors EXCEPT ![v] = [u EXCEPT !.m_size = Len(a)]]
    BY <1>1
  <2>3. [u EXCEPT !.m_size = Len(a)] = w
    <3>1. u = [m_size |-> u.m_size, m_capacity |-> u.m_capacity, m_data |-> u.m_data]
      BY <1>1
    <3> HIDE DEF u
    <3> QED
      BY <3>1
  <2> HIDE DEF w, u, h, r
  <2> QED
    BY <2>1, <2>2, <2>3
<1> HIDE DEF h, r
<1>5. w.m_size = Len(a) /\ w.m_capacity = u.m_capacity /\ w.m_data = u.m_data
  OBVIOUS
<1>6. Owns(w, h, a)
  <2>1. w \in [m_size : Nat, m_capacity : Int, m_data : Nat]
    BY <1>1
  <2> HIDE DEF w
  <2> QED
    BY <1>1, <1>2, <1>3, <1>5, <2>1 DEF Owns
<1> HIDE DEF w
<1>7. OthersKept(m, v, w, h)
  BY <1>2, <1>3, <1>5 DEF OthersKept
<1>8. r = Changed(m, v, w, h)
  BY <1>4, <1>5 DEF Changed
<1>9. Sound(r, f)
  <2> HIDE DEF u
  <2> QED
    BY <1>6, <1>7, <1>8, OneChanges
<1> QED
  BY <1>9 DEF r

(* A push grows a full vector first.                                       *)
LEMMA PushedSound ==
  ASSUME NEW m, NEW e, Sound(m, e), NEW v \in Vectors, NEW value \in Values,
         NEW r, r = Pushed(m, v, value), NEW f, f = Holding(e, v, Append(e[v], value))
  PROVE  Sound(r, f)
<1> DEFINE size == m.vectors[v].m_size
           g == IF size + 1 > m.vectors[v].m_capacity THEN Grown(m, v) ELSE m
<1>1. /\ Sound(g, e) /\ g.vectors[v].m_size = size
      /\ g.vectors[v].m_data # NULL /\ size + 1 <= g.vectors[v].m_capacity
  <2>1. /\ size \in Nat /\ m.vectors[v].m_capacity \in Int
        /\ Owns(m.vectors[v], m.heap, e[v])
    <3>1. Owns(m.vectors[v], m.heap, e[v])
      BY SoundParts
    <3> QED
      BY <3>1 DEF Owns
  <2>2. CASE size + 1 > m.vectors[v].m_capacity
    <3> DEFINE n == AtLeastOne(2 * size)
    <3>1. n \in Nat /\ size + 1 <= n
      BY <2>1 DEF AtLeastOne
    <3>2. g = Resized(m, v, n)
      BY <2>2 DEF Grown
    <3> HIDE DEF n, g
    <3>3. size <= n
      BY <2>1, <3>1
    <3>4. /\ Sound(g, e) /\ g.vectors[v].m_size = size
          /\ g.vectors[v].m_capacity = n /\ g.vectors[v].m_data # NULL
      BY <3>1, <3>2, <3>3, ResizedSound
    <3> QED
      BY <3>1, <3>4
  <2>3. CASE ~(size + 1 > m.vectors[v].m_capacity)
    <3>1. g = m
      BY <2>3
    <3>2. size + 1 <= m.vectors[v].m_capacity
      BY <2>1, <2>3
    <3>3. m.vectors[v].m_data # NULL
      BY <2>1, <3>2 DEF Owns
    <3> QED
      BY <3>1, <3>2, <3>3
  <2> QED
    BY <2>2, <2>3
<1>2. r = [g EXCEPT !.heap[g.vectors[v].m_data][size + 1] = value,
                    !.vectors[v].m_size = @ + 1, !.alive = @ + 1]
  BY DEF Pushed
<1> HIDE DEF g, size
<1> DEFINE u == g.vectors[v]
           s == e[v]
           a == Append(s, value)
<1>3. /\ g = [vectors |-> g.vectors, heap |-> g.heap, alive |-> g.alive]
      /\ g.vectors = [x \in Vectors |-> g.vectors[x]]
      /\ g.alive \in Int /\ size \in Nat /\ u.m_size = size
      /\ Owns(u, g.heap, s)
      /\ s \in Seq(Values) /\ size = Len(s) /\ u.m_capacity \in Int
  <2>1. Whole(g, e) /\ Owns(g.vectors[v], g.heap, e[v])
    BY <1>1, SoundParts
  <2> QED
    BY <1>1, <2>1 DEF Whole, Owns
<1>4. /\ u.m_data \in DOMAIN g.heap /\ g.heap[u.m_data] = Slots(s, u.m_capacity)
      /\ u.m_capacity \in Nat /\ Len(s) < u.m_capacity
  BY <1>1, <1>3 DEF Owns
<1>5. a \in Seq(Values) /\ Len(a) = size + 1
  BY <1>3
<1>6. [g.heap[u.m_data] EXCEPT ![size + 1] = value] = Slots(a, u.m_capacity)
  BY <1>3, <1>4, SlotsPushed
<1>7. r = Written(g, v, a)
  <2>1. /\ r = [vectors |-> r.vectors, heap |-> r.heap, alive |-> r.alive]
        /\ r.vectors = [g.vectors EXCEPT ![v].m_size = size + 1]
        /\ r.heap = [g.heap EXCEPT ![u.m_data] = [g.heap[u.m_data] EXCEPT ![size + 1] = value]]
        /\ r.alive = g.alive + 1
    BY <1>2, <1>3, <1>4
  <2>2. g.alive - u.m_size + Len(a) = g.alive + 1
    BY <1>3, <1>5
  <2> HIDE DEF a
  <2> QED
    BY <1>5, <1>6, <2>1, <2>2 DEF Written
<1> HIDE DEF a
<1>8. f = Holding(e, v, a)
  BY DEF a
<1>9. Len(a) <= g.vectors[v].m_capacity
  BY <1>1, <1>5
<1> HIDE DEF u, s
<1> QED
  BY <1>1, <1>5, <1>7, <1>8, <1>9, WrittenSound

(* pop ends the last object.                                               *)
LEMMA PoppedSound ==
  ASSUME NEW m, NEW e, Sound(m, e), NEW v \in Vectors, m.vectors[v].m_size > 0,
         NEW r, r = Popped(m, v),
         NEW f, f = Holding(e, v, SubSeq(e[v], 1, Len(e[v]) - 1))
  PROVE  Sound(r, f) /\ r.vectors[v].m_size = m.vectors[v].m_size - 1
<1> DEFINE u == m.vectors[v]
           s == e[v]
           a == SubSeq(s, 1, Len(s) - 1)
<1>0. Whole(m, e) /\ Owns(m.vectors[v], m.heap, e[v])
  BY SoundParts
<1>1. /\ m = [vectors |-> m.vectors, heap |-> m.heap, alive |-> m.alive]
      /\ m.vectors = [x \in Vectors |-> m.vectors[x]]
      /\ m.alive \in Int
      /\ u = [m_size |-> u.m_size, m_capacity |-> u.m_capacity, m_data |-> u.m_data]
  BY <1>0 DEF Whole, Owns
<1>2. /\ Owns(u, m.heap, s) /\ s \in Seq(Values) /\ u.m_size = Len(s)
      /\ u.m_capacity \in Int
  BY <1>0 DEF Whole, Owns
<1>3. /\ u.m_data \in DOMAIN m.heap /\ m.heap[u.m_data] = Slots(s, u.m_capacity)
      /\ u.m_capacity \in Nat /\ Len(s) <= u.m_capacity /\ Len(s) > 0 /\ u.m_data # NULL
  BY <1>2 DEF Owns
<1>4. a \in Seq(Values) /\ Len(a) = Len(s) - 1
  <2> DEFINE k == Len(s) - 1
  <2>1. a = SubSeq(s, 1, k) /\ k \in Nat /\ k <= Len(s)
    BY <1>2, <1>3
  <2> HIDE DEF a, k
  <2>2. a \in Seq(Values) /\ Len(a) = k
    BY <1>2, <2>1, SubSeqOne
  <2> QED
    BY <2>2 DEF k
<1>5. [m.heap[u.m_data] EXCEPT ![u.m_size] = Raw] = Slots(a, u.m_capacity)
  BY <1>2, <1>3, SlotsPopped
<1>6. /\ r = [vectors |-> r.vectors, heap |-> r.heap, alive |-> r.alive]
      /\ r.vectors = [m.vectors EXCEPT ![v].m_size = u.m_size - 1]
      /\ r.heap = [m.heap EXCEPT ![u.m_data] = [m.heap[u.m_data] EXCEPT ![u.m_size] = Raw]]
      /\ r.alive = m.alive - 1
  BY <1>1, <1>3 DEF Popped
<1> HIDE DEF a
<1>7. r = Written(m, v, a)
  <2>1. m.alive - u.m_size + Len(a) = m.alive - 1 /\ Len(a) = u.m_size - 1
    BY <1>1, <1>2, <1>4
  <2> QED
    BY <1>5, <1>6, <2>1 DEF Written
<1>8. f = Holding(e, v, a)
  BY DEF a
<1>9. Len(a) <= m.vectors[v].m_capacity
  BY <1>3, <1>4
<1>10. r.vectors[v].m_size = m.vectors[v].m_size - 1
  BY <1>1, <1>6
<1> HIDE DEF u, s
<1>11. Sound(r, f)
  <2>1. Sound(Written(m, v, a), f)
    BY <1>3, <1>4, <1>8, <1>9, WrittenSound DEF u
  <2> QED
    BY <1>7, <2>1, Zenon
<1> QED
  BY <1>10, <1>11

(* An element is assigned in its slot.                                     *)
LEMMA AssignedSound ==
  ASSUME NEW m, NEW e, Sound(m, e), NEW v \in Vectors, NEW value \in Values,
         NEW k \in 1..m.vectors[v].m_size,
         NEW r, r = [m EXCEPT !.heap[m.vectors[v].m_data][k] = value],
         NEW f, f = Holding(e, v, [e[v] EXCEPT ![k] = value])
  PROVE  Sound(r, f)
<1> DEFINE u == m.vectors[v]
           s == e[v]
           a == [s EXCEPT ![k] = value]
<1>0. Whole(m, e) /\ Owns(m.vectors[v], m.heap, e[v])
  BY SoundParts
<1>1. /\ m = [vectors |-> m.vectors, heap |-> m.heap, alive |-> m.alive]
      /\ m.vectors = [x \in Vectors |-> m.vectors[x]]
      /\ m.alive \in Int
      /\ u = [m_size |-> u.m_size, m_capacity |-> u.m_capacity, m_data |-> u.m_data]
  BY <1>0 DEF Whole, Owns
<1>2. /\ Owns(u, m.heap, s) /\ s \in Seq(Values) /\ u.m_size = Len(s)
      /\ u.m_capacity \in Int /\ k \in 1..Len(s)
  BY <1>0 DEF Whole, Owns
<1>3. /\ u.m_data \in DOMAIN m.heap /\ m.heap[u.m_data] = Slots(s, u.m_capacity)
      /\ u.m_capacity \in Nat /\ Len(s) <= u.m_capacity /\ u.m_data # NULL
  BY <1>2 DEF Owns
<1>4. a \in Seq(Values) /\ Len(a) = Len(s)
  BY <1>2, ExceptSeq
<1>5. [m.heap[u.m_data] EXCEPT ![k] = value] = Slots(a, u.m_capacity)
  <2>1. Put(Slots(s, u.m_capacity), k, value) = Slots(Put(s, k, value), u.m_capacity)
    BY <1>2, <1>3, SlotsAssigned
  <2> QED
    BY <1>3, <2>1 DEF Put
<1>6. /\ r = [vectors |-> m.vectors, heap |-> r.heap, alive |-> m.alive]
      /\ r.heap = [m.heap EXCEPT ![u.m_data] = [m.heap[u.m_data] EXCEPT ![k] = value]]
  BY <1>1, <1>3
<1>7. [m.vectors EXCEPT ![v].m_size = Len(s)] = m.vectors
  BY <1>1, <1>2
<1> HIDE DEF a
<1>8. r = Written(m, v, a)
  <2>1. m.alive - u.m_size + Len(a) = m.alive
    BY <1>1, <1>2, <1>4
  <2> QED
    BY <1>4, <1>5, <1>6, <1>7, <2>1 DEF Written
<1>9. f = Holding(e, v, a)
  BY DEF a
<1>10. Len(a) <= m.vectors[v].m_capacity
  BY <1>3, <1>4
<1> HIDE DEF u, s
<1>11. Sound(Written(m, v, a), f)
  BY <1>3, <1>4, <1>9, <1>10, WrittenSound DEF u
<1> QED
  BY <1>8, <1>11, Zenon

(* Of a trivially copyable type an element is removed by one memmove.      *)
LEMMA RemovedSound ==
  ASSUME NEW m, NEW e, Sound(m, e), NEW v \in Vectors, trivially_copyable = TRUE,
         NEW k \in 1..m.vectors[v].m_size,
         NEW r, r = Removed(m, v, k),
         NEW f, f = Holding(e, v, RemoveAt(e[v], k))
  PROVE  Sound(r, f)
<1> DEFINE u == m.vectors[v]
           s == e[v]
           a == RemoveAt(s, k)
           moved == memmove(m.heap[u.m_data], k, k + 1, u.m_size - k)
<1>0. Whole(m, e) /\ Owns(m.vectors[v], m.heap, e[v])
  BY SoundParts
<1>1. /\ m = [vectors |-> m.vectors, heap |-> m.heap, alive |-> m.alive]
      /\ m.vectors = [x \in Vectors |-> m.vectors[x]]
      /\ m.alive \in Int
      /\ u = [m_size |-> u.m_size, m_capacity |-> u.m_capacity, m_data |-> u.m_data]
  BY <1>0 DEF Whole, Owns
<1>2. /\ Owns(u, m.heap, s) /\ s \in Seq(Values) /\ u.m_size = Len(s)
      /\ u.m_capacity \in Int /\ k \in 1..Len(s)
  BY <1>0 DEF Whole, Owns
<1>3. /\ u.m_data \in DOMAIN m.heap /\ m.heap[u.m_data] = Slots(s, u.m_capacity)
      /\ u.m_capacity \in Nat /\ Len(s) <= u.m_capacity /\ u.m_data # NULL
  BY <1>2 DEF Owns
<1>4. a \in Seq(Values) /\ Len(a) = Len(s) - 1
  <2>1. a = RemoveAt(s, k)
    OBVIOUS
  <2> HIDE DEF a, s
  <2> QED
    BY <1>2, <2>1, RemoveAtMembers
<1>5. [i \in 1..u.m_capacity |-> IF i = u.m_size THEN Raw ELSE moved[i]] = Slots(a, u.m_capacity)
  <2> DEFINE n == u.m_capacity
  <2>1. moved = memmove(Slots(s, n), k, k + 1, Len(s) - k)
    BY <1>2, <1>3
  <2> HIDE DEF n, moved, s
  <2>2. LastEnded(moved, n, Len(s)) = Slots(RemoveAt(s, k), n)
    BY <1>2, <1>3, <2>1, SlotsRemoved DEF n
  <2> QED
    BY <1>2, <2>2 DEF n, LastEnded
<1>6. /\ r = [vectors |-> r.vectors, heap |-> r.heap, alive |-> r.alive]
      /\ r.vectors = [m.vectors EXCEPT ![v].m_size = u.m_size - 1]
      /\ r.heap = [m.heap EXCEPT ![u.m_data] =
                     [i \in 1..u.m_capacity |-> IF i = u.m_size THEN Raw ELSE moved[i]]]
      /\ r.alive = m.alive - 1
  BY <1>1, <1>3 DEF Removed
<1> HIDE DEF a
<1>7. r = Written(m, v, a)
  <2>1. m.alive - u.m_size + Len(a) = m.alive - 1 /\ Len(a) = u.m_size - 1
    BY <1>1, <1>2, <1>4
  <2> HIDE DEF moved
  <2> QED
    BY <1>5, <1>6, <2>1 DEF Written
<1>8. f = Holding(e, v, a)
  BY DEF a
<1>9. Len(a) <= m.vectors[v].m_capacity
  BY <1>3, <1>4
<1> HIDE DEF u, s
<1>10. Sound(Written(m, v, a), f)
  BY <1>3, <1>4, <1>8, <1>9, WrittenSound DEF u
<1> QED
  BY <1>7, <1>10, Zenon

LEMMA AtLeastNat ==
  ASSUME NEW j \in Nat, NEW k \in Int, j <= k
  PROVE  k \in Nat
OBVIOUS

LEMMA LessAndMore ==
  ASSUME NEW i \in Int, NEW k \in Nat
  PROVE  i - k + k = i
OBVIOUS

AllOf(n, value) == [i \in 1..n |-> value]

(* The first half of fill: all elements are assigned.                      *)
LEMMA SetSound ==
  ASSUME NEW m, NEW e, Sound(m, e), NEW v \in Vectors, NEW value \in Values,
         m.vectors[v].m_size # 0,
         NEW slots, slots = m.heap[m.vectors[v].m_data],
         NEW r, r = [m EXCEPT !.heap[m.vectors[v].m_data] =
                       AllOf(m.vectors[v].m_size, value)
                         \o SubSeq(slots, m.vectors[v].m_size + 1, Len(slots))],
         NEW f, f = Holding(e, v, AllOf(Len(e[v]), value))
  PROVE  Sound(r, f)
<1> DEFINE u == m.vectors[v]
           s == e[v]
           a == AllOf(Len(s), value)
<1>0. Whole(m, e) /\ Owns(m.vectors[v], m.heap, e[v])
  BY SoundParts
<1>1. /\ m = [vectors |-> m.vectors, heap |-> m.heap, alive |-> m.alive]
      /\ m.vectors = [x \in Vectors |-> m.vectors[x]]
      /\ m.alive \in Int
      /\ u = [m_size |-> u.m_size, m_capacity |-> u.m_capacity, m_data |-> u.m_data]
  BY <1>0 DEF Whole, Owns
<1>2. /\ s \in Seq(Values) /\ u.m_size = Len(s) /\ u.m_capacity \in Int
      /\ u.m_size \in Nat /\ Len(s) \in Nat
  BY <1>0 DEF Owns
<1>3. /\ u.m_data \in DOMAIN m.heap /\ m.heap[u.m_data] = Slots(s, u.m_capacity)
      /\ u.m_capacity \in Nat /\ Len(s) <= u.m_capacity /\ u.m_data # NULL
  <2>1. u.m_data # NULL
    BY <1>0 DEF Owns
  <2>2. /\ u.m_data \in DOMAIN m.heap /\ m.heap[u.m_data] = Slots(s, u.m_capacity)
        /\ u.m_size <= u.m_capacity
    BY <1>0, <2>1 DEF Owns
  <2>4. u.m_capacity \in Nat
    BY <1>2, <2>2, AtLeastNat
  <2>5. Len(s) <= u.m_capacity
    BY <1>2, <2>2, Zenon
  <2> QED
    BY <2>1, <2>2, <2>4, <2>5, Zenon
<1>4. /\ a \in Seq(Values) /\ Len(a) = Len(s)
      /\ a \o SubSeq(Slots(s, u.m_capacity), Len(s) + 1, u.m_capacity) = Slots(a, u.m_capacity)
  BY <1>2, <1>3, SlotsFilled DEF AllOf
<1>5. Len(slots) = u.m_capacity /\ slots = Slots(s, u.m_capacity)
  <2>1. slots = Slots(s, u.m_capacity)
    BY <1>3
  <2> HIDE DEF u, s
  <2>2. Len(Slots(s, u.m_capacity)) = u.m_capacity
    BY <1>2, <1>3, SlotsMembers
  <2> QED
    BY <2>1, <2>2
<1>6. /\ r = [vectors |-> m.vectors, heap |-> r.heap, alive |-> m.alive]
      /\ r.heap = [m.heap EXCEPT ![u.m_data] =
                     a \o SubSeq(Slots(s, u.m_capacity), Len(s) + 1, u.m_capacity)]
  <2> DEFINE t == AllOf(m.vectors[v].m_size, value)
                    \o SubSeq(slots, m.vectors[v].m_size + 1, Len(slots))
  <2>1. r = [m EXCEPT !.heap[m.vectors[v].m_data] = t]
    OBVIOUS
  <2>2. t = a \o SubSeq(Slots(s, u.m_capacity), Len(s) + 1, u.m_capacity)
    BY <1>2, <1>5
  <2> HIDE DEF t, a
  <2>3. /\ r = [vectors |-> m.vectors, heap |-> r.heap, alive |-> m.alive]
        /\ r.heap = [m.heap EXCEPT ![u.m_data] = t]
    BY <1>1, <2>1
  <2> QED
    BY <2>2, <2>3
<1>7. [m.vectors EXCEPT ![v].m_size = Len(s)] = m.vectors
  BY <1>1, <1>2
<1> HIDE DEF a
<1>8. r = Written(m, v, a)
  <2>1. m.alive - u.m_size + Len(a) = m.alive
    <3>1. Len(a) = u.m_size /\ u.m_size \in Nat /\ m.alive \in Int
      BY <1>1, <1>2, <1>4, Zenon
    <3>2. \A i \in Int, k \in Nat : i - k + k = i
      BY LessAndMore
    <3>3. m.alive - u.m_size + u.m_size = m.alive
      BY <3>1, <3>2, Zenon
    <3> QED
      BY <3>1, <3>3, Zenon
  <2>2. r.heap = [m.heap EXCEPT ![u.m_data] = Slots(a, u.m_capacity)]
    BY <1>4, <1>6, Zenon
  <2>3. Len(a) = Len(s)
    BY <1>4
  <2> DEFINE all == [m.vectors EXCEPT ![v].m_size = Len(a)]
             h == [m.heap EXCEPT ![u.m_data] = Slots(a, u.m_capacity)]
             n == m.alive - u.m_size + Len(a)
  <2>4. Written(m, v, a) = [vectors |-> all, heap |-> h, alive |-> n]
    BY Zenon DEF Written
  <2>5. all = m.vectors
    BY <1>7, <2>3, Zenon
  <2>6. h = r.heap /\ n = m.alive
    BY <2>1, <2>2, Zenon
  <2> HIDE DEF all, h, n
  <2> QED
    BY <1>6, <2>4, <2>5, <2>6, Zenon
<1>9. f = Holding(e, v, a)
  BY DEF a
<1>10. Len(a) <= m.vectors[v].m_capacity
  BY <1>3, <1>4
<1> HIDE DEF u, s
<1>11. Sound(Written(m, v, a), f)
  BY <1>3, <1>4, <1>9, <1>10, WrittenSound DEF u
<1> QED
  BY <1>8, <1>11, Zenon

(* A vector that frees its slots without a look at them.                   *)
Released(m, v, u) == Changed(m, v, u, Freed(m, v))

LEMMA ReleasedSound ==
  ASSUME NEW m, NEW e, Sound(m, e), NEW v \in Vectors, NEW u \in {Gone, Empty},
         NEW f, f = Holding(e, v, <<>>)
  PROVE  Sound(Released(m, v, u), f)
<1> DEFINE h == Freed(m, v)
           r == Released(m, v, u)
<1>1. u.m_data = NULL /\ u.m_size = 0 /\ u.m_capacity <= 0
  BY DEF Gone, Empty
<1>2. u \in [m_size : Nat, m_capacity : Int, m_data : Nat]
  BY DEF Gone, Empty, NULL
<1>3. <<>> \in Seq(Values) /\ Len(<<>>) = 0
  OBVIOUS
<1>4. Owns(u, h, <<>>)
  BY <1>1, <1>2, <1>3 DEF Owns
<1>5. OthersKept(m, v, u, h)
  <2>1. /\ DOMAIN h = DOMAIN m.heap \ {m.vectors[v].m_data}
        /\ \A b \in DOMAIN m.heap \ {m.vectors[v].m_data} : h[b] = m.heap[b]
        /\ h = [b \in DOMAIN h |-> h[b]]
    BY FreedMembers, Zenon
  <2> HIDE DEF h
  <2> QED
    BY <1>1, <2>1 DEF OthersKept
<1>6. r = Changed(m, v, u, h)
  BY DEF Released
<1> HIDE DEF h, r
<1>7. Sound(r, f)
  BY <1>4, <1>5, <1>6, OneChanges
<1> QED
  BY <1>7 DEF r

LEMMA NothingHeld ==
  ASSUME NEW m, NEW e, Sound(m, e), NEW v \in Vectors, m.vectors[v].m_size = 0
  PROVE  e[v] = <<>> /\ Holding(e, v, <<>>) = e
<1>1. Whole(m, e) /\ Owns(m.vectors[v], m.heap, e[v])
  BY SoundParts
<1>2. e[v] \in Seq(Values) /\ Len(e[v]) = 0 /\ e = [w \in Vectors |-> e[w]]
  BY <1>1 DEF Whole, Owns
<1>3. e[v] = <<>>
  BY <1>2
<1> QED
  BY <1>2, <1>3 DEF Holding

(* A vector without storage begins.                                        *)
LEMMA BegunSound ==
  ASSUME NEW m, NEW e, Sound(m, e), NEW v \in Vectors, m.vectors[v] = Gone,
         NEW r, r = [m EXCEPT !.vectors[v] = Empty]
  PROVE  Sound(r, e) /\ r.vectors = [m.vectors EXCEPT ![v] = Empty] /\ r.heap = m.heap
<1>1. Whole(m, e)
  BY SoundParts
<1>2. NULL \notin DOMAIN m.heap /\ m.heap = [b \in DOMAIN m.heap |-> m.heap[b]]
  BY DEF Sound
<1>3. m.vectors[v].m_data = NULL /\ m.vectors[v].m_size = 0 /\ Empty.m_size = 0
  BY DEF Gone, Empty
<1>4. Freed(m, v) = m.heap
  <2>1. DOMAIN m.heap \ {m.vectors[v].m_data} = DOMAIN m.heap
    BY <1>2, <1>3
  <2> QED
    BY <1>2, <2>1 DEF Freed
<1>5. r = [vectors |-> [m.vectors EXCEPT ![v] = Empty], heap |-> m.heap, alive |-> m.alive]
  BY <1>1 DEF Whole
<1>6. r = Released(m, v, Empty)
  <2>1. m.alive - m.vectors[v].m_size + Empty.m_size = m.alive
    BY <1>1, <1>3 DEF Whole
  <2> QED
    BY <1>4, <1>5, <2>1 DEF Released, Changed
<1>7. Holding(e, v, <<>>) = e
  BY <1>3, NothingHeld
<1>8. Sound(Released(m, v, Empty), e)
  BY <1>7, ReleasedSound
<1> QED
  BY <1>5, <1>6, <1>8

(* Two vectors exchange everything.                                        *)
Exchanged(all, v, w) == [all EXCEPT ![v] = all[w], ![w] = all[v]]

Exchange(m, v, w) ==
  [vectors |-> Exchanged(m.vectors, v, w), heap |-> m.heap, alive |-> m.alive]

LEMMA ExchangedSound ==
  ASSUME NEW m, NEW e, Sound(m, e), NEW v \in Vectors, NEW w \in Vectors, v # w,
         NEW r, r = Exchange(m, v, w), NEW f, f = Exchanged(e, v, w)
  PROVE  Sound(r, f)
<1> DEFINE Other(x) == IF x = v THEN w ELSE IF x = w THEN v ELSE x
<1>1. Whole(m, e)
  BY SoundParts
<1>2. \A x \in Vectors : Other(x) \in Vectors /\ Other(Other(x)) = x
  OBVIOUS
<1>3. /\ r = [vectors |-> r.vectors, heap |-> r.heap, alive |-> r.alive]
      /\ r.vectors = [x \in Vectors |-> r.vectors[x]]
      /\ \A x \in Vectors : r.vectors[x] = m.vectors[Other(x)]
      /\ r.heap = m.heap /\ r.alive = m.alive
  <2>1. /\ r = [vectors |-> r.vectors, heap |-> r.heap, alive |-> r.alive]
        /\ r.vectors = Exchanged(m.vectors, v, w)
        /\ r.heap = m.heap /\ r.alive = m.alive
    BY DEF Exchange
  <2>2. m.vectors = [x \in Vectors |-> m.vectors[x]]
    BY <1>1 DEF Whole
  <2> DEFINE all == m.vectors
             q == r.vectors
  <2>3. q = Exchanged(all, v, w) /\ all = [x \in Vectors |-> all[x]]
    BY <2>1, <2>2
  <2> HIDE DEF all, q
  <2>4. /\ q = [x \in Vectors |-> q[x]]
        /\ \A x \in Vectors : q[x] = all[Other(x)]
    BY <2>3 DEF Exchanged
  <2> QED
    BY <2>1, <2>4 DEF all, q
<1>4. /\ f = [x \in Vectors |-> f[x]]
      /\ \A x \in Vectors : f[x] = e[Other(x)]
  BY <1>1 DEF Whole, Exchanged
<1>5. \A x, y \in Vectors : x # y => Other(x) # Other(y)
  BY <1>2
<1>6. IsFiniteSet(Objects(r.vectors)) /\ r.alive = Cardinality(Objects(r.vectors))
  <2> DEFINE all == m.vectors
             mid == [all EXCEPT ![v] = all[w]]
             new == r.vectors
  <2>1. all[v].m_size \in Nat /\ all[w].m_size \in Nat
    BY DEF Sound, Owns
  <2>2. IsFiniteSet(Objects(all)) /\ m.alive = Cardinality(Objects(all))
    BY DEF Sound
  <2>3. /\ all = [x \in Vectors |-> all[x]] /\ m.alive \in Int
        /\ new = [all EXCEPT ![v] = all[w], ![w] = all[v]]
    BY <1>1, <1>3 DEF Whole, Exchange, Exchanged
  <2> HIDE DEF all, new
  <2>4. /\ mid[v] = all[w] /\ \A x \in Vectors \ {v} : mid[x].m_size = all[x].m_size
    BY <2>3
  <2>5. /\ mid[w] = all[w] /\ new[w] = all[v]
        /\ \A x \in Vectors \ {w} : new[x].m_size = mid[x].m_size
    BY <2>3
  <2> HIDE DEF mid
  <2>6. /\ IsFiniteSet(Objects(mid))
        /\ Cardinality(Objects(mid)) = Cardinality(Objects(all)) - all[v].m_size + mid[v].m_size
    <3>1. /\ IsFiniteSet(Objects(all)) /\ all[v].m_size \in Nat /\ mid[v].m_size \in Nat
          /\ \A x \in Vectors \ {v} : mid[x].m_size = all[x].m_size
      BY <2>1, <2>2, <2>4
    <3> QED
      BY <3>1, CountChange
  <2>7. /\ IsFiniteSet(Objects(new))
        /\ Cardinality(Objects(new)) = Cardinality(Objects(mid)) - mid[w].m_size + new[w].m_size
    <3>1. /\ IsFiniteSet(Objects(mid)) /\ mid[w].m_size \in Nat /\ new[w].m_size \in Nat
          /\ \A x \in Vectors \ {w} : new[x].m_size = mid[x].m_size
      BY <2>1, <2>5, <2>6
    <3> QED
      BY <3>1, CountChange
  <2>8. Cardinality(Objects(new)) = Cardinality(Objects(all))
    <3>1. Cardinality(Objects(all)) \in Int
      BY <2>2, <2>3
    <3> QED
      BY <2>1, <2>4, <2>5, <2>6, <2>7, <3>1
  <2> QED
    BY <1>3, <2>2, <2>7, <2>8 DEF new
<1> HIDE DEF Other
<1>7. \A x \in Vectors : Owns(r.vectors[x], r.heap, f[x])
  BY <1>2, <1>3, <1>4 DEF Sound
<1>8. Apart(r.vectors)
  <2> SUFFICES ASSUME NEW x \in Vectors, NEW y \in Vectors, x # y, r.vectors[x].m_data # NULL
               PROVE  r.vectors[y].m_data # r.vectors[x].m_data
    BY DEF Apart
  <2>1. Apart(m.vectors)
    BY DEF Sound
  <2>2. Other(x) \in Vectors /\ Other(y) \in Vectors /\ Other(x) # Other(y)
    BY <1>2, <1>5
  <2>3. r.vectors[x] = m.vectors[Other(x)] /\ r.vectors[y] = m.vectors[Other(y)]
    BY <1>3
  <2> QED
    BY <2>1, <2>2, <2>3 DEF Apart
<1>9. DOMAIN r.heap \subseteq {r.vectors[x].m_data : x \in Vectors} \ {NULL}
  <2> SUFFICES ASSUME NEW b \in DOMAIN m.heap
               PROVE  b # NULL /\ \E x \in Vectors : b = r.vectors[x].m_data
    BY <1>3
  <2>1. b # NULL
    BY DEF Sound
  <2>2. PICK y \in Vectors : b = m.vectors[y].m_data
    BY DEF Sound
  <2>3. Other(y) \in Vectors /\ r.vectors[Other(y)] = m.vectors[y]
    BY <1>2, <1>3
  <2> QED
    BY <2>1, <2>2, <2>3
<1>10. r.heap = [b \in DOMAIN r.heap |-> r.heap[b]] /\ IsFiniteSet(DOMAIN r.heap)
  BY <1>3 DEF Sound
<1> QED
  BY <1>3, <1>4, <1>6, <1>7, <1>8, <1>9, <1>10 DEF Sound

(* operator=(Vector &&) frees what v had and takes what the other has.     *)
LEMMA MovedSound ==
  ASSUME NEW m, NEW e, Sound(m, e), NEW v \in Vectors, NEW other \in Vectors, v # other,
         trivially_copyable \in BOOLEAN,
         trivially_copyable = TRUE \/ m.vectors[v].m_size = 0,
         NEW r, r = Moved(m, v, other),
         NEW f, f = [e EXCEPT ![v] = e[other], ![other] = <<>>]
  PROVE  Sound(r, f)
<1> DEFINE n == Released(m, v, Empty)
           g == Holding(e, v, <<>>)
<1>1. Whole(m, e) /\ Owns(m.vectors[v], m.heap, e[v])
  BY SoundParts
<1>2. Sound(n, g)
  BY ReleasedSound
<1>3. /\ n.vectors = [m.vectors EXCEPT ![v] = Empty] /\ n.heap = Freed(m, v)
      /\ n.alive = m.alive - m.vectors[v].m_size
  <2>1. m.alive - m.vectors[v].m_size + Empty.m_size = m.alive - m.vectors[v].m_size
    BY <1>1 DEF Whole, Owns, Empty
  <2> QED
    BY <2>1 DEF Released, Changed
<1>4. Exchanged(n.vectors, v, other) = [m.vectors EXCEPT ![v] = m.vectors[other], ![other] = Empty]
  BY <1>1, <1>3 DEF Whole, Exchanged
<1>5. Exchanged(g, v, other) = f
  BY <1>1 DEF Whole, Exchanged, Holding
<1>6. r = Exchange(n, v, other)
  <2>1. (IF trivially_copyable THEN m.alive - m.vectors[v].m_size ELSE m.alive) = n.alive
    <3>1. CASE trivially_copyable = TRUE
      BY <1>3, <3>1
    <3>2. CASE trivially_copyable = FALSE
      <4>1. m.vectors[v].m_size = 0 /\ m.alive \in Int
        BY <1>1, <3>2 DEF Whole
      <4> QED
        BY <1>3, <3>2, <4>1
    <3> QED
      BY <3>1, <3>2
  <2>2. r = [vectors |-> [m.vectors EXCEPT ![v] = m.vectors[other], ![other] = Empty],
             heap |-> Freed(m, v),
             alive |-> IF trivially_copyable THEN m.alive - m.vectors[v].m_size ELSE m.alive]
    BY <1>1 DEF Moved, Whole
  <2> QED
    BY <1>3, <1>4, <2>1, <2>2 DEF Exchange
<1> HIDE DEF n, g
<1> QED
  BY <1>2, <1>5, <1>6, ExchangedSound

-----------------------------------------------------------------------------
(* Loops: what they have done after each of their steps.                   *)

(* clear pops all elements.                                             *)
Pops(a, v, n, g) ==
  g = [k \in 0..n |-> IF k = 0 THEN a ELSE Popped(g[k - 1], v)]

LEMMA PopsExist ==
  ASSUME NEW a, NEW v, NEW m \in Nat
  PROVE  \E g : Pops(a, v, m, g)
<1> DEFINE S == {n \in Nat : \E g : Pops(a, v, n, g)}
<1>1. 0 \in S
  <2> DEFINE g == [k \in 0..0 |-> a]
  <2>1. g = [k \in 0..0 |-> IF k = 0 THEN a ELSE Popped(g[k - 1], v)]
    OBVIOUS
  <2> HIDE DEF g
  <2> QED
    BY <2>1 DEF Pops
<1>2. ASSUME NEW n \in 1..m, n - 1 \in S PROVE n \in S
  <2>1. PICK g : Pops(a, v, n - 1, g)
    BY <1>2
  <2> DEFINE h == [k \in 0..n |-> IF k < n THEN g[k] ELSE Popped(g[n - 1], v)]
  <2>2. n \in Nat /\ n - 1 \in 0..n /\ n - 1 < n /\ n - 1 \in Nat
    OBVIOUS
  <2>3. ASSUME NEW k \in 0..n
        PROVE  h[k] = IF k = 0 THEN a ELSE Popped(h[k - 1], v)
    <3>1. CASE k < n
      <4>1. k \in 0..(n - 1)
        BY <3>1
      <4>2. g[k] = IF k = 0 THEN a ELSE Popped(g[k - 1], v)
        BY <2>1, <4>1, Zenon DEF Pops
      <4>3. h[k] = g[k]
        BY <3>1
      <4>4. k # 0 => h[k - 1] = g[k - 1]
        BY <3>1
      <4> HIDE DEF h
      <4> QED
        BY <4>2, <4>3, <4>4
    <3>2. CASE k = n
      <4>1. k # 0 /\ h[n] = Popped(g[n - 1], v) /\ h[n - 1] = g[n - 1]
        BY <2>2, <3>2
      <4> HIDE DEF h
      <4> QED
        BY <3>2, <4>1
    <3> QED
      BY <3>1, <3>2
  <2>4. h = [k \in 0..n |-> h[k]]
    OBVIOUS
  <2> HIDE DEF h
  <2>5. Pops(a, v, n, h)
    BY <2>3, <2>4 DEF Pops
  <2> QED
    BY <2>2, <2>5
<1>3. m \in 0..m
  OBVIOUS
<1>4. m \in S
  <2> HIDE DEF S
  <2> QED
    BY <1>1, <1>2, <1>3, UpTo
<1> QED
  BY <1>4

LEMMA PopsEnd ==
  ASSUME NEW a, NEW v, a.vectors[v].m_size \in Nat
  PROVE  \E g : Pops(a, v, a.vectors[v].m_size, g) /\ Cleared(a, v) = g[a.vectors[v].m_size]
<1> DEFINE g == CHOOSE f : Pops(a, v, a.vectors[v].m_size, f)
<1>1. Cleared(a, v) = g[a.vectors[v].m_size]
  BY DEF Cleared, Pops
<1>2. Pops(a, v, a.vectors[v].m_size, g)
  BY PopsExist
<1> QED
  BY <1>1, <1>2

(* Copies and fill push one element after the other.                     *)
Pushes(a, v, values, n, g) ==
  g = [k \in 0..n |-> IF k = 0 THEN a ELSE Pushed(g[k - 1], v, values[k])]

LEMMA PushesExist ==
  ASSUME NEW a, NEW v, NEW values, NEW m \in Nat
  PROVE  \E g : Pushes(a, v, values, m, g)
<1> DEFINE S == {n \in Nat : \E g : Pushes(a, v, values, n, g)}
<1>1. 0 \in S
  <2> DEFINE g == [k \in 0..0 |-> a]
  <2>1. g = [k \in 0..0 |-> IF k = 0 THEN a ELSE Pushed(g[k - 1], v, values[k])]
    OBVIOUS
  <2> HIDE DEF g
  <2> QED
    BY <2>1 DEF Pushes
<1>2. ASSUME NEW n \in 1..m, n - 1 \in S PROVE n \in S
  <2>1. PICK g : Pushes(a, v, values, n - 1, g)
    BY <1>2
  <2> DEFINE h == [k \in 0..n |-> IF k < n THEN g[k] ELSE Pushed(g[n - 1], v, values[n])]
  <2>2. n \in Nat /\ n - 1 \in 0..n /\ n - 1 < n /\ n - 1 \in Nat
    OBVIOUS
  <2>3. ASSUME NEW k \in 0..n
        PROVE  h[k] = IF k = 0 THEN a ELSE Pushed(h[k - 1], v, values[k])
    <3>1. CASE k < n
      <4>1. k \in 0..(n - 1)
        BY <3>1
      <4>2. g[k] = IF k = 0 THEN a ELSE Pushed(g[k - 1], v, values[k])
        BY <2>1, <4>1, Zenon DEF Pushes
      <4>3. h[k] = g[k]
        BY <3>1
      <4>4. k # 0 => h[k - 1] = g[k - 1]
        BY <3>1
      <4> HIDE DEF h
      <4> QED
        BY <4>2, <4>3, <4>4
    <3>2. CASE k = n
      <4>1. k # 0 /\ h[n] = Pushed(g[n - 1], v, values[n]) /\ h[n - 1] = g[n - 1]
        BY <2>2, <3>2
      <4> HIDE DEF h
      <4> QED
        BY <3>2, <4>1
    <3> QED
      BY <3>1, <3>2
  <2>4. h = [k \in 0..n |-> h[k]]
    OBVIOUS
  <2> HIDE DEF h
  <2>5. Pushes(a, v, values, n, h)
    BY <2>3, <2>4 DEF Pushes
  <2> QED
    BY <2>2, <2>5
<1>3. m \in 0..m
  OBVIOUS
<1>4. m \in S
  <2> HIDE DEF S
  <2> QED
    BY <1>1, <1>2, <1>3, UpTo
<1> QED
  BY <1>4

LEMMA PushesEnd ==
  ASSUME NEW a, NEW v, NEW values, Len(values) \in Nat
  PROVE  \E g : Pushes(a, v, values, Len(values), g) /\ PushedAll(a, v, values) = g[Len(values)]
<1> DEFINE g == CHOOSE f : Pushes(a, v, values, Len(values), f)
<1>1. PushedAll(a, v, values) = g[Len(values)]
  BY DEF PushedAll, Pushes
<1>2. Pushes(a, v, values, Len(values), g)
  BY PushesExist
<1> QED
  BY <1>1, <1>2

(* remove_if at one index.                                                 *)
VisitOf(a, v, picked, i) ==
  IF i <= a.vectors[v].m_size /\ Contents(a, v)[i] \in picked THEN Removed(a, v, i) ELSE a

(* remove_if visits every index once.                                    *)
Visits(a, v, picked, n, g) ==
  g = [k \in 0..n |-> IF k = 0 THEN a ELSE VisitOf(g[k - 1], v, picked, k)]

LEMMA VisitsExist ==
  ASSUME NEW a, NEW v, NEW picked, NEW m \in Nat
  PROVE  \E g : Visits(a, v, picked, m, g)
<1> DEFINE S == {n \in Nat : \E g : Visits(a, v, picked, n, g)}
<1>1. 0 \in S
  <2> DEFINE g == [k \in 0..0 |-> a]
  <2>1. g = [k \in 0..0 |-> IF k = 0 THEN a ELSE VisitOf(g[k - 1], v, picked, k)]
    OBVIOUS
  <2> HIDE DEF g
  <2> QED
    BY <2>1 DEF Visits
<1>2. ASSUME NEW n \in 1..m, n - 1 \in S PROVE n \in S
  <2>1. PICK g : Visits(a, v, picked, n - 1, g)
    BY <1>2
  <2> DEFINE h == [k \in 0..n |-> IF k < n THEN g[k] ELSE VisitOf(g[n - 1], v, picked, n)]
  <2>2. n \in Nat /\ n - 1 \in 0..n /\ n - 1 < n /\ n - 1 \in Nat
    OBVIOUS
  <2>3. ASSUME NEW k \in 0..n
        PROVE  h[k] = IF k = 0 THEN a ELSE VisitOf(h[k - 1], v, picked, k)
    <3>1. CASE k < n
      <4>1. k \in 0..(n - 1)
        BY <3>1
      <4>2. g[k] = IF k = 0 THEN a ELSE VisitOf(g[k - 1], v, picked, k)
        BY <2>1, <4>1, Zenon DEF Visits
      <4>3. h[k] = g[k]
        BY <3>1
      <4>4. k # 0 => h[k - 1] = g[k - 1]
        BY <3>1
      <4> HIDE DEF h
      <4> QED
        BY <4>2, <4>3, <4>4
    <3>2. CASE k = n
      <4>1. k # 0 /\ h[n] = VisitOf(g[n - 1], v, picked, n) /\ h[n - 1] = g[n - 1]
        BY <2>2, <3>2
      <4> HIDE DEF h
      <4> QED
        BY <3>2, <4>1
    <3> QED
      BY <3>1, <3>2
  <2>4. h = [k \in 0..n |-> h[k]]
    OBVIOUS
  <2> HIDE DEF h
  <2>5. Visits(a, v, picked, n, h)
    BY <2>3, <2>4 DEF Visits
  <2> QED
    BY <2>2, <2>5
<1>3. m \in 0..m
  OBVIOUS
<1>4. m \in S
  <2> HIDE DEF S
  <2> QED
    BY <1>1, <1>2, <1>3, UpTo
<1> QED
  BY <1>4

LEMMA VisitsEnd ==
  ASSUME NEW a, NEW v, NEW picked, a.vectors[v].m_size \in Nat
  PROVE  \E g : Visits(a, v, picked, a.vectors[v].m_size, g) /\ RemovedIf(a, v, picked) = g[a.vectors[v].m_size]
<1> DEFINE g == CHOOSE f : Visits(a, v, picked, a.vectors[v].m_size, f)
<1>1. RemovedIf(a, v, picked) = g[a.vectors[v].m_size]
  BY DEF RemovedIf, Visits, VisitOf
<1>2. Visits(a, v, picked, a.vectors[v].m_size, g)
  BY VisitsExist
<1> QED
  BY <1>1, <1>2

(* One more element is looked at.                                          *)
KeepOf(t, s, picked, k) == IF s[k] \in picked THEN t ELSE Append(t, s[k])

(* What is kept is collected from the front.                             *)
Keeps(s, picked, n, g) ==
  g = [k \in 0..n |-> IF k = 0 THEN <<>> ELSE KeepOf(g[k - 1], s, picked, k)]

LEMMA KeepsExist ==
  ASSUME NEW s, NEW picked, NEW m \in Nat
  PROVE  \E g : Keeps(s, picked, m, g)
<1> DEFINE S == {n \in Nat : \E g : Keeps(s, picked, n, g)}
<1>1. 0 \in S
  <2> DEFINE g == [k \in 0..0 |-> <<>>]
  <2>1. g = [k \in 0..0 |-> IF k = 0 THEN <<>> ELSE KeepOf(g[k - 1], s, picked, k)]
    OBVIOUS
  <2> HIDE DEF g
  <2> QED
    BY <2>1 DEF Keeps
<1>2. ASSUME NEW n \in 1..m, n - 1 \in S PROVE n \in S
  <2>1. PICK g : Keeps(s, picked, n - 1, g)
    BY <1>2
  <2> DEFINE h == [k \in 0..n |-> IF k < n THEN g[k] ELSE KeepOf(g[n - 1], s, picked, n)]
  <2>2. n \in Nat /\ n - 1 \in 0..n /\ n - 1 < n /\ n - 1 \in Nat
    OBVIOUS
  <2>3. ASSUME NEW k \in 0..n
        PROVE  h[k] = IF k = 0 THEN <<>> ELSE KeepOf(h[k - 1], s, picked, k)
    <3>1. CASE k < n
      <4>1. k \in 0..(n - 1)
        BY <3>1
      <4>2. g[k] = IF k = 0 THEN <<>> ELSE KeepOf(g[k - 1], s, picked, k)
        BY <2>1, <4>1, Zenon DEF Keeps
      <4>3. h[k] = g[k]
        BY <3>1
      <4>4. k # 0 => h[k - 1] = g[k - 1]
        BY <3>1
      <4> HIDE DEF h
      <4> QED
        BY <4>2, <4>3, <4>4
    <3>2. CASE k = n
      <4>1. k # 0 /\ h[n] = KeepOf(g[n - 1], s, picked, n) /\ h[n - 1] = g[n - 1]
        BY <2>2, <3>2
      <4> HIDE DEF h
      <4> QED
        BY <3>2, <4>1
    <3> QED
      BY <3>1, <3>2
  <2>4. h = [k \in 0..n |-> h[k]]
    OBVIOUS
  <2> HIDE DEF h
  <2>5. Keeps(s, picked, n, h)
    BY <2>3, <2>4 DEF Keeps
  <2> QED
    BY <2>2, <2>5
<1>3. m \in 0..m
  OBVIOUS
<1>4. m \in S
  <2> HIDE DEF S
  <2> QED
    BY <1>1, <1>2, <1>3, UpTo
<1> QED
  BY <1>4

LEMMA KeepsEnd ==
  ASSUME NEW s, NEW picked, Len(s) \in Nat
  PROVE  \E g : Keeps(s, picked, Len(s), g) /\ Kept(s, picked) = g[Len(s)]
<1> DEFINE g == CHOOSE f : Keeps(s, picked, Len(s), f)
<1>1. Kept(s, picked) = g[Len(s)]
  BY DEF Kept, Keeps, KeepOf
<1>2. Keeps(s, picked, Len(s), g)
  BY KeepsExist
<1> QED
  BY <1>1, <1>2

-----------------------------------------------------------------------------
(* What loops leave.                                                       *)

OnVectors(e) == e = [w \in Vectors |-> e[w]]

LEMMA HoldingOne ==
  ASSUME NEW e, OnVectors(e), NEW v \in Vectors, NEW a
  PROVE  /\ Holding(e, v, a)[v] = a /\ OnVectors(Holding(e, v, a))
         /\ \A w \in Vectors \ {v} : Holding(e, v, a)[w] = e[w]
BY DEF Holding, OnVectors

LEMMA HoldingTwice ==
  ASSUME NEW e, OnVectors(e), NEW v \in Vectors, NEW a, NEW b
  PROVE  Holding(Holding(e, v, a), v, b) = Holding(e, v, b)
BY DEF Holding, OnVectors

LEMMA HoldingSame ==
  ASSUME NEW e, OnVectors(e), NEW v \in Vectors
  PROVE  Holding(e, v, e[v]) = e
BY DEF Holding, OnVectors

(* The first n elements.                                                   *)
FirstOf(s, n) == SubSeq(s, 1, n)

LEMMA FirstMembers ==
  ASSUME NEW s \in Seq(Values), NEW n \in 0..Len(s)
  PROVE  /\ FirstOf(s, n) \in Seq(Values) /\ Len(FirstOf(s, n)) = n
         /\ \A i \in 1..n : FirstOf(s, n)[i] = s[i]
         /\ n > 0 => FirstOf(FirstOf(s, n), n - 1) = FirstOf(s, n - 1)
<1>1. ASSUME NEW t \in Seq(Values), NEW k \in 0..Len(t)
      PROVE  /\ FirstOf(t, k) \in Seq(Values) /\ Len(FirstOf(t, k)) = k
             /\ \A i \in 1..k : FirstOf(t, k)[i] = t[i]
  <2> DEFINE a == FirstOf(t, k)
  <2>1. a = SubSeq(t, 1, k) /\ k \in Nat /\ k <= Len(t)
    BY DEF FirstOf
  <2> HIDE DEF a
  <2>2. a \in Seq(Values) /\ Len(a) = k /\ \A i \in 1..k : a[i] = t[i]
    BY <2>1, SubSeqOne
  <2> QED
    BY <2>2 DEF a
<1>2. ASSUME n > 0 PROVE FirstOf(FirstOf(s, n), n - 1) = FirstOf(s, n - 1)
  <2> DEFINE j == n - 1
             a == FirstOf(s, n)
             b == FirstOf(a, j)
             c == FirstOf(s, j)
  <2>1. /\ a \in Seq(Values) /\ Len(a) = n /\ \A i \in 1..n : a[i] = s[i]
    BY <1>1
  <2>2. j \in 0..Len(s) /\ j \in 0..n /\ j < n
    BY <1>2
  <2>3. /\ c \in Seq(Values) /\ Len(c) = j /\ \A i \in 1..j : c[i] = s[i]
    BY <1>1, <2>2
  <2> HIDE DEF a, j, c
  <2>4. /\ b \in Seq(Values) /\ Len(b) = j /\ \A i \in 1..j : b[i] = a[i]
    BY <1>1, <2>1, <2>2
  <2> HIDE DEF b
  <2>5. \A i \in 1..j : b[i] = c[i]
    BY <2>1, <2>2, <2>3, <2>4
  <2>6. b = c
    BY <2>3, <2>4, <2>5, SeqEqual
  <2> QED
    BY <2>6 DEF a, b, c, j
<1> QED
  BY <1>1, <1>2

LEMMA ClearedSound ==
  ASSUME NEW m, NEW e, Sound(m, e), NEW v \in Vectors,
         NEW r, r = Cleared(m, v), NEW f, f = Holding(e, v, <<>>)
  PROVE  Sound(r, f) /\ r.vectors[v].m_size = 0
<1> DEFINE s == e[v]
           n == Len(s)
<1>1. /\ Whole(m, e) /\ s \in Seq(Values) /\ m.vectors[v].m_size = n /\ n \in Nat
      /\ OnVectors(e)
  <2>1. Whole(m, e) /\ Owns(m.vectors[v], m.heap, s)
    BY SoundParts
  <2> QED
    BY <2>1 DEF Owns, Whole, OnVectors
<1> HIDE DEF s, n
<1>2. PICK g : Pops(m, v, n, g) /\ r = g[n]
  BY <1>1, PopsEnd
<1> DEFINE Left(k) == FirstOf(s, n - k)
           Good == {k \in 0..n : Sound(g[k], Holding(e, v, Left(k)))}
<1>3. 0 \in Good
  <2>1. g[0] = m
    BY <1>1, <1>2 DEF Pops
  <2>2. Left(0) = s
    <3>1. n - 0 = Len(s)
      BY <1>1 DEF n
    <3> QED
      BY <1>1, <3>1, SubSeqFull DEF FirstOf
  <2>3. Holding(e, v, s) = e
    BY <1>1, HoldingSame DEF s
  <2>4. 0 \in 0..n
    BY <1>1
  <2>5. Sound(g[0], Holding(e, v, Left(0)))
    BY <2>1, <2>2, <2>3
  <2> QED
    BY <2>4, <2>5
<1>4. ASSUME NEW k \in 1..n, k - 1 \in Good PROVE k \in Good
  <2> DEFINE h == g[k - 1]
             c == Left(k - 1)
             d == Holding(e, v, c)
             j == n - k + 1
  <2>1. /\ Sound(h, d) /\ k \in 0..n /\ k # 0 /\ j \in 0..Len(s) /\ j > 0
        /\ n - (k - 1) = j /\ n - k = j - 1
    BY <1>1, <1>4 DEF n
  <2>2. g[k] = Popped(h, v)
    BY <1>2, <2>1, Zenon DEF Pops
  <2>3. /\ c \in Seq(Values) /\ Len(c) = j /\ FirstOf(c, j - 1) = Left(k)
    BY <1>1, <2>1, FirstMembers
  <2> HIDE DEF c, h, j, Left
  <2>4. d[v] = c
    BY <1>1, HoldingOne
  <2>5. Holding(d, v, Left(k)) = Holding(e, v, Left(k))
    BY <1>1, HoldingTwice
  <2> HIDE DEF d
  <2>6. h.vectors[v].m_size > 0
    <3>1. Owns(h.vectors[v], h.heap, d[v])
      BY <2>1, SoundParts
    <3> QED
      BY <2>1, <2>3, <2>4, <3>1 DEF Owns
  <2>7. Holding(d, v, Left(k)) = Holding(d, v, SubSeq(d[v], 1, Len(d[v]) - 1))
    BY <2>3, <2>4 DEF FirstOf
  <2>8. Sound(g[k], Holding(d, v, Left(k)))
    BY <2>1, <2>2, <2>6, <2>7, PoppedSound
  <2> QED
    BY <2>1, <2>5, <2>8
<1>5. n \in Good
  <2>1. n \in 0..n
    BY <1>1
  <2> HIDE DEF Good
  <2> QED
    BY <1>1, <1>3, <1>4, <2>1, UpTo
<1>6. Left(n) = <<>>
  <2>1. n - n = 0 /\ 0 \in 0..Len(s)
    BY <1>1 DEF n
  <2>2. Left(n) \in Seq(Values) /\ Len(Left(n)) = 0
    BY <1>1, <2>1, FirstMembers
  <2> QED
    BY <2>2
<1>7. Sound(r, f)
  BY <1>2, <1>5, <1>6
<1>8. f[v] = <<>>
  BY <1>1, HoldingOne
<1>9. Owns(r.vectors[v], r.heap, f[v])
  BY <1>7, SoundParts
<1> QED
  BY <1>7, <1>8, <1>9 DEF Owns

LEMMA AppendMembers ==
  ASSUME NEW s \in Seq(Values), NEW value \in Values
  PROVE  /\ Append(s, value) \in Seq(Values) /\ Len(Append(s, value)) = Len(s) + 1
         /\ Append(s, value)[Len(s) + 1] = value
         /\ \A i \in 1..Len(s) : Append(s, value)[i] = s[i]
OBVIOUS

LEMMA ConcatMembers ==
  ASSUME NEW s \in Seq(Values), NEW t \in Seq(Values)
  PROVE  /\ s \o t \in Seq(Values) /\ Len(s \o t) = Len(s) + Len(t)
         /\ \A i \in 1..(Len(s) + Len(t)) :
              (s \o t)[i] = IF i <= Len(s) THEN s[i] ELSE t[i - Len(s)]
BY ConcatProperties

LEMMA AppendConcat ==
  ASSUME NEW s \in Seq(Values), NEW p \in Seq(Values), NEW value \in Values
  PROVE  Append(s \o p, value) = s \o Append(p, value)
<1> DEFINE a == s \o p
           b == Append(p, value)
           c == s \o b
           d == Append(a, value)
<1>1. /\ a \in Seq(Values) /\ Len(a) = Len(s) + Len(p)
      /\ \A i \in 1..(Len(s) + Len(p)) : a[i] = IF i <= Len(s) THEN s[i] ELSE p[i - Len(s)]
  BY ConcatMembers
<1>2. /\ b \in Seq(Values) /\ Len(b) = Len(p) + 1 /\ b[Len(p) + 1] = value
      /\ \A i \in 1..Len(p) : b[i] = p[i]
  BY AppendMembers
<1> HIDE DEF a, b
<1>3. /\ c \in Seq(Values) /\ Len(c) = Len(s) + Len(b)
      /\ \A i \in 1..(Len(s) + Len(b)) : c[i] = IF i <= Len(s) THEN s[i] ELSE b[i - Len(s)]
  BY <1>2, ConcatMembers
<1>4. /\ d \in Seq(Values) /\ Len(d) = Len(a) + 1 /\ d[Len(a) + 1] = value
      /\ \A i \in 1..Len(a) : d[i] = a[i]
  BY <1>1, AppendMembers
<1> HIDE DEF c, d
<1>5. Len(s) \in Nat /\ Len(p) \in Nat
  OBVIOUS
<1>6. ASSUME NEW i \in 1..Len(d) PROVE d[i] = c[i]
  <2>1. CASE i = Len(s) + Len(p) + 1
    <3>1. i - Len(s) = Len(p) + 1 /\ ~(i <= Len(s)) /\ i \in 1..(Len(s) + Len(b)) /\ i = Len(a) + 1
      BY <1>1, <1>2, <1>5, <2>1
    <3> QED
      BY <1>2, <1>3, <1>4, <3>1
  <2>2. CASE i <= Len(s)
    <3>1. i \in 1..(Len(s) + Len(b)) /\ i \in 1..Len(a) /\ i \in 1..(Len(s) + Len(p))
      BY <1>1, <1>2, <1>5, <2>2
    <3> QED
      BY <1>1, <1>3, <1>4, <2>2, <3>1
  <2>3. CASE Len(s) < i /\ i < Len(s) + Len(p) + 1
    <3>1. /\ i - Len(s) \in 1..Len(p) /\ ~(i <= Len(s)) /\ i \in 1..Len(a)
          /\ i \in 1..(Len(s) + Len(b)) /\ i \in 1..(Len(s) + Len(p))
      BY <1>1, <1>2, <1>5, <2>3
    <3>2. d[i] = p[i - Len(s)]
      BY <1>1, <1>4, <3>1
    <3>3. c[i] = b[i - Len(s)]
      BY <1>3, <3>1
    <3> QED
      BY <1>2, <3>1, <3>2, <3>3
  <2>4. i \in Int /\ i <= Len(s) + Len(p) + 1
    <3>1. Len(d) = Len(s) + Len(p) + 1
      BY <1>1, <1>4
    <3> QED
      BY <1>5, <3>1
  <2>5. i <= Len(s) \/ (Len(s) < i /\ i < Len(s) + Len(p) + 1) \/ i = Len(s) + Len(p) + 1
    BY <1>5, <2>4
  <2> QED
    BY <2>1, <2>2, <2>3, <2>5
<1>7. Len(d) = Len(c)
  BY <1>1, <1>2, <1>3, <1>4, <1>5
<1>8. d = c
  BY <1>3, <1>4, <1>6, <1>7, SeqEqual
<1> QED
  BY <1>8 DEF a, b, c, d

LEMMA AppendFirst ==
  ASSUME NEW s \in Seq(Values), NEW t \in Seq(Values), NEW k \in 1..Len(t)
  PROVE  Append(s \o FirstOf(t, k - 1), t[k]) = s \o FirstOf(t, k)
<1> DEFINE j == k - 1
           p == FirstOf(t, j)
           q == FirstOf(t, k)
           b == Append(p, t[k])
<1>1. j \in 0..Len(t) /\ k \in 0..Len(t) /\ t[k] \in Values /\ j \in Nat /\ k = j + 1
  OBVIOUS
<1> HIDE DEF j
<1>2. /\ p \in Seq(Values) /\ Len(p) = j /\ \A i \in 1..j : p[i] = t[i]
  BY <1>1, FirstMembers
<1>3. /\ q \in Seq(Values) /\ Len(q) = k /\ \A i \in 1..k : q[i] = t[i]
  BY <1>1, FirstMembers
<1> HIDE DEF p, q
<1>4. /\ b \in Seq(Values) /\ Len(b) = Len(p) + 1 /\ b[Len(p) + 1] = t[k]
      /\ \A i \in 1..Len(p) : b[i] = p[i]
  BY <1>1, <1>2, AppendMembers
<1> HIDE DEF b
<1>5. Len(b) = Len(q) /\ \A i \in 1..Len(b) : b[i] = q[i]
  <2>1. Len(b) = j + 1 /\ Len(q) = j + 1 /\ b[j + 1] = t[j + 1] /\ q[j + 1] = t[j + 1]
    BY <1>1, <1>2, <1>3, <1>4
  <2>2. \A i \in 1..j : b[i] = t[i] /\ q[i] = t[i]
    BY <1>1, <1>2, <1>3, <1>4
  <2>3. ASSUME NEW i \in 1..(j + 1) PROVE b[i] = q[i]
    <3>1. CASE i = j + 1
      BY <2>1, <3>1
    <3>2. CASE i # j + 1
      <4>1. i \in 1..j
        BY <1>1, <3>2
      <4> QED
        BY <2>2, <4>1
    <3> QED
      BY <3>1, <3>2
  <2> QED
    BY <2>1, <2>3
<1>6. b = q
  BY <1>3, <1>4, <1>5, SeqEqual
<1>7. Append(s \o p, t[k]) = s \o q
  BY <1>1, <1>2, <1>6, AppendConcat DEF b
<1> QED
  BY <1>7 DEF p, q, j

LEMMA PushedAllSound ==
  ASSUME NEW m, NEW e, Sound(m, e), NEW v \in Vectors, NEW values \in Seq(Values),
         NEW r, r = PushedAll(m, v, values), NEW f, f = Holding(e, v, e[v] \o values)
  PROVE  Sound(r, f)
<1> DEFINE s == e[v]
           n == Len(values)
<1>1. n \in Nat /\ s \in Seq(Values) /\ OnVectors(e)
  <2>1. Whole(m, e) /\ Owns(m.vectors[v], m.heap, s)
    BY SoundParts
  <2> QED
    BY <2>1 DEF Owns, Whole, OnVectors
<1> HIDE DEF s
<1>2. PICK g : Pushes(m, v, values, n, g) /\ r = g[n]
  BY <1>1, PushesEnd
<1> DEFINE Has(k) == s \o FirstOf(values, k)
           Good == {k \in 0..n : Sound(g[k], Holding(e, v, Has(k)))}
<1>3. 0 \in Good
  <2>1. g[0] = m
    BY <1>1, <1>2 DEF Pushes
  <2>2. Has(0) = s
    <3>1. FirstOf(values, 0) = <<>>
      BY SubSeqEmpty DEF FirstOf
    <3> QED
      BY <1>1, <3>1, ConcatEmptySeq
  <2>3. Holding(e, v, s) = e
    BY <1>1, HoldingSame DEF s
  <2>4. 0 \in 0..n
    BY <1>1
  <2>5. Sound(g[0], Holding(e, v, Has(0)))
    BY <2>1, <2>2, <2>3
  <2> QED
    BY <2>4, <2>5
<1>4. ASSUME NEW k \in 1..n, k - 1 \in Good PROVE k \in Good
  <2> DEFINE h == g[k - 1]
             c == Has(k - 1)
             d == Holding(e, v, c)
  <2>1. Sound(h, d) /\ k \in 0..n /\ k # 0
    BY <1>1, <1>4
  <2>2. g[k] = Pushed(h, v, values[k])
    BY <1>2, <2>1, Zenon DEF Pushes
  <2>3. values[k] \in Values /\ Has(k) = Append(c, values[k])
    <3>1. k \in 1..Len(values)
      OBVIOUS
    <3> HIDE DEF n
    <3> QED
      BY <1>1, <3>1, ElementOfSeq, AppendFirst
  <2> HIDE DEF c, h, Has
  <2>4. d[v] = c
    BY <1>1, HoldingOne
  <2>5. Holding(d, v, Has(k)) = Holding(e, v, Has(k))
    BY <1>1, HoldingTwice
  <2> HIDE DEF d
  <2>6. Holding(d, v, Has(k)) = Holding(d, v, Append(d[v], values[k]))
    BY <2>3, <2>4
  <2>7. Sound(g[k], Holding(d, v, Has(k)))
    BY <2>1, <2>2, <2>3, <2>6, PushedSound
  <2> QED
    BY <2>1, <2>5, <2>7
<1>5. n \in Good
  <2>1. n \in 0..n
    BY <1>1
  <2> HIDE DEF Good
  <2> QED
    BY <1>1, <1>3, <1>4, <2>1, UpTo
<1>6. Has(n) = s \o values
  BY SubSeqFull DEF FirstOf
<1> QED
  BY <1>2, <1>5, <1>6 DEF s

(* A copy is cleared, then gets what the other holds.                      *)
LEMMA CopiedSound ==
  ASSUME NEW m, NEW e, Sound(m, e), NEW v \in Vectors, NEW other \in Vectors, v # other,
         NEW r, r = Copied(m, v, other), NEW f, f = Holding(e, v, e[other])
  PROVE  Sound(r, f)
<1> DEFINE c == Cleared(m, v)
           d == Holding(e, v, <<>>)
<1>1. OnVectors(e) /\ e[other] \in Seq(Values)
  <2>1. Whole(m, e) /\ Owns(m.vectors[other], m.heap, e[other])
    BY SoundParts
  <2> QED
    BY <2>1 DEF Owns, Whole, OnVectors
<1>2. Sound(c, d)
  BY ClearedSound
<1>3. d[v] = <<>> /\ d[other] = e[other] /\ Holding(d, v, e[other]) = f
  BY <1>1, HoldingOne, HoldingTwice
<1>4. r = PushedAll(c, v, Contents(c, other))
  BY DEF Copied
<1> HIDE DEF c, d
<1>5. Contents(c, other) = e[other]
  BY <1>2, <1>3, ContentsHeld
<1>6. d[v] \o e[other] = e[other]
  BY <1>1, <1>3, ConcatEmptySeq
<1>7. Sound(r, Holding(d, v, d[v] \o e[other]))
  BY <1>1, <1>2, <1>4, <1>5, PushedAllSound
<1> QED
  BY <1>3, <1>6, <1>7

-----------------------------------------------------------------------------
(* remove_if.  After n visits a vector holds what is kept of its first p   *)
(* elements, then all that come after them.                                *)

Mixed(t, s, p) == t \o SubSeq(s, p + 1, Len(s))

LEMMA MixedMembers ==
  ASSUME NEW t \in Seq(Values), NEW s \in Seq(Values), NEW p \in 0..Len(s)
  PROVE  /\ Mixed(t, s, p) \in Seq(Values)
         /\ Len(Mixed(t, s, p)) = Len(t) + (Len(s) - p)
         /\ \A i \in 1..(Len(t) + (Len(s) - p)) :
              Mixed(t, s, p)[i] = IF i <= Len(t) THEN t[i] ELSE s[p + (i - Len(t))]
<1> DEFINE q == SubSeq(s, p + 1, Len(s))
           j == p + 1
           r == Mixed(t, s, p)
<1>1. /\ j \in Int /\ Len(s) \in Int /\ q = SubSeq(s, j, Len(s)) /\ p \in Int /\ j = p + 1
      /\ p <= Len(s) /\ Len(s) \in Nat /\ Len(t) \in Nat
      /\ \A i \in j..Len(s) : s[i] \in Values
  OBVIOUS
<1>2. r = t \o q
  BY DEF Mixed
<1> HIDE DEF j, q, r
<1>3. /\ q \in Seq(Values) /\ Len(q) = IF j <= Len(s) THEN Len(s) - j + 1 ELSE 0
      /\ \A i \in 1..(Len(s) - j + 1) : q[i] = s[j + i - 1]
  BY <1>1, SubSeqProperties
<1>4. Len(q) = Len(s) - p
  BY <1>1, <1>3
<1>5. ASSUME NEW i \in 1..(Len(s) - p) PROVE q[i] = s[p + i]
  <2>1. i \in 1..(Len(s) - j + 1) /\ j + i - 1 = p + i
    BY <1>1
  <2> QED
    BY <1>3, <2>1
<1>6. /\ t \o q \in Seq(Values) /\ Len(t \o q) = Len(t) + Len(q)
      /\ \A i \in 1..(Len(t) + Len(q)) :
           (t \o q)[i] = IF i <= Len(t) THEN t[i] ELSE q[i - Len(t)]
  BY <1>3, ConcatMembers
<1>7. ASSUME NEW i \in 1..(Len(t) + (Len(s) - p))
      PROVE  r[i] = IF i <= Len(t) THEN t[i] ELSE s[p + (i - Len(t))]
  <2>1. r[i] = IF i <= Len(t) THEN t[i] ELSE q[i - Len(t)]
    BY <1>2, <1>4, <1>6
  <2>2. CASE i <= Len(t)
    BY <2>1, <2>2
  <2>3. CASE ~(i <= Len(t))
    <3>1. i - Len(t) \in 1..(Len(s) - p)
      BY <1>1, <2>3
    <3>2. q[i - Len(t)] = s[p + (i - Len(t))]
      BY <1>5, <3>1
    <3> QED
      BY <2>1, <2>3, <3>2
  <2> QED
    BY <2>2, <2>3
<1>8. r \in Seq(Values) /\ Len(r) = Len(t) + (Len(s) - p)
  BY <1>2, <1>4, <1>6
<1> QED
  BY <1>7, <1>8 DEF r

(* The next element is kept.                                               *)
LEMMA MixedKept ==
  ASSUME NEW t \in Seq(Values), NEW s \in Seq(Values), NEW p \in 0..(Len(s) - 1),
         NEW q, q = p + 1
  PROVE  Mixed(Append(t, s[q]), s, q) = Mixed(t, s, p)
<1> DEFINE u == Append(t, s[q])
           a == Mixed(t, s, p)
           b == Mixed(u, s, q)
<1>1. /\ p \in 0..Len(s) /\ q \in 0..Len(s) /\ s[q] \in Values
      /\ Len(s) \in Nat /\ Len(t) \in Nat /\ p \in Int /\ q \in Int
  OBVIOUS
<1>2. /\ u \in Seq(Values) /\ Len(u) = Len(t) + 1 /\ u[Len(t) + 1] = s[q]
      /\ \A i \in 1..Len(t) : u[i] = t[i]
  BY <1>1, AppendMembers
<1> HIDE DEF u
<1>3. /\ a \in Seq(Values) /\ Len(a) = Len(t) + (Len(s) - p)
      /\ \A i \in 1..(Len(t) + (Len(s) - p)) :
           a[i] = IF i <= Len(t) THEN t[i] ELSE s[p + (i - Len(t))]
  BY <1>1, MixedMembers
<1>4. /\ b \in Seq(Values) /\ Len(b) = Len(u) + (Len(s) - q)
      /\ \A i \in 1..(Len(u) + (Len(s) - q)) :
           b[i] = IF i <= Len(u) THEN u[i] ELSE s[q + (i - Len(u))]
  BY <1>1, <1>2, MixedMembers
<1> HIDE DEF a, b
<1>5. Len(a) = Len(b) /\ Len(b) = Len(t) + (Len(s) - p) /\ Len(u) + (Len(s) - q) = Len(t) + (Len(s) - p)
  <2>1. Len(u) + (Len(s) - q) = Len(t) + (Len(s) - p)
    <3>1. Len(u) = Len(t) + 1
      BY <1>2
    <3> QED
      BY <1>1, <3>1
  <2> QED
    BY <1>3, <1>4, <2>1, Zenon
<1>6. ASSUME NEW i \in 1..(Len(t) + (Len(s) - p)) PROVE b[i] = a[i]
  <2>1. CASE i <= Len(t)
    <3>1. i \in 1..Len(t) /\ i <= Len(u)
      BY <1>1, <1>2, <2>1
    <3> QED
      BY <1>2, <1>3, <1>4, <1>5, <2>1, <3>1
  <2>2. CASE i = Len(t) + 1
    <3>1. ~(i <= Len(t)) /\ i <= Len(u) /\ p + (i - Len(t)) = q
      BY <1>1, <1>2, <2>2
    <3> QED
      BY <1>2, <1>3, <1>4, <1>5, <2>2, <3>1
  <2>3. CASE i > Len(t) + 1
    <3>1. ~(i <= Len(t)) /\ ~(i <= Len(u)) /\ p + (i - Len(t)) = q + (i - Len(u))
      BY <1>1, <1>2, <2>3
    <3> QED
      BY <1>3, <1>4, <1>5, <3>1
  <2> QED
    BY <1>1, <2>1, <2>2, <2>3
<1>7. b = a
  BY <1>3, <1>4, <1>5, <1>6, SeqEqual
<1> QED
  BY <1>7 DEF a, b, u

(* The next element is removed.                                            *)
LEMMA MixedRemoved ==
  ASSUME NEW t \in Seq(Values), NEW s \in Seq(Values), NEW p \in 0..(Len(s) - 1),
         NEW q, q = p + 1, NEW n, n = Len(t) + 1
  PROVE  RemoveAt(Mixed(t, s, p), n) = Mixed(t, s, q)
<1> DEFINE a == Mixed(t, s, p)
           b == Mixed(t, s, q)
           c == RemoveAt(a, n)
<1>1. /\ p \in 0..Len(s) /\ q \in 0..Len(s) /\ n \in Int
      /\ Len(s) \in Nat /\ Len(t) \in Nat /\ p \in Int /\ q \in Int
  OBVIOUS
<1>2. /\ a \in Seq(Values) /\ Len(a) = Len(t) + (Len(s) - p)
      /\ \A i \in 1..(Len(t) + (Len(s) - p)) :
           a[i] = IF i <= Len(t) THEN t[i] ELSE s[p + (i - Len(t))]
  BY <1>1, MixedMembers
<1>3. /\ b \in Seq(Values) /\ Len(b) = Len(t) + (Len(s) - q)
      /\ \A i \in 1..(Len(t) + (Len(s) - q)) :
           b[i] = IF i <= Len(t) THEN t[i] ELSE s[q + (i - Len(t))]
  BY <1>1, MixedMembers
<1> HIDE DEF a, b
<1>4. n \in 1..Len(a)
  BY <1>1, <1>2
<1>5. c = RemoveAt(a, n)
  OBVIOUS
<1> HIDE DEF c
<1>6. /\ c \in Seq(Values) /\ Len(c) = Len(a) - 1
      /\ \A i \in 1..(Len(a) - 1) : c[i] = IF i < n THEN a[i] ELSE a[i + 1]
  BY <1>2, <1>4, <1>5, RemoveAtMembers
<1>7. Len(c) = Len(b) /\ Len(a) - 1 = Len(t) + (Len(s) - q)
  BY <1>1, <1>2, <1>3, <1>6
<1>8. ASSUME NEW i \in 1..(Len(t) + (Len(s) - q)) PROVE c[i] = b[i]
  <2>0. c[i] = IF i < n THEN a[i] ELSE a[i + 1]
    BY <1>6, <1>7
  <2>1. CASE i <= Len(t)
    <3>1. i < n /\ i \in 1..(Len(t) + (Len(s) - p))
      BY <1>1, <2>1
    <3> QED
      BY <1>2, <1>3, <2>0, <2>1, <3>1
  <2>2. CASE ~(i <= Len(t))
    <3>1. /\ ~(i < n) /\ i + 1 \in 1..(Len(t) + (Len(s) - p)) /\ ~(i + 1 <= Len(t))
          /\ p + (i + 1 - Len(t)) = q + (i - Len(t))
      BY <1>1, <2>2
    <3> DEFINE j == i + 1
    <3>2. a[j] = s[p + (j - Len(t))]
      <4>1. j \in 1..(Len(t) + (Len(s) - p)) /\ ~(j <= Len(t))
        BY <3>1
      <4> HIDE DEF j
      <4> QED
        BY <1>2, <4>1
    <3>3. b[i] = s[q + (i - Len(t))]
      BY <1>3, <2>2
    <3>4. c[i] = a[j]
      BY <2>0, <3>1
    <3> DEFINE x == p + (j - Len(t))
               y == q + (i - Len(t))
    <3>5. x = y
      BY <3>1
    <3> HIDE DEF j, x, y
    <3>6. a[j] = s[x] /\ b[i] = s[y]
      BY <3>2, <3>3 DEF x, y
    <3> QED
      BY <3>4, <3>5, <3>6, Zenon
  <2> QED
    BY <2>1, <2>2
<1>9. c = b
  BY <1>3, <1>6, <1>7, <1>8, SeqEqual
<1> QED
  BY <1>9 DEF a, b, c

(* What is kept is not picked.                                             *)
LEMMA KeptMembers ==
  ASSUME NEW s \in Seq(Values), NEW picked, NEW kept, Keeps(s, picked, Len(s), kept)
  PROVE  /\ \A k \in 0..Len(s) : /\ kept[k] \in Seq(Values) /\ Len(kept[k]) <= k
                                 /\ \A i \in 1..Len(kept[k]) : kept[k][i] \notin picked
         /\ kept[0] = <<>>
         /\ \A k \in 1..Len(s) : kept[k] = KeepOf(kept[k - 1], s, picked, k)
<1> DEFINE n == Len(s)
           Good == {k \in 0..n : /\ kept[k] \in Seq(Values) /\ Len(kept[k]) <= k
                                 /\ \A i \in 1..Len(kept[k]) : kept[k][i] \notin picked}
<1>1. n \in Nat
  OBVIOUS
<1>2. kept[0] = <<>> /\ \A k \in 1..n : kept[k] = KeepOf(kept[k - 1], s, picked, k)
  <2>1. kept = [k \in 0..n |-> IF k = 0 THEN <<>> ELSE KeepOf(kept[k - 1], s, picked, k)]
    BY DEF Keeps
  <2> HIDE DEF n
  <2>2. 0 \in 0..n /\ \A k \in 1..n : k \in 0..n /\ k # 0
    BY <1>1
  <2> QED
    BY <2>1, <2>2, Zenon
<1>3. 0 \in Good
  <2>1. <<>> \in Seq(Values) /\ Len(<<>>) = 0
    OBVIOUS
  <2>2. kept[0] \in Seq(Values) /\ Len(kept[0]) = 0
    BY <1>2, <2>1
  <2>3. \A i \in 1..Len(kept[0]) : FALSE
    BY <2>2
  <2>4. 0 \in 0..n
    BY <1>1
  <2> QED
    BY <2>2, <2>3, <2>4
<1>4. ASSUME NEW k \in 1..n, k - 1 \in Good PROVE k \in Good
  <2> DEFINE t == kept[k - 1]
  <2>1. /\ t \in Seq(Values) /\ Len(t) <= k - 1
        /\ \A i \in 1..Len(t) : t[i] \notin picked
    BY <1>4
  <2>2. kept[k] = KeepOf(t, s, picked, k) /\ s[k] \in Values /\ k \in 0..n
    BY <1>2
  <2> HIDE DEF t
  <2>3. CASE s[k] \in picked
    BY <2>1, <2>2, <2>3 DEF KeepOf
  <2>4. CASE s[k] \notin picked
    <3>1. kept[k] = Append(t, s[k])
      BY <2>2, <2>4 DEF KeepOf
    <3>2. /\ Append(t, s[k]) \in Seq(Values) /\ Len(Append(t, s[k])) = Len(t) + 1
          /\ Append(t, s[k])[Len(t) + 1] = s[k]
          /\ \A i \in 1..Len(t) : Append(t, s[k])[i] = t[i]
      BY <2>1, <2>2, AppendMembers
    <3>3. ASSUME NEW i \in 1..(Len(t) + 1) PROVE kept[k][i] \notin picked
      <4>1. CASE i = Len(t) + 1
        BY <2>4, <3>1, <3>2, <4>1
      <4>2. CASE i # Len(t) + 1
        <5>1. i \in 1..Len(t)
          BY <2>1, <4>2
        <5> QED
          BY <2>1, <3>1, <3>2, <5>1
      <4> QED
        BY <4>1, <4>2
    <3>4. kept[k] \in Seq(Values) /\ Len(kept[k]) = Len(t) + 1 /\ Len(t) + 1 <= k
      BY <2>1, <3>1, <3>2
    <3>5. \A i \in 1..Len(kept[k]) : kept[k][i] \notin picked
      BY <3>3, <3>4
    <3> QED
      BY <2>2, <3>4, <3>5
  <2> QED
    BY <2>3, <2>4
<1>5. \A k \in 0..n : k \in Good
  <2> HIDE DEF Good, n
  <2> QED
    BY <1>1, <1>3, <1>4, UpTo
<1> QED
  BY <1>2, <1>5

(* Between visits: what was kept of the first p elements, and the rest.    *)
After(m, e, v, s, kept, k, p) ==
  Sound(m, Holding(e, v, Mixed(kept[p], s, p))) /\ (p = Len(s) \/ Len(kept[p]) = k)

(* One visit, of neighbours that are not both picked.                      *)
LEMMA OneVisit ==
  ASSUME NEW m, NEW e, OnVectors(e), NEW v \in Vectors, trivially_copyable = TRUE,
         NEW s \in Seq(Values), NEW picked, NEW kept, Keeps(s, picked, Len(s), kept),
         \A i \in 1..(Len(s) - 1) : ~({s[i], s[i + 1]} \subseteq picked),
         NEW k \in 1..Len(s), NEW p \in 0..Len(s), After(m, e, v, s, kept, k - 1, p),
         NEW r, r = VisitOf(m, v, picked, k)
  PROVE  \E q \in 0..Len(s) : After(r, e, v, s, kept, k, q)
<1> DEFINE t == kept[p]
           c == Mixed(t, s, p)
           d == Holding(e, v, c)
           n == Len(s)
<1>1. /\ \A j \in 0..n : /\ kept[j] \in Seq(Values) /\ Len(kept[j]) <= j
                         /\ \A i \in 1..Len(kept[j]) : kept[j][i] \notin picked
      /\ \A j \in 1..n : kept[j] = KeepOf(kept[j - 1], s, picked, j)
  BY KeptMembers
<1>2. /\ Sound(m, d) /\ (p = n \/ Len(t) = k - 1)
      /\ n \in Nat /\ k \in Nat /\ p \in Nat /\ p <= n
  BY DEF After
<1>3. /\ t \in Seq(Values) /\ Len(t) \in Nat
      /\ \A i \in 1..Len(t) : t[i] \notin picked
  BY <1>1
<1>4. /\ c \in Seq(Values) /\ Len(c) = Len(t) + (n - p)
      /\ \A i \in 1..(Len(t) + (n - p)) : c[i] = IF i <= Len(t) THEN t[i] ELSE s[p + (i - Len(t))]
  BY <1>3, MixedMembers
<1> HIDE DEF c, d, t
<1>5. d[v] = c /\ \A x : Holding(d, v, x) = Holding(e, v, x)
  BY HoldingOne, HoldingTwice DEF d
<1>6. Contents(m, v) = c /\ m.vectors[v].m_size = Len(c)
  <2>1. Owns(m.vectors[v], m.heap, d[v]) /\ Contents(m, v) = d[v]
    BY <1>2, SoundParts, ContentsHeld
  <2> QED
    BY <1>5, <2>1 DEF Owns
<1>7. CASE p = n
  <2>1. ASSUME k <= Len(c) PROVE c[k] \notin picked
    <3>1. k <= Len(t) /\ k \in 1..Len(t) /\ k \in 1..(Len(t) + (n - p))
      BY <1>2, <1>3, <1>4, <1>7, <2>1
    <3>2. c[k] = t[k]
      BY <1>4, <3>1
    <3> QED
      BY <1>3, <3>1, <3>2
  <2>2. r = m
    BY <1>6, <2>1 DEF VisitOf
  <2>3. After(r, e, v, s, kept, k, p)
    BY <1>2, <1>7, <2>2 DEF After, c, d, t
  <2> QED
    BY <2>3
<1>8. CASE p # n
  <2> DEFINE q == p + 1
  <2>1. /\ q \in 1..n /\ q \in 0..n /\ q = p + 1 /\ p \in 0..(n - 1) /\ q - 1 = p
        /\ Len(t) = k - 1 /\ k = Len(t) + 1
    BY <1>2, <1>8
  <2>2. /\ k <= Len(c) /\ k \in 1..Len(c) /\ k \in 1..(Len(t) + (n - p))
        /\ ~(k <= Len(t)) /\ p + (k - Len(t)) = q
    <3> DEFINE l == Len(t)
    <3>1. /\ l \in Nat /\ k = l + 1 /\ Len(c) = l + (n - p)
          /\ n \in Nat /\ p \in Nat /\ p < n /\ q = p + 1
      BY <1>2, <1>3, <1>4, <2>1
    <3> HIDE DEF l, q
    <3>2. k \in 1..(l + (n - p)) /\ ~(k <= l) /\ p + (k - l) = q
      BY <3>1
    <3>3. k <= Len(c) /\ k \in 1..Len(c)
      BY <3>1, <3>2
    <3> QED
      BY <3>2, <3>3 DEF l
  <2> HIDE DEF q
  <2>3. c[k] = s[q] /\ s[q] \in Values
    BY <1>4, <2>1, <2>2
  <2>4. kept[q] = KeepOf(t, s, picked, q)
    BY <1>1, <2>1 DEF t
  <2>5. CASE s[q] \notin picked
    <3>1. r = m
      BY <1>6, <2>3, <2>5 DEF VisitOf
    <3>2. kept[q] = Append(t, s[q])
      BY <2>4, <2>5 DEF KeepOf
    <3>3. Mixed(kept[q], s, q) = c
      BY <1>3, <2>1, <3>2, MixedKept DEF c
    <3>4. Len(kept[q]) = k
      BY <1>3, <2>1, <2>3, <3>2, AppendMembers
    <3>5. After(r, e, v, s, kept, k, q)
      BY <1>2, <3>1, <3>3, <3>4 DEF After, d
    <3> QED
      BY <2>1, <3>5
  <2>6. CASE s[q] \in picked
    <3> DEFINE a == RemoveAt(c, k)
    <3>1. r = Removed(m, v, k)
      BY <1>6, <2>2, <2>3, <2>6 DEF VisitOf
    <3>2. a = Mixed(t, s, q)
      BY <1>3, <2>1, MixedRemoved DEF c
    <3>3. k \in 1..m.vectors[v].m_size /\ a = RemoveAt(d[v], k)
      BY <1>5, <1>6, <2>2
    <3> HIDE DEF a
    <3>4. Sound(r, Holding(d, v, a))
      BY <1>2, <3>1, <3>3, RemovedSound
    <3>5. Sound(r, Holding(e, v, a))
      BY <1>5, <3>4
    <3>6. kept[q] = t
      BY <2>4, <2>6 DEF KeepOf
    <3>7. CASE q = n
      <4>1. After(r, e, v, s, kept, k, q)
        BY <3>2, <3>5, <3>6, <3>7 DEF After
      <4> QED
        BY <2>1, <4>1
    <3>8. CASE q # n
      <4> DEFINE z == q + 1
      <4>1. /\ z \in 1..n /\ z \in 0..n /\ z = q + 1 /\ q \in 0..(n - 1) /\ z - 1 = q
            /\ q \in 1..(n - 1)
        BY <1>2, <2>1, <3>8
      <4>2. s[z] \notin picked
        <5>1. ~({s[q], s[q + 1]} \subseteq picked)
          BY <4>1
        <5> QED
          BY <2>6, <5>1
      <4> HIDE DEF z
      <4>3. kept[z] = KeepOf(t, s, picked, z)
        BY <1>1, <3>6, <4>1
      <4>4. kept[z] = Append(t, s[z])
        BY <4>2, <4>3 DEF KeepOf
      <4>5. Mixed(kept[z], s, z) = a
        BY <1>3, <3>2, <4>1, <4>4, MixedKept
      <4>6. Len(kept[z]) = k
        <5>1. s[z] \in Values
          BY <4>1
        <5> QED
          BY <1>3, <2>1, <4>4, <5>1, AppendMembers
      <4>7. After(r, e, v, s, kept, k, z)
        BY <3>5, <4>5, <4>6 DEF After
      <4> QED
        BY <4>1, <4>7
    <3> QED
      BY <3>7, <3>8
  <2> QED
    BY <2>5, <2>6
<1> QED
  BY <1>7, <1>8

LEMMA RemovedIfSound ==
  ASSUME NEW m, NEW e, Sound(m, e), NEW v \in Vectors, trivially_copyable = TRUE,
         NEW s, s = e[v], NEW picked,
         \A i \in 1..(Len(s) - 1) : ~({s[i], s[i + 1]} \subseteq picked),
         NEW r, r = RemovedIf(m, v, picked), NEW f, f = Holding(e, v, Kept(s, picked))
  PROVE  Sound(r, f)
<1> DEFINE n == Len(s)
<1>1. n \in Nat /\ s \in Seq(Values) /\ OnVectors(e) /\ m.vectors[v].m_size = n
  <2>1. Whole(m, e) /\ Owns(m.vectors[v], m.heap, s)
    BY SoundParts
  <2> QED
    BY <2>1 DEF Owns, Whole, OnVectors
<1>2. PICK g : Visits(m, v, picked, n, g) /\ r = g[n]
  BY <1>1, VisitsEnd
<1>3. PICK kept : Keeps(s, picked, n, kept) /\ Kept(s, picked) = kept[n]
  BY <1>1, KeepsEnd
<1>4. /\ \A j \in 0..n : kept[j] \in Seq(Values) /\ Len(kept[j]) <= j
      /\ kept[0] = <<>>
  BY <1>1, <1>3, KeptMembers
<1> DEFINE Good == {k \in 0..n : \E p \in 0..n : After(g[k], e, v, s, kept, k, p)}
<1>5. 0 \in Good
  <2>1. g[0] = m
    BY <1>1, <1>2 DEF Visits
  <2>2. Mixed(kept[0], s, 0) = s
    BY <1>1, <1>4, SubSeqFull, ConcatEmptySeq DEF Mixed
  <2>3. Holding(e, v, s) = e
    BY <1>1, HoldingSame
  <2>4. Len(kept[0]) = 0 /\ 0 \in 0..n
    BY <1>1, <1>4
  <2>5. After(g[0], e, v, s, kept, 0, 0)
    BY <2>1, <2>2, <2>3, <2>4 DEF After
  <2> QED
    BY <2>4, <2>5
<1>6. ASSUME NEW k \in 1..n, k - 1 \in Good PROVE k \in Good
  <2>1. PICK p \in 0..n : After(g[k - 1], e, v, s, kept, k - 1, p)
    BY <1>6
  <2>2. k \in 0..n /\ k # 0
    BY <1>1
  <2>3. g[k] = VisitOf(g[k - 1], v, picked, k)
    BY <1>2, <2>2, Zenon DEF Visits
  <2>4. \E q \in 0..n : After(g[k], e, v, s, kept, k, q)
    <3> DEFINE h == g[k - 1]
    <3>1. After(h, e, v, s, kept, k - 1, p) /\ g[k] = VisitOf(h, v, picked, k)
      BY <2>1, <2>3
    <3> HIDE DEF h
    <3> QED
      BY <1>1, <1>3, <3>1, OneVisit
  <2> QED
    BY <2>2, <2>4
<1>7. n \in Good
  <2>1. n \in 0..n
    BY <1>1
  <2> HIDE DEF Good, n
  <2> QED
    BY <1>1, <1>5, <1>6, <2>1, UpTo
<1>8. PICK p \in 0..n : After(g[n], e, v, s, kept, n, p)
  BY <1>7
<1>9. p = n
  BY <1>1, <1>4, <1>8 DEF After
<1>10. Mixed(kept[n], s, n) = kept[n]
  <2>1. SubSeq(s, n + 1, Len(s)) = <<>>
    BY <1>1, SubSeqEmpty
  <2>2. kept[n] \in Seq(Values)
    BY <1>1, <1>4
  <2> QED
    BY <2>1, <2>2, ConcatEmptySeq DEF Mixed
<1> QED
  BY <1>2, <1>3, <1>8, <1>9, <1>10 DEF After

-----------------------------------------------------------------------------
(* The methods.                                                            *)

LEMMA InitSound == Init => VectorInv
<1> SUFFICES ASSUME Init PROVE VectorInv
  OBVIOUS
<1>1. /\ memory.vectors = [v \in Vectors |-> Gone] /\ memory.heap = <<>> /\ memory.alive = 0
      /\ memory = [vectors |-> memory.vectors, heap |-> memory.heap, alive |-> memory.alive]
      /\ elems = [v \in Vectors |-> <<>>]
  BY DEF Init, memory
<1>2. /\ Gone \in [m_size : Nat, m_capacity : Int, m_data : Nat]
      /\ Gone.m_data = NULL /\ Gone.m_size = 0 /\ Gone.m_capacity <= 0
  BY DEF Gone, NULL
<1>3. DOMAIN memory.heap = {} /\ memory.heap = [b \in DOMAIN memory.heap |-> memory.heap[b]]
  BY <1>1
<1>4. Owns(Gone, memory.heap, <<>>)
  <2>1. <<>> \in Seq(Values) /\ Len(<<>>) = 0
    OBVIOUS
  <2> QED
    BY <1>2, <2>1 DEF Owns
<1>5. Objects(memory.vectors) = {}
  BY <1>1, <1>2 DEF Objects
<1>6. \A v \in Vectors : memory.vectors[v] = Gone /\ elems[v] = <<>>
  BY <1>1
<1>7. Apart(memory.vectors)
  BY <1>2, <1>6 DEF Apart
<1>8. /\ memory.vectors = [v \in Vectors |-> memory.vectors[v]]
      /\ elems = [v \in Vectors |-> elems[v]]
  BY <1>1
<1>9. IsFiniteSet({}) /\ Cardinality({}) = 0
  BY FS_EmptySet
<1>10. Sound(memory, elems)
  <2> HIDE DEF memory
  <2> QED
    BY <1>1, <1>3, <1>4, <1>5, <1>6, <1>7, <1>8, <1>9 DEF Sound
<1> QED
  BY <1>10 DEF Init, VectorInv

(* A method leaves what it makes of the memory.                            *)
LEMMA BecomesSound ==
  ASSUME VectorInv, NEW m, Becomes(m), Sound(m, elems')
  PROVE  VectorInv'
<1>1. m = [vectors |-> m.vectors, heap |-> m.heap, alive |-> m.alive]
  BY DEF Sound
<1>2. memory' = m
  BY <1>1 DEF Becomes, memory
<1>3. trivially_copyable' \in BOOLEAN
  BY DEF Becomes, VectorInv
<1> QED
  BY <1>2, <1>3 DEF VectorInv

LEMMA BegunHere ==
  ASSUME Sound(memory, elems), NEW v \in Vectors, ~Exists(v)
  PROVE  /\ Sound(Begun(v), elems)
         /\ Begun(v).vectors[v].m_size = 0
         /\ \A w \in Vectors \ {v} : Begun(v).vectors[w] = vectors[w]
         /\ elems[v] = <<>>
<1>1. memory.vectors[v] = Gone /\ memory.vectors = vectors
  BY DEF Exists, memory
<1>2. Begun(v) = [memory EXCEPT !.vectors[v] = Empty]
  BY DEF Begun
<1>3. Whole(memory, elems)
  BY SoundParts
<1> HIDE DEF memory
<1>4. Sound(Begun(v), elems) /\ Begun(v).vectors = [memory.vectors EXCEPT ![v] = Empty]
  BY <1>1, <1>2, BegunSound
<1>5. Begun(v).vectors[v] = Empty /\ \A w \in Vectors \ {v} : Begun(v).vectors[w] = vectors[w]
  BY <1>1, <1>3, <1>4 DEF Whole
<1>6. memory.vectors[v].m_size = 0
  BY <1>1 DEF Gone
<1>7. elems[v] = <<>>
  BY <1>6, NothingHeld
<1> QED
  BY <1>4, <1>5, <1>7 DEF Empty

(* The sizes that the callers see.                                         *)
LEMMA MemoryParts ==
  ASSUME Sound(memory, elems), NEW v \in Vectors
  PROVE  /\ OnVectors(elems) /\ elems[v] \in Seq(Values)
         /\ memory.vectors = vectors /\ memory.heap = heap
         /\ vectors[v].m_size = Len(elems[v]) /\ vectors[v].m_size \in Nat
<1>1. Whole(memory, elems) /\ Owns(memory.vectors[v], memory.heap, elems[v])
  BY SoundParts
<1>2. memory.vectors = vectors /\ memory.heap = heap
  BY DEF memory
<1> HIDE DEF memory
<1> QED
  BY <1>1, <1>2 DEF Whole, Owns, OnVectors

LEMMA MaxSizeIsNat == MaxSize \in Nat
BY VectorAssumption, Zenon

LEMMA ConstructSound ==
  ASSUME VectorInv, NEW v \in Vectors, NEW n \in 0..MaxSize, construct(v, n)
  PROVE  VectorInv'
<1>1. Sound(memory, elems) /\ n \in Nat /\ elems' = elems /\ ~Exists(v)
  <2>1. n \in Nat
    BY MaxSizeIsNat
  <2> QED
    BY <2>1 DEF VectorInv, construct
<1>2. Sound(Begun(v), elems) /\ Begun(v).vectors[v].m_size = 0
  BY <1>1, BegunHere
<1>3. CASE n = 0
  <2>1. Becomes(Begun(v))
    BY <1>3 DEF construct
  <2> QED
    BY <1>1, <1>2, <2>1, BecomesSound
<1>4. CASE n # 0
  <2> DEFINE r == Resized(Begun(v), v, n)
  <2>1. Becomes(r)
    BY <1>4 DEF construct
  <2>2. Begun(v).vectors[v].m_size <= n
    BY <1>1, <1>2
  <2>3. Sound(r, elems)
    BY <1>1, <1>2, <2>2, ResizedSound
  <2> HIDE DEF r
  <2> QED
    BY <1>1, <2>1, <2>3, BecomesSound
<1> QED
  BY <1>3, <1>4

LEMMA CopyConstructSound ==
  ASSUME VectorInv, NEW v \in Vectors, NEW other \in Vectors, copy_construct(v, other)
  PROVE  VectorInv'
<1> DEFINE n == vectors[other].m_size
           m == IF n = 0 THEN Begun(v) ELSE Resized(Begun(v), v, n)
           r == Copied(m, v, other)
<1>1. /\ Sound(memory, elems) /\ ~Exists(v) /\ v # other
      /\ Becomes(r) /\ elems' = Holding(elems, v, elems[other])
  BY DEF VectorInv, copy_construct, Holds, Holding
<1>2. Sound(Begun(v), elems) /\ Begun(v).vectors[v].m_size = 0
  BY <1>1, BegunHere
<1>3. n \in Nat
  BY <1>1, MemoryParts
<1>4. Sound(m, elems)
  <2>1. CASE n = 0
    BY <1>2, <2>1
  <2>2. CASE n # 0
    <3>1. Begun(v).vectors[v].m_size <= n
      BY <1>2, <1>3
    <3>2. Sound(Resized(Begun(v), v, n), elems)
      BY <1>2, <1>3, <3>1, ResizedSound
    <3> QED
      BY <2>2, <3>2
  <2> QED
    BY <2>1, <2>2
<1> HIDE DEF m
<1>5. Sound(r, elems')
  BY <1>1, <1>4, CopiedSound
<1> HIDE DEF r
<1> QED
  BY <1>1, <1>5, BecomesSound

LEMMA CopyAssignSound ==
  ASSUME VectorInv, Habits = {}, NEW v \in Vectors, NEW other \in Vectors, copy_assign(v, other)
  PROVE  VectorInv'
<1> DEFINE r == Copied(memory, v, other)
<1>1. /\ Sound(memory, elems) /\ v # other
      /\ Becomes(r) /\ elems' = Holding(elems, v, elems[other])
  BY DEF VectorInv, copy_assign, Holds, Holding
<1>2. Sound(r, elems')
  BY <1>1, CopiedSound
<1> HIDE DEF r
<1> QED
  BY <1>1, <1>2, BecomesSound

LEMMA MoveConstructSound ==
  ASSUME VectorInv, NEW v \in Vectors, NEW other \in Vectors, move_construct(v, other)
  PROVE  VectorInv'
<1> DEFINE r == Moved(Begun(v), v, other)
           f == [elems EXCEPT ![v] = elems[other], ![other] = <<>>]
<1>1. /\ Sound(memory, elems) /\ ~Exists(v) /\ v # other /\ trivially_copyable \in BOOLEAN
      /\ Becomes(r) /\ elems' = f
  BY DEF VectorInv, move_construct
<1>2. Sound(Begun(v), elems) /\ Begun(v).vectors[v].m_size = 0
  BY <1>1, BegunHere
<1>3. Sound(r, f)
  BY <1>1, <1>2, MovedSound
<1> HIDE DEF r, f
<1> QED
  BY <1>1, <1>3, BecomesSound

LEMMA MoveAssignSound ==
  ASSUME VectorInv, Habits = {}, NEW v \in Vectors, NEW other \in Vectors, move_assign(v, other)
  PROVE  VectorInv'
<1> DEFINE r == Moved(memory, v, other)
           f == [elems EXCEPT ![v] = elems[other], ![other] = <<>>]
<1>1. /\ Sound(memory, elems) /\ v # other /\ trivially_copyable \in BOOLEAN
      /\ Becomes(r) /\ elems' = f
  BY DEF VectorInv, move_assign, Elsewhere
<1>2. trivially_copyable = TRUE \/ memory.vectors[v].m_size = 0
  BY DEF VectorInv, move_assign, memory
<1>3. Sound(r, f)
  BY <1>1, <1>2, MovedSound
<1> HIDE DEF r, f
<1> QED
  BY <1>1, <1>3, BecomesSound

LEMMA DestructSound ==
  ASSUME VectorInv, NEW v \in Vectors, destruct(v)
  PROVE  VectorInv'
<1> DEFINE c == Cleared(memory, v)
           r == [c EXCEPT !.heap = Freed(c, v), !.vectors[v] = Gone]
           d == Holding(elems, v, <<>>)
<1>1. Sound(memory, elems) /\ Becomes(r) /\ elems' = d
  BY DEF VectorInv, destruct, Holds, Holding
<1>2. Sound(c, d) /\ c.vectors[v].m_size = 0
  BY <1>1, ClearedSound
<1>3. Holding(d, v, <<>>) = d
  BY <1>2, NothingHeld
<1> HIDE DEF c, d
<1>4. r = Released(c, v, Gone)
  <2>1. Whole(c, d)
    BY <1>2, SoundParts
  <2>2. c.alive \in Int /\ c = [vectors |-> c.vectors, heap |-> c.heap, alive |-> c.alive]
    BY <2>1 DEF Whole
  <2>3. c.alive - c.vectors[v].m_size + Gone.m_size = c.alive
    BY <1>2, <2>2 DEF Gone
  <2> DEFINE x == [c EXCEPT !.heap = Freed(c, v)]
  <2>4. x = [vectors |-> c.vectors, heap |-> Freed(c, v), alive |-> c.alive]
    BY <2>2
  <2>5. r = [x EXCEPT !.vectors[v] = Gone]
    BY <2>2
  <2> HIDE DEF x
  <2>6. r = [vectors |-> [c.vectors EXCEPT ![v] = Gone], heap |-> Freed(c, v), alive |-> c.alive]
    <3> HIDE DEF r
    <3> QED
      BY <2>4, <2>5
  <2> HIDE DEF r
  <2> QED
    BY <2>3, <2>6 DEF Released, Changed
<1> HIDE DEF r
<1>5. Sound(Released(c, v, Gone), Holding(d, v, <<>>))
  BY <1>2, ReleasedSound
<1>6. Sound(r, elems')
  BY <1>1, <1>3, <1>4, <1>5
<1> QED
  BY <1>1, <1>6, BecomesSound

LEMMA PushSound ==
  ASSUME VectorInv, NEW v \in Vectors, NEW value \in Values, push(v, value)
  PROVE  VectorInv'
<1> DEFINE r == Pushed(memory, v, value)
<1>1. /\ Sound(memory, elems)
      /\ Becomes(r) /\ elems' = Holding(elems, v, Append(elems[v], value))
  BY DEF VectorInv, push, Holds, Holding
<1>2. Sound(r, elems')
  BY <1>1, PushedSound
<1> HIDE DEF r
<1> QED
  BY <1>1, <1>2, BecomesSound

LEMMA PopSound ==
  ASSUME VectorInv, NEW v \in Vectors, pop(v)
  PROVE  VectorInv'
<1> DEFINE r == Popped(memory, v)
<1>1. /\ Sound(memory, elems)
      /\ Becomes(r) /\ elems' = Holding(elems, v, SubSeq(elems[v], 1, Len(elems[v]) - 1))
  BY DEF VectorInv, pop, Holds, Holding
<1>2. memory.vectors[v].m_size > 0
  BY DEF pop, memory
<1>3. Sound(r, elems')
  BY <1>1, <1>2, PoppedSound
<1> HIDE DEF r
<1> QED
  BY <1>1, <1>3, BecomesSound

LEMMA AtSound ==
  ASSUME VectorInv, NEW v \in Vectors, NEW i \in 1..MaxSize, NEW value \in Values,
         at(v, i, value)
  PROVE  VectorInv'
<1> DEFINE r == [memory EXCEPT !.heap[vectors[v].m_data][i] = value]
<1>1. /\ Sound(memory, elems) /\ vectors = memory.vectors
      /\ Becomes(r) /\ elems' = Holding(elems, v, [elems[v] EXCEPT ![i] = value])
  BY DEF VectorInv, at, Holds, Holding, memory
<1>2. i \in 1..memory.vectors[v].m_size
  <2>1. i <= vectors[v].m_size
    BY DEF at
  <2>2. vectors[v].m_size \in Nat
    BY <1>1, MemoryParts
  <2> QED
    BY <1>1, <2>1, <2>2, MaxSizeIsNat
<1>3. Sound(r, elems')
  <2> HIDE DEF memory
  <2>1. r = [memory EXCEPT !.heap[memory.vectors[v].m_data][i] = value]
    BY <1>1
  <2> HIDE DEF r
  <2> QED
    BY <1>1, <1>2, <2>1, AssignedSound
<1> HIDE DEF r
<1> QED
  BY <1>1, <1>3, BecomesSound

LEMMA FillSound ==
  ASSUME VectorInv, NEW v \in Vectors, NEW upto \in 1..MaxSize, NEW value \in Values,
         fill(v, value, upto)
  PROVE  VectorInv'
<1> DEFINE s == elems[v]
           length == vectors[v].m_size
           slots == heap[vectors[v].m_data]
           set == IF length = 0 THEN memory
                  ELSE [memory EXCEPT !.heap[vectors[v].m_data] =
                         AllOf(length, value) \o SubSeq(slots, length + 1, Len(slots))]
           pushes == IF upto > length THEN upto - length ELSE 0
           most == IF upto > Len(s) THEN upto ELSE Len(s)
           r == PushedAll(set, v, AllOf(pushes, value))
           d == Holding(elems, v, AllOf(Len(s), value))
<1>1. /\ Sound(memory, elems)
      /\ Becomes(r) /\ elems' = Holding(elems, v, AllOf(most, value))
  BY DEF VectorInv, fill, Holds, Holding, AllOf
<1>2. /\ OnVectors(elems) /\ s \in Seq(Values)
      /\ memory.vectors = vectors /\ memory.heap = heap
      /\ length = Len(s) /\ length \in Nat /\ upto \in Nat
  <2>1. upto \in Nat
    BY MaxSizeIsNat
  <2> HIDE DEF memory
  <2> QED
    BY <1>1, <2>1, MemoryParts
<1>3. /\ pushes \in Nat /\ most = length + pushes
  <2>1. \A m, n \in Nat :
          /\ (IF n > m THEN n - m ELSE 0) \in Nat
          /\ (IF n > m THEN n ELSE m) = m + (IF n > m THEN n - m ELSE 0)
    OBVIOUS
  <2>2. length \in Nat /\ upto \in Nat /\ length = Len(s)
    BY <1>2
  <2> HIDE DEF s, length
  <2> QED
    BY <2>1, <2>2
<1>4. Sound(set, d)
  <2>1. CASE length = 0
    <3>1. AllOf(Len(s), value) = s
      <4>1. s = <<>>
        <5>1. \A q \in Seq(Values) : Len(q) = 0 => q = <<>>
          OBVIOUS
        <5>2. s \in Seq(Values) /\ Len(s) = 0
          BY <1>2, <2>1
        <5> HIDE DEF s
        <5> QED
          BY <5>1, <5>2
      <4>2. AllOf(0, value) = <<>>
        BY DEF AllOf
      <4> QED
        BY <1>2, <2>1, <4>1, <4>2
    <3>2. d = elems
      BY <1>2, <3>1, HoldingSame
    <3> QED
      BY <1>1, <2>1, <3>2
  <2>2. CASE length # 0
    <3> HIDE DEF memory
    <3>1. /\ memory.vectors[v].m_size # 0 /\ slots = memory.heap[memory.vectors[v].m_data]
          /\ set = [memory EXCEPT !.heap[memory.vectors[v].m_data] =
                      AllOf(memory.vectors[v].m_size, value)
                        \o SubSeq(slots, memory.vectors[v].m_size + 1, Len(slots))]
      BY <1>2, <2>2
    <3> HIDE DEF set, slots, d
    <3> QED
      BY <1>1, <3>1, SetSound DEF d
  <2> QED
    BY <2>1, <2>2
<1> HIDE DEF set, d, most, pushes, s
<1>5. /\ AllOf(pushes, value) \in Seq(Values) /\ AllOf(length, value) \in Seq(Values)
      /\ AllOf(length, value) \o AllOf(pushes, value) = AllOf(most, value)
  <2>1. ASSUME NEW n \in Nat
        PROVE  /\ AllOf(n, value) \in Seq(Values) /\ Len(AllOf(n, value)) = n
               /\ \A i \in 1..n : AllOf(n, value)[i] = value
    <3>1. AllOf(n, value) \in [1..n -> Values]
      BY DEF AllOf
    <3> QED
      BY <3>1 DEF AllOf
  <2> DEFINE a == AllOf(length, value)
             b == AllOf(pushes, value)
             c == a \o b
             z == AllOf(most, value)
  <2>2. /\ a \in Seq(Values) /\ Len(a) = length /\ \A i \in 1..length : a[i] = value
    BY <1>2, <2>1
  <2>3. /\ b \in Seq(Values) /\ Len(b) = pushes /\ \A i \in 1..pushes : b[i] = value
    BY <1>3, <2>1
  <2>4. /\ z \in Seq(Values) /\ Len(z) = most /\ \A i \in 1..most : z[i] = value
    BY <1>2, <1>3, <2>1
  <2> HIDE DEF a, b, z
  <2>5. /\ c \in Seq(Values) /\ Len(c) = Len(a) + Len(b)
        /\ \A i \in 1..(Len(a) + Len(b)) : c[i] = IF i <= Len(a) THEN a[i] ELSE b[i - Len(a)]
    BY <2>2, <2>3, ConcatMembers
  <2> HIDE DEF c
  <2>6. Len(c) = Len(z) /\ \A i \in 1..Len(c) : c[i] = z[i]
    <3>1. Len(c) = Len(z) /\ Len(c) = length + pushes
      BY <1>2, <1>3, <2>2, <2>3, <2>4, <2>5
    <3>2. ASSUME NEW i \in 1..(length + pushes) PROVE c[i] = z[i]
      <4>1. z[i] = value /\ c[i] = IF i <= length THEN a[i] ELSE b[i - length]
        BY <1>2, <1>3, <2>2, <2>3, <2>4, <2>5
      <4>2. CASE i <= length
        BY <1>2, <2>2, <4>1, <4>2
      <4>3. CASE ~(i <= length)
        <5>1. i - length \in 1..pushes
          BY <1>2, <1>3, <4>3
        <5>2. b[i - length] = value
          BY <2>3, <5>1
        <5> QED
          BY <4>1, <4>3, <5>2
      <4> QED
        BY <4>2, <4>3
    <3> QED
      BY <3>1, <3>2
  <2>7. c = z
    BY <2>4, <2>5, <2>6, SeqEqual
  <2> QED
    BY <2>2, <2>3, <2>7 DEF a, b, c, z
<1>6. d[v] = AllOf(length, value) /\ Holding(d, v, AllOf(most, value)) = elems'
  BY <1>1, <1>2, HoldingOne, HoldingTwice DEF d
<1>7. Sound(r, Holding(d, v, d[v] \o AllOf(pushes, value)))
  BY <1>4, <1>5, PushedAllSound
<1>8. Sound(r, elems')
  BY <1>5, <1>6, <1>7
<1> HIDE DEF r
<1> QED
  BY <1>1, <1>8, BecomesSound

LEMMA ClearSound ==
  ASSUME VectorInv, NEW v \in Vectors, clear(v)
  PROVE  VectorInv'
<1> DEFINE r == Cleared(memory, v)
<1>1. Sound(memory, elems) /\ Becomes(r) /\ elems' = Holding(elems, v, <<>>)
  BY DEF VectorInv, clear, Holds, Holding
<1>2. Sound(r, elems')
  BY <1>1, ClearedSound
<1> HIDE DEF r
<1> QED
  BY <1>1, <1>2, BecomesSound

LEMMA ResizeToFitSound ==
  ASSUME VectorInv, NEW v \in Vectors, resize_to_fit(v)
  PROVE  VectorInv'
<1> DEFINE n == vectors[v].m_size
           r == Resized(memory, v, n)
<1>1. Sound(memory, elems) /\ Becomes(r) /\ elems' = elems
  BY DEF VectorInv, resize_to_fit
<1>2. n \in Nat /\ memory.vectors[v].m_size <= n
  BY <1>1, MemoryParts
<1>3. Sound(r, elems')
  BY <1>1, <1>2, ResizedSound
<1> HIDE DEF r
<1> QED
  BY <1>1, <1>3, BecomesSound

LEMMA RemoveSound ==
  ASSUME VectorInv, Habits = {}, NEW v \in Vectors, NEW i \in 1..MaxSize, remove(v, i)
  PROVE  VectorInv'
<1> DEFINE r == Removed(memory, v, i)
<1>1. /\ Sound(memory, elems) /\ vectors = memory.vectors /\ trivially_copyable = TRUE
      /\ Becomes(r) /\ elems' = Holding(elems, v, RemoveAt(elems[v], i))
  BY DEF VectorInv, remove, Careful, Holds, Holding, memory
<1>2. i \in 1..memory.vectors[v].m_size
  <2>1. i <= vectors[v].m_size
    BY DEF remove
  <2>2. vectors[v].m_size \in Nat
    BY <1>1, MemoryParts
  <2> QED
    BY <1>1, <2>1, <2>2, MaxSizeIsNat
<1>3. Sound(r, elems')
  BY <1>1, <1>2, RemovedSound
<1> HIDE DEF r
<1> QED
  BY <1>1, <1>3, BecomesSound

LEMMA RemoveIfSound ==
  ASSUME VectorInv, Habits = {}, NEW v \in Vectors, NEW picked \in SUBSET Values,
         remove_if(v, picked)
  PROVE  VectorInv'
<1> DEFINE r == RemovedIf(memory, v, picked)
           s == elems[v]
<1>1. /\ Sound(memory, elems) /\ trivially_copyable = TRUE
      /\ Becomes(r) /\ elems' = Holding(elems, v, Kept(s, picked))
      /\ \A i \in 1..(Len(s) - 1) : ~({s[i], s[i + 1]} \subseteq picked)
  BY DEF VectorInv, remove_if, Careful, Holds, Holding
<1>2. Sound(r, elems')
  BY <1>1, RemovedIfSound
<1> HIDE DEF r
<1> QED
  BY <1>1, <1>2, BecomesSound

LEMMA NextSound ==
  ASSUME VectorInv, Habits = {}, [Next]_vars
  PROVE  VectorInv'
<1>1. CASE UNCHANGED vars
  BY <1>1 DEF vars, VectorInv, memory
<1>2. CASE Next
  <2>1. PICK v \in Vectors :
          \/ \E n \in 0..MaxSize : construct(v, n)
          \/ \E other \in Vectors :
               \/ copy_construct(v, other) \/ copy_assign(v, other)
               \/ move_construct(v, other) \/ move_assign(v, other)
          \/ destruct(v)
          \/ \E value \in Values : push(v, value)
          \/ pop(v) \/ clear(v) \/ resize_to_fit(v)
          \/ \E value \in Values, i \in 1..MaxSize : at(v, i, value) \/ fill(v, value, i)
          \/ \E i \in 1..MaxSize : remove(v, i)
          \/ \E picked \in SUBSET Values : remove_if(v, picked)
    BY <1>2, Zenon DEF Next
  <2>2. ASSUME NEW n \in 0..MaxSize, construct(v, n) PROVE VectorInv'
    BY <2>2, ConstructSound
  <2>3. ASSUME NEW other \in Vectors,
               \/ copy_construct(v, other) \/ copy_assign(v, other)
               \/ move_construct(v, other) \/ move_assign(v, other)
        PROVE  VectorInv'
    BY <2>3, CopyConstructSound, CopyAssignSound, MoveConstructSound, MoveAssignSound
  <2>4. ASSUME destruct(v) PROVE VectorInv'
    BY <2>4, DestructSound
  <2>5. ASSUME NEW value \in Values, push(v, value) PROVE VectorInv'
    BY <2>5, PushSound
  <2>6. ASSUME pop(v) \/ clear(v) \/ resize_to_fit(v) PROVE VectorInv'
    BY <2>6, PopSound, ClearSound, ResizeToFitSound
  <2>7. ASSUME NEW value \in Values, NEW i \in 1..MaxSize, at(v, i, value) \/ fill(v, value, i)
        PROVE  VectorInv'
    BY <2>7, AtSound, FillSound
  <2>8. ASSUME NEW i \in 1..MaxSize, remove(v, i) PROVE VectorInv'
    BY <2>8, RemoveSound
  <2>9. ASSUME NEW picked \in SUBSET Values, remove_if(v, picked) PROVE VectorInv'
    BY <2>9, RemoveIfSound
  <2> QED
    BY <2>1, <2>2, <2>3, <2>4, <2>5, <2>6, <2>7, <2>8, <2>9, Zenon
<1> QED
  BY <1>1, <1>2

(* Whatever the vectors, the values and the sizes: vectors that are used   *)
(* as the kernel uses them own their storage and their elements.           *)
THEOREM VectorCorrect == Habits = {} /\ Spec => []VectorInv
<1>1. ASSUME Habits = {} PROVE VectorInv /\ [Next]_vars => VectorInv'
  BY <1>1, NextSound
<1>2. CASE Habits = {}
  BY <1>1, <1>2, InitSound, PTL DEF Spec
<1>3. CASE Habits # {}
  BY <1>3
<1> QED
  BY <1>2, <1>3

(* A vector holds what callers put in and did not take out, in order,      *)
(* through every growth, copy, move and removal.                           *)
THEOREM VectorsHoldElements == Habits = {} /\ Spec => []HoldsItsElements
<1>1. VectorInv => HoldsItsElements
  <2> SUFFICES ASSUME VectorInv, NEW v \in Vectors PROVE Contents(memory, v) = elems[v]
    BY DEF HoldsItsElements
  <2>1. Sound(memory, elems)
    BY DEF VectorInv
  <2> HIDE DEF memory
  <2> QED
    BY <2>1, ContentsHeld
<1> QED
  BY <1>1, VectorCorrect, PTL

(* Every object is destroyed exactly once, objects are in the slots below  *)
(* m_size only, and every allocation is one vector's.                      *)
THEOREM ObjectsEndOnce == Habits = {} /\ Spec => []EveryObjectEndsOnce
<1>1. VectorInv => EveryObjectEndsOnce
  <2> SUFFICES ASSUME VectorInv PROVE EveryObjectEndsOnce
    OBVIOUS
  <2>1. Sound(memory, elems)
    BY DEF VectorInv
  <2>2. memory.vectors = vectors /\ memory.heap = heap /\ memory.alive = alive
    BY DEF memory
  <2>3. /\ alive = Cardinality(Objects(vectors)) /\ Apart(vectors)
        /\ DOMAIN heap \subseteq {vectors[v].m_data : v \in Vectors}
        /\ \A v \in Vectors : Owns(vectors[v], heap, elems[v])
    <3> HIDE DEF memory
    <3> QED
      BY <2>1, <2>2 DEF Sound
  <2>4. ASSUME NEW v \in Vectors, vectors[v].m_data = NULL
        PROVE  vectors[v].m_capacity <= 0 /\ vectors[v].m_size = 0
    BY <2>3, <2>4 DEF Owns
  <2>5. ASSUME NEW v \in Vectors, vectors[v].m_data # NULL
        PROVE  /\ vectors[v].m_data \in DOMAIN heap
               /\ Len(heap[vectors[v].m_data]) = vectors[v].m_capacity
               /\ \A i \in 1..vectors[v].m_capacity :
                    (heap[vectors[v].m_data][i] = Raw) = (i > vectors[v].m_size)
               /\ \A w \in Elsewhere(v) : vectors[w].m_data # vectors[v].m_data
    <3> DEFINE u == vectors[v]
               s == elems[v]
    <3>1. /\ s \in Seq(Values) /\ u.m_size = Len(s) /\ u.m_capacity \in Nat
          /\ u.m_data \in DOMAIN heap /\ Len(s) <= u.m_capacity
          /\ heap[u.m_data] = Slots(s, u.m_capacity)
      <4>1. Owns(u, heap, s)
        BY <2>3
      <4> QED
        BY <2>5, <4>1 DEF Owns
    <3>2. /\ Len(heap[u.m_data]) = u.m_capacity
          /\ \A i \in 1..u.m_capacity : heap[u.m_data][i] = IF i <= Len(s) THEN s[i] ELSE Raw
      <4> DEFINE k == u.m_capacity
                 h == heap[u.m_data]
      <4>1. s \in Seq(Values) /\ k \in Nat /\ Len(s) <= k /\ h = Slots(s, k)
        BY <3>1
      <4> HIDE DEF k, h, s
      <4>2. Len(h) = k /\ \A i \in 1..k : h[i] = IF i <= Len(s) THEN s[i] ELSE Raw
        BY <4>1, SlotsMembers
      <4> QED
        BY <4>2 DEF k, h
    <3>3. ASSUME NEW i \in 1..u.m_capacity
          PROVE  (heap[u.m_data][i] = Raw) = (i > u.m_size)
      <4>1. CASE i <= Len(s)
        <5>1. s[i] \in Values /\ ~(i > u.m_size)
          BY <3>1, <4>1
        <5>2. heap[u.m_data][i] # Raw
          BY <3>2, <4>1, <5>1, ValuesAssumption
        <5> QED
          BY <5>1, <5>2
      <4>2. CASE ~(i <= Len(s))
        <5>1. i > u.m_size
          BY <3>1, <4>2
        <5>2. heap[u.m_data][i] = Raw
          BY <3>2, <4>2
        <5> QED
          BY <5>1, <5>2
      <4> QED
        BY <4>1, <4>2
    <3>4. \A w \in Elsewhere(v) : vectors[w].m_data # vectors[v].m_data
      BY <2>3, <2>5 DEF Apart, Elsewhere
    <3> QED
      BY <3>1, <3>2, <3>3, <3>4
  <2> QED
    BY <2>3, <2>4, <2>5 DEF EveryObjectEndsOnce
<1> QED
  BY <1>1, VectorCorrect, PTL

=============================================================================
