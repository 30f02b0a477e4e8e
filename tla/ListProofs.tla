----------------------------- MODULE ListProofs -----------------------------
(***************************************************************************)
(* For every number of lists and of nodes: used as the kernel uses it, a   *)
(* list holds what was put in forwards and backwards, no node is lost or   *)
(* in two lists, and an iterator stays in its list.                        *)
(***************************************************************************)
EXTENDS List, TLAPS, FiniteSetTheorems, SequenceTheorems

OrNull == Nodes \cup {NULL}

(* The node at place k, nullptr beyond both ends.                          *)
NodeAt(s, k) == IF k \in 1..Len(s) THEN s[k] ELSE NULL

(* A list object and pointers that hold the elements s.                    *)
Chain(r, nx, pv, s) ==
  /\ r = [head |-> NodeAt(s, 1), tail |-> NodeAt(s, Len(s)), size |-> Len(s)]
  /\ \A k \in 1..Len(s) : nx[s[k]] = NodeAt(s, k + 1) /\ pv[s[k]] = NodeAt(s, k - 1)

Distinct(s) == \A i, j \in 1..Len(s) : s[i] = s[j] => i = j

(* The lists alone.                                                        *)
LinksInv ==
  /\ elems \in [Lists -> Seq(Nodes)]
  /\ list = [l \in Lists |-> list[l]]
  /\ next \in [Nodes -> OrNull] /\ prev \in [Nodes -> OrNull]
  /\ \A l \in Lists : Chain(list[l], next, prev, elems[l])
  /\ Ownership
  /\ \A n \in Nodes \ live : next[n] = NULL /\ prev[n] = NULL

IteratorInv ==
  /\ it = [list |-> it.list, this |-> it.this, start |-> it.start]
  /\ it.this # NULL => it.list \in Lists
  /\ IteratorStays

ListInv == LinksInv /\ IteratorInv

LEMMA ChainsAreShape == LinksInv => Shape
BY DEF LinksInv, Shape, Chain, NodeAt

LEMMA NullIsNoNode == NULL \notin Nodes
BY ListAssumption

-----------------------------------------------------------------------------
(* Chains.                                                                 *)

(* A chain whose nodes keep their pointers stays.                          *)
LEMMA ChainStays ==
  ASSUME NEW r, NEW nx, NEW pv, NEW s, NEW nx2, NEW pv2, Chain(r, nx, pv, s),
         \A k \in 1..Len(s) : nx2[s[k]] = nx[s[k]] /\ pv2[s[k]] = pv[s[k]]
  PROVE  Chain(r, nx2, pv2, s)
BY DEF Chain

LEMMA ChainEnds ==
  ASSUME NEW r, NEW nx, NEW pv, NEW s \in Seq(Nodes), Chain(r, nx, pv, s)
  PROVE  /\ r.size = Len(s) /\ Len(s) \in Nat
         /\ r.head = NodeAt(s, 1) /\ r.tail = NodeAt(s, Len(s))
BY DEF Chain

LEMMA PutAt ==
  ASSUME NEW f, NEW a, NEW v, NEW n \in Nodes
  PROVE  Put(f, a, v)[n] = IF n = a THEN v ELSE f[n]
BY DEF Put

LEMMA ForgetAt ==
  ASSUME NEW f, NEW freed, NEW n \in Nodes
  PROVE  Forget(f, freed)[n] = IF n \in freed THEN NULL ELSE f[n]
BY DEF Forget

(* A node that no list has, with no pointers, becomes the last.            *)
LEMMA ChainAppended ==
  ASSUME NEW r, NEW nx, NEW pv, NEW s \in Seq(Nodes), NEW n \in Nodes,
         Chain(r, nx, pv, s), Distinct(s), n \notin RangeOf(s),
         nx[n] = NULL, pv[n] = NULL
  PROVE  Chain(PushedBack(r, n),
               IF r.size = 0 THEN nx ELSE Put(nx, r.tail, n),
               IF r.size = 0 THEN pv ELSE Put(pv, n, r.tail), Append(s, n))
<1> DEFINE nx2 == IF r.size = 0 THEN nx ELSE Put(nx, r.tail, n)
           pv2 == IF r.size = 0 THEN pv ELSE Put(pv, n, r.tail)
           t == Append(s, n)
           m == Len(s)
<1>1. /\ m \in Nat /\ Len(t) = m + 1 /\ t[m + 1] = n
      /\ \A k \in 1..m : t[k] = s[k] /\ s[k] \in Nodes /\ s[k] # n
  BY DEF RangeOf
<1>2. r.size = m /\ r.head = NodeAt(s, 1) /\ r.tail = NodeAt(s, m)
  BY ChainEnds
<1>3. m # 0 => r.tail = s[m] /\ r.head = s[1]
  BY <1>1, <1>2 DEF NodeAt
<1>4. \A k \in 1..m : nx[s[k]] = NodeAt(s, k + 1) /\ pv[s[k]] = NodeAt(s, k - 1)
  BY DEF Chain
<1>5. \A k \in 1..m : s[k] = s[m] => k = m
  BY <1>1 DEF Distinct
<1> HIDE DEF t
<1>6. PushedBack(r, n) = [head |-> NodeAt(t, 1), tail |-> NodeAt(t, Len(t)), size |-> Len(t)]
  <2>1. NodeAt(t, Len(t)) = n
    BY <1>1 DEF NodeAt
  <2>2. NodeAt(t, 1) = IF m = 0 THEN n ELSE r.head
    BY <1>1, <1>3 DEF NodeAt
  <2> QED
    BY <1>1, <1>2, <2>1, <2>2 DEF PushedBack
<1>7. ASSUME NEW k \in 1..m PROVE nx2[t[k]] = NodeAt(t, k + 1) /\ pv2[t[k]] = NodeAt(t, k - 1)
  <2>1. nx2[s[k]] = (IF s[k] = s[m] THEN n ELSE nx[s[k]]) /\ pv2[s[k]] = pv[s[k]]
    BY <1>1, <1>2, <1>3, PutAt
  <2>2. NodeAt(t, k + 1) = IF k = m THEN n ELSE NodeAt(s, k + 1)
    BY <1>1 DEF NodeAt
  <2>3. NodeAt(t, k - 1) = NodeAt(s, k - 1)
    BY <1>1 DEF NodeAt
  <2> HIDE DEF nx2, pv2
  <2> QED
    BY <1>1, <1>4, <1>5, <2>1, <2>2, <2>3
<1>8. nx2[n] = NodeAt(t, m + 2) /\ pv2[n] = NodeAt(t, m)
  <2>1. NodeAt(t, m + 2) = NULL /\ NodeAt(t, m) = NodeAt(s, m)
    BY <1>1 DEF NodeAt
  <2>2. nx2[n] = NULL
    BY <1>1, <1>2, <1>3, PutAt
  <2>3. pv2[n] = IF m = 0 THEN NULL ELSE r.tail
    BY <1>2, PutAt
  <2>4. m = 0 => NodeAt(s, m) = NULL
    BY DEF NodeAt
  <2> QED
    BY <1>2, <2>1, <2>2, <2>3, <2>4
<1> HIDE DEF nx2, pv2
<1>9. \A k \in 1..Len(t) : nx2[t[k]] = NodeAt(t, k + 1) /\ pv2[t[k]] = NodeAt(t, k - 1)
  BY <1>1, <1>7, <1>8
<1> QED
  BY <1>6, <1>9 DEF Chain, nx2, pv2, t

(* The same at the front.                                                  *)
LEMMA ChainPrepended ==
  ASSUME NEW r, NEW nx, NEW pv, NEW s \in Seq(Nodes), NEW n \in Nodes,
         Chain(r, nx, pv, s), Distinct(s), n \notin RangeOf(s),
         nx[n] = NULL, pv[n] = NULL
  PROVE  Chain(PushedFront(r, n),
               IF r.size = 0 THEN nx ELSE Put(nx, n, r.head),
               IF r.size = 0 THEN pv ELSE Put(pv, r.head, n), <<n>> \o s)
<1> DEFINE nx2 == IF r.size = 0 THEN nx ELSE Put(nx, n, r.head)
           pv2 == IF r.size = 0 THEN pv ELSE Put(pv, r.head, n)
           t == <<n>> \o s
           m == Len(s)
<1>1. /\ m \in Nat /\ Len(t) = m + 1 /\ t[1] = n
      /\ \A k \in 1..m : t[k + 1] = s[k] /\ s[k] \in Nodes /\ s[k] # n
  BY DEF RangeOf
<1>2. r.size = m /\ r.head = NodeAt(s, 1) /\ r.tail = NodeAt(s, m)
  BY ChainEnds
<1>3. m # 0 => r.tail = s[m] /\ r.head = s[1]
  BY <1>1, <1>2 DEF NodeAt
<1>4. \A k \in 1..m : nx[s[k]] = NodeAt(s, k + 1) /\ pv[s[k]] = NodeAt(s, k - 1)
  BY DEF Chain
<1>5. \A k \in 1..m : s[k] = s[1] => k = 1
  BY <1>1 DEF Distinct
<1> HIDE DEF t
<1>6. PushedFront(r, n) = [head |-> NodeAt(t, 1), tail |-> NodeAt(t, Len(t)), size |-> Len(t)]
  <2>1. NodeAt(t, 1) = n
    BY <1>1 DEF NodeAt
  <2>2. NodeAt(t, Len(t)) = IF m = 0 THEN n ELSE r.tail
    BY <1>1, <1>3 DEF NodeAt
  <2> QED
    BY <1>1, <1>2, <2>1, <2>2 DEF PushedFront
<1>7. ASSUME NEW k \in 1..m
      PROVE  nx2[t[k + 1]] = NodeAt(t, k + 2) /\ pv2[t[k + 1]] = NodeAt(t, k)
  <2>1. nx2[s[k]] = nx[s[k]] /\ pv2[s[k]] = IF s[k] = s[1] THEN n ELSE pv[s[k]]
    BY <1>1, <1>2, <1>3, PutAt
  <2>2. NodeAt(t, k + 2) = NodeAt(s, k + 1)
    BY <1>1 DEF NodeAt
  <2>3. NodeAt(t, k) = IF k = 1 THEN n ELSE NodeAt(s, k - 1)
    BY <1>1 DEF NodeAt
  <2> HIDE DEF nx2, pv2
  <2> QED
    BY <1>1, <1>4, <1>5, <2>1, <2>2, <2>3
<1>8. nx2[n] = NodeAt(t, 2) /\ pv2[n] = NodeAt(t, 0)
  <2>1. NodeAt(t, 2) = NodeAt(s, 1) /\ NodeAt(t, 0) = NULL
    BY <1>1 DEF NodeAt
  <2>2. pv2[n] = NULL
    BY <1>1, <1>2, <1>3, PutAt
  <2>3. nx2[n] = IF m = 0 THEN NULL ELSE r.head
    BY <1>2, PutAt
  <2>4. m = 0 => NodeAt(s, 1) = NULL
    BY DEF NodeAt
  <2> QED
    BY <1>2, <2>1, <2>2, <2>3, <2>4
<1> HIDE DEF nx2, pv2
<1>9. ASSUME NEW k \in 1..Len(t)
      PROVE  nx2[t[k]] = NodeAt(t, k + 1) /\ pv2[t[k]] = NodeAt(t, k - 1)
  <2>1. CASE k = 1
    BY <1>1, <1>8, <2>1
  <2>2. CASE k # 1
    <3>1. k - 1 \in 1..m /\ (k - 1) + 1 = k /\ (k - 1) + 2 = k + 1
      BY <1>1, <2>2
    <3> QED
      BY <1>7, <3>1
  <2> QED
    BY <2>1, <2>2
<1> QED
  BY <1>6, <1>9 DEF Chain, nx2, pv2, t

(* Two sequences, one behind the other.                                    *)
LEMMA Joined ==
  ASSUME NEW S, NEW a \in Seq(S), NEW b \in Seq(S)
  PROVE  /\ a \o b \in Seq(S) /\ Len(a \o b) = Len(a) + Len(b)
         /\ \A i \in 1..(Len(a) + Len(b)) :
              (a \o b)[i] = IF i <= Len(a) THEN a[i] ELSE b[i - Len(a)]
BY ConcatProperties

(* What is left when the element at place k is taken out.                  *)
LEMMA WithoutOne ==
  ASSUME NEW s \in Seq(Nodes), NEW k \in 1..Len(s)
  PROVE  LET t == Without(s, k)
         IN /\ t \in Seq(Nodes) /\ Len(t) = Len(s) - 1
            /\ \A i \in 1..Len(t) : t[i] = IF i < k THEN s[i] ELSE s[i + 1]
<1> DEFINE a == SubSeq(s, 1, k - 1)
           b == SubSeq(s, k + 1, Len(s))
<1>1. Len(s) \in Nat
  OBVIOUS
<1>2. a \in Seq(Nodes) /\ Len(a) = k - 1 /\ \A i \in 1..(k - 1) : a[i] = s[i]
  OBVIOUS
<1>3. b \in Seq(Nodes) /\ Len(b) = Len(s) - k /\ \A i \in 1..(Len(s) - k) : b[i] = s[k + i]
  OBVIOUS
<1> HIDE DEF a, b
<1>4. /\ a \o b \in Seq(Nodes) /\ Len(a \o b) = Len(a) + Len(b)
      /\ \A i \in 1..(Len(a) + Len(b)) : (a \o b)[i] = IF i <= Len(a) THEN a[i] ELSE b[i - Len(a)]
  BY <1>2, <1>3, Joined, Zenon
<1>5. Without(s, k) = a \o b
  BY DEF Without, a, b
<1>6. ASSUME NEW i \in 1..(Len(s) - 1) PROVE (a \o b)[i] = IF i < k THEN s[i] ELSE s[i + 1]
  <2>1. (a \o b)[i] = IF i <= Len(a) THEN a[i] ELSE b[i - Len(a)]
    BY <1>1, <1>2, <1>3, <1>4
  <2> HIDE DEF a, b
  <2>2. CASE i < k
    BY <1>1, <1>2, <2>1, <2>2
  <2>3. CASE ~(i < k)
    <3>1. i - Len(a) \in 1..(Len(s) - k) /\ k + (i - Len(a)) = i + 1 /\ ~(i <= Len(a))
      BY <1>1, <1>2, <2>3
    <3>2. b[i - Len(a)] = s[i + 1]
      BY <1>3, <3>1
    <3> QED
      BY <2>1, <2>3, <3>1, <3>2
  <2> QED
    BY <2>2, <2>3
<1>7. Len(a \o b) = Len(s) - 1
  BY <1>1, <1>2, <1>3, <1>4
<1> QED
  BY <1>4, <1>5, <1>6, <1>7, Zenon

LEMMA WithoutIsLess ==
  ASSUME NEW s \in Seq(Nodes), NEW k \in 1..Len(s), Distinct(s)
  PROVE  /\ Distinct(Without(s, k))
         /\ RangeOf(Without(s, k)) = RangeOf(s) \ {s[k]}
<1> DEFINE t == Without(s, k)
<1>1. /\ Len(s) \in Nat /\ Len(t) = Len(s) - 1
      /\ \A i \in 1..Len(t) : t[i] = IF i < k THEN s[i] ELSE s[i + 1]
  BY WithoutOne
<1> HIDE DEF t
<1>2. \A i \in 1..Len(t) : (IF i < k THEN i ELSE i + 1) \in 1..Len(s)
  BY <1>1
<1>3. Distinct(t)
  <2> SUFFICES ASSUME NEW i \in 1..Len(t), NEW j \in 1..Len(t), t[i] = t[j]
               PROVE  i = j
    BY DEF Distinct
  <2>1. (IF i < k THEN i ELSE i + 1) = (IF j < k THEN j ELSE j + 1)
    BY <1>1, <1>2 DEF Distinct
  <2> QED
    BY <1>1, <2>1
<1>4. ASSUME NEW i \in 1..Len(t) PROVE t[i] \in RangeOf(s) \ {s[k]}
  <2> DEFINE j == IF i < k THEN i ELSE i + 1
  <2>1. t[i] = s[j] /\ j \in 1..Len(s) /\ j # k
    BY <1>1, <1>2
  <2> QED
    BY <2>1 DEF RangeOf, Distinct
<1>5. ASSUME NEW i \in 1..Len(s), i # k PROVE s[i] \in RangeOf(t)
  <2> DEFINE j == IF i < k THEN i ELSE i - 1
  <2>1. j \in 1..Len(t) /\ s[i] = t[j]
    BY <1>1, <1>5
  <2> QED
    BY <2>1 DEF RangeOf
<1> QED
  BY <1>3, <1>4, <1>5 DEF RangeOf, t

(* The pointers nx2 and pv2 lead past n.                                   *)
LedPast(n, nx, pv, nx2, pv2) ==
  \A m \in Nodes : m # n =>
    /\ nx2[m] = IF pv[n] # NULL /\ m = pv[n] THEN nx[n] ELSE nx[m]
    /\ pv2[m] = IF nx[n] # NULL /\ m = nx[n] THEN pv[n] ELSE pv[m]

EndsWithout(r, n, nx) ==
  [head |-> IF n = r.head THEN nx[n] ELSE r.head,
   tail |-> IF n = r.tail THEN nx[n] ELSE r.tail,
   size |-> r.size - 1]

(* take_node and delete: in the middle, at the front, or of the only node. *)
LEMMA ChainTaken ==
  ASSUME NEW r, NEW nx, NEW pv, NEW s \in Seq(Nodes), NEW k \in 1..Len(s),
         Chain(r, nx, pv, s), Distinct(s), Len(s) = 1 \/ k < Len(s),
         NEW nx2, NEW pv2, LedPast(s[k], nx, pv, nx2, pv2)
  PROVE  Chain(EndsWithout(r, s[k], nx), nx2, pv2, Without(s, k))
<1> DEFINE t == Without(s, k)
           m == Len(s)
           r2 == EndsWithout(r, s[k], nx)
<1>1. /\ m \in Nat /\ Len(t) = m - 1
      /\ \A i \in 1..Len(t) : t[i] = IF i < k THEN s[i] ELSE s[i + 1]
      /\ \A i \in 1..m : s[i] \in Nodes
  BY WithoutOne
<1>2. r.size = m /\ r.head = NodeAt(s, 1) /\ r.tail = NodeAt(s, m)
  BY ChainEnds
<1>3. /\ \A i \in 1..m : nx[s[i]] = NodeAt(s, i + 1) /\ pv[s[i]] = NodeAt(s, i - 1)
      /\ \A i, j \in 1..m : s[i] = s[j] => i = j
  BY DEF Chain, Distinct
<1> HIDE DEF t
<1>4. r2 = [head |-> NodeAt(t, 1), tail |-> NodeAt(t, Len(t)), size |-> Len(t)]
  <2>1. r.head = s[1] /\ r.tail = s[m] /\ 1 \in 1..m /\ m \in 1..m
    BY <1>1, <1>2 DEF NodeAt
  <2>2. (s[k] = r.head <=> k = 1) /\ (s[k] = r.tail <=> k = m)
    BY <1>3, <2>1
  <2>3. NodeAt(t, 1) = IF k = 1 THEN NodeAt(s, 2) ELSE s[1]
    BY <1>1, <2>1 DEF NodeAt
  <2>4. NodeAt(t, m - 1) = IF k = m THEN NodeAt(s, m + 1) ELSE s[m]
    BY <1>1, <2>1 DEF NodeAt
  <2> QED
    BY <1>1, <1>2, <1>3, <2>1, <2>2, <2>3, <2>4 DEF EndsWithout
<1>5. ASSUME NEW i \in 1..Len(t) PROVE nx2[t[i]] = NodeAt(t, i + 1) /\ pv2[t[i]] = NodeAt(t, i - 1)
  <2>1. CASE i < k
    <3>1. t[i] = s[i] /\ i \in 1..m /\ s[i] # s[k] /\ s[i] \in Nodes
      BY <1>1, <1>3, <2>1
    <3>2. pv[s[k]] = NodeAt(s, k - 1) /\ nx[s[k]] = NodeAt(s, k + 1)
      BY <1>3
    <3>3. pv[s[k]] = s[k - 1] /\ k - 1 \in 1..m
      BY <1>1, <2>1, <3>2 DEF NodeAt
    <3>4. s[i] = s[k - 1] <=> i = k - 1
      BY <1>3, <3>1, <3>3
    <3>5. NodeAt(t, i + 1) = IF i = k - 1 THEN NodeAt(s, k + 1) ELSE NodeAt(s, i + 1)
      BY <1>1, <2>1 DEF NodeAt
    <3>6. NodeAt(t, i - 1) = NodeAt(s, i - 1)
      BY <1>1, <2>1 DEF NodeAt
    <3>7. s[i] # NodeAt(s, k + 1) \/ NodeAt(s, k + 1) = NULL
      BY <1>1, <1>3, <2>1, <3>1 DEF NodeAt
    <3>8. s[k - 1] # NULL
      BY <1>1, <3>3, NullIsNoNode
    <3>9. nx2[s[i]] = IF i = k - 1 THEN NodeAt(s, k + 1) ELSE nx[s[i]]
      BY <3>1, <3>2, <3>3, <3>4, <3>8 DEF LedPast
    <3>10. pv2[s[i]] = pv[s[i]]
      BY <3>1, <3>2, <3>7 DEF LedPast
    <3>11. nx[s[i]] = NodeAt(s, i + 1) /\ pv[s[i]] = NodeAt(s, i - 1)
      BY <1>3, <3>1
    <3> QED
      BY <3>1, <3>5, <3>6, <3>9, <3>10, <3>11
  <2>2. CASE i >= k
    <3>1. t[i] = s[i + 1] /\ i + 1 \in 1..m /\ s[i + 1] # s[k] /\ s[i + 1] \in Nodes
      BY <1>1, <1>3, <2>2
    <3>2. pv[s[k]] = NodeAt(s, k - 1) /\ nx[s[k]] = NodeAt(s, k + 1)
      BY <1>3
    <3>3. nx[s[k]] = s[k + 1] /\ k + 1 \in 1..m
      BY <1>1, <2>2, <3>2 DEF NodeAt
    <3>4. s[i + 1] = s[k + 1] <=> i = k
      BY <1>1, <1>3, <3>1, <3>3
    <3>5. NodeAt(t, i + 1) = NodeAt(s, i + 2)
      BY <1>1, <2>2 DEF NodeAt
    <3>6. NodeAt(t, i - 1) = IF i = k THEN NodeAt(s, k - 1) ELSE NodeAt(s, i)
      BY <1>1, <2>2 DEF NodeAt
    <3>7. s[i + 1] # NodeAt(s, k - 1) \/ NodeAt(s, k - 1) = NULL
      BY <1>1, <1>3, <2>2, <3>1 DEF NodeAt
    <3>8. s[k + 1] # NULL
      BY <1>1, <3>3, NullIsNoNode
    <3>9. pv2[s[i + 1]] = IF i = k THEN NodeAt(s, k - 1) ELSE pv[s[i + 1]]
      BY <3>1, <3>2, <3>3, <3>4, <3>8 DEF LedPast
    <3>10. nx2[s[i + 1]] = nx[s[i + 1]]
      BY <3>1, <3>2, <3>7 DEF LedPast
    <3>11. nx[s[i + 1]] = NodeAt(s, (i + 1) + 1) /\ pv[s[i + 1]] = NodeAt(s, (i + 1) - 1)
      BY <1>3, <3>1
    <3>12. (i + 1) + 1 = i + 2 /\ (i + 1) - 1 = i
      BY <1>1
    <3> QED
      BY <3>1, <3>5, <3>6, <3>9, <3>10, <3>11, <3>12
  <2> QED
    BY <1>1, <2>1, <2>2
<1> QED
  BY <1>4, <1>5 DEF Chain, t

-----------------------------------------------------------------------------
(* Walks.                                                                  *)

(* Every set of natural numbers that is not empty has a least member.      *)
LEMMA LeastMember ==
  ASSUME NEW S \in SUBSET Nat, S # {}
  PROVE  \E p \in S : \A q \in S : p <= q
<1> DEFINE Below == {p \in Nat \X Nat : p[1] < p[2]}
<1>1. IsWellFoundedOn(Below, Nat)
  BY NatLessThanWellFounded DEF OpToRel
<1> HIDE DEF Below
<1>2. PICK x \in S : \A y \in S : <<y, x>> \notin Below
  BY <1>1, WFMin, Zenon
<1>3. ASSUME NEW y \in S PROVE x <= y
  <2>1. x \in Nat /\ y \in Nat /\ <<y, x>> \notin Below
    BY <1>2
  <2>2. y < x => <<y, x>> \in Below
    BY <2>1 DEF Below
  <2> QED
    BY <2>1, <2>2
<1> QED
  BY <1>3, Zenon

(* What holds of 0, and of a number if it does of the one before, holds up *)
(* to n.                                                                   *)
LEMMA UpTo ==
  ASSUME NEW n \in Nat, NEW S, 0 \in S,
         \A k \in 1..n : k - 1 \in S => k \in S
  PROVE  \A k \in 0..n : k \in S
<1> DEFINE T == {k \in 0..n : k \notin S}
<1>1. SUFFICES ASSUME T # {} PROVE FALSE
  OBVIOUS
<1>2. PICK p \in T : \A q \in T : p <= q
  <2>1. T \in SUBSET Nat
    OBVIOUS
  <2> HIDE DEF T
  <2> QED
    BY <1>1, <2>1, LeastMember, Zenon
<1>3. p \in 1..n /\ p \notin S
  OBVIOUS
<1>4. p - 1 \in 0..n /\ ~(p <= p - 1)
  BY <1>3
<1>5. p - 1 \in S
  BY <1>2, <1>4
<1> QED
  BY <1>3, <1>5

WalkTo(h, nx, steps) ==
  LET walk[k \in 0..steps] == IF k = 0 THEN h ELSE nx[walk[k - 1]] IN walk[steps]

(* A walk from the head of a chain meets its elements in their order.      *)
LEMMA WalkMeets ==
  ASSUME NEW h, NEW nx, NEW s \in Seq(Nodes), NEW steps \in 0..(Len(s) - 1),
         h = s[1], \A k \in 1..Len(s) : nx[s[k]] = NodeAt(s, k + 1)
  PROVE  WalkTo(h, nx, steps) = s[steps + 1]
<1> DEFINE Body(w) == [k \in 0..steps |-> IF k = 0 THEN h ELSE nx[w[k - 1]]]
           walk == CHOOSE w : w = Body(w)
           v == [k \in 0..steps |-> s[k + 1]]
<1>1. v = Body(v)
  <2>1. ASSUME NEW k \in 0..steps PROVE v[k] = IF k = 0 THEN h ELSE nx[v[k - 1]]
    <3>1. CASE k = 0
      BY <3>1
    <3>2. CASE k # 0
      <4>0. Len(s) \in Nat /\ steps \in Int /\ steps <= Len(s) - 1 /\ k \in Int
        OBVIOUS
      <4>1. k - 1 \in 0..steps /\ k \in 1..Len(s) /\ k + 1 \in 1..Len(s) /\ (k - 1) + 1 = k
        BY <3>2, <4>0
      <4>2. v[k - 1] = s[k] /\ v[k] = s[k + 1]
        BY <4>1
      <4>3. nx[s[k]] = s[k + 1]
        BY <4>1 DEF NodeAt
      <4> QED
        BY <3>2, <4>2, <4>3
    <3> QED
      BY <3>1, <3>2
  <2> QED
    BY <2>1
<1>2. walk = Body(walk)
  <2> HIDE DEF v, Body
  <2> QED
    BY <1>1, Zenon
<1> HIDE DEF walk
<1> DEFINE S == {k \in 0..steps : walk[k] = s[k + 1]}
<1>3. \A k \in 0..steps : k \in S
  <2> \A k \in 0..steps : walk[k] = IF k = 0 THEN h ELSE nx[walk[k - 1]]
    BY <1>2, Zenon
  <2>1. 0 \in S
    OBVIOUS
  <2>2. ASSUME NEW k \in 1..steps, k - 1 \in S PROVE k \in S
    <3>1. walk[k] = nx[walk[k - 1]]
      <4>1. k \in 0..steps /\ k # 0
        OBVIOUS
      <4> HIDE DEF Body, v, S
      <4> QED
        BY <4>1, Zenon
    <3>2. walk[k - 1] = s[k] /\ k \in 1..Len(s) /\ k + 1 \in 1..Len(s)
      BY <2>2
    <3> QED
      BY <3>1, <3>2 DEF NodeAt
  <2>3. steps \in Nat
    OBVIOUS
  <2> HIDE DEF S
  <2> QED
    BY <2>1, <2>2, <2>3, UpTo
<1> QED
  BY <1>3 DEF walk, WalkTo

-----------------------------------------------------------------------------
(* What a predicate leaves of a sequence.                                  *)

(* t has the elements of the first k places that are not picked, from the  *)
(* places e, in their order.                                               *)
LeftOver(s, picked, k, t, e) ==
  /\ t \in Seq(Nodes) /\ e \in Seq(Nat) /\ Len(e) = Len(t)
  /\ \A a \in 1..Len(t) : e[a] \in 1..k /\ t[a] = s[e[a]] /\ t[a] \notin picked
  /\ \A a, b \in 1..Len(t) : a < b => e[a] < e[b]
  /\ \A i \in 1..k : s[i] \notin picked => \E a \in 1..Len(t) : e[a] = i

PickedIn(s, picked, k) == {n \in picked : \E i \in 1..k : s[i] = n}

LEMMA NothingLeft ==
  ASSUME NEW s, NEW picked
  PROVE  LeftOver(s, picked, 0, <<>>, <<>>)
BY DEF LeftOver

LEMMA OneMoreLeft ==
  ASSUME NEW s \in Seq(Nodes), NEW picked, NEW k \in 1..Len(s), s[k] \notin picked,
         NEW t, NEW e, LeftOver(s, picked, k - 1, t, e)
  PROVE  LeftOver(s, picked, k, Append(t, s[k]), Append(e, k))
<1> DEFINE u == Append(t, s[k])
           f == Append(e, k)
           m == Len(t)
<1>1. /\ t \in Seq(Nodes) /\ e \in Seq(Nat) /\ Len(e) = m /\ m \in Nat /\ k \in Nat
      /\ s[k] \in Nodes
  BY DEF LeftOver
<1>2. u \in Seq(Nodes) /\ Len(u) = m + 1 /\ u[m + 1] = s[k] /\ \A a \in 1..m : u[a] = t[a]
  BY <1>1
<1>3. f \in Seq(Nat) /\ Len(f) = m + 1 /\ f[m + 1] = k /\ \A a \in 1..m : f[a] = e[a]
  BY <1>1
<1> HIDE DEF u, f
<1>4. /\ \A a \in 1..m : e[a] \in 1..(k - 1) /\ t[a] = s[e[a]] /\ t[a] \notin picked
      /\ \A a, b \in 1..m : a < b => e[a] < e[b]
      /\ \A i \in 1..(k - 1) : s[i] \notin picked => \E a \in 1..m : e[a] = i
  BY DEF LeftOver
<1> HIDE DEF m
<1>5. \A a \in 1..(m + 1) : a \in 1..m \/ a = m + 1
  BY <1>1
<1>6. ASSUME NEW a \in 1..(m + 1)
      PROVE  f[a] \in 1..k /\ u[a] = s[f[a]] /\ u[a] \notin picked
  <2>1. CASE a \in 1..m
    <3>1. f[a] = e[a] /\ u[a] = t[a] /\ e[a] \in 1..(k - 1)
      BY <1>2, <1>3, <1>4, <2>1
    <3>2. e[a] \in 1..k
      BY <1>1, <3>1
    <3> QED
      BY <1>4, <2>1, <3>1, <3>2
  <2>2. CASE a = m + 1
    BY <1>1, <1>2, <1>3, <2>2
  <2> QED
    BY <1>5, <2>1, <2>2
<1>7. ASSUME NEW a \in 1..(m + 1), NEW b \in 1..(m + 1), a < b PROVE f[a] < f[b]
  <2>1. a \in 1..m /\ f[a] = e[a] /\ e[a] < k
    BY <1>1, <1>3, <1>4, <1>7
  <2>2. CASE b \in 1..m
    BY <1>3, <1>4, <1>7, <2>1, <2>2
  <2>3. CASE b = m + 1
    BY <1>3, <2>1, <2>3
  <2> QED
    BY <1>5, <2>2, <2>3
<1>8. ASSUME NEW i \in 1..k, s[i] \notin picked PROVE \E a \in 1..(m + 1) : f[a] = i
  <2>1. CASE i = k
    BY <1>1, <1>3, <2>1
  <2>2. CASE i # k
    <3>1. i \in 1..(k - 1)
      BY <1>1, <2>2
    <3>2. PICK a \in 1..m : e[a] = i
      BY <1>4, <1>8, <3>1
    <3>3. a \in 1..(m + 1) /\ f[a] = i
      BY <1>1, <1>3, <3>2
    <3> QED
      BY <3>3
  <2> QED
    BY <2>1, <2>2
<1> QED
  BY <1>2, <1>3, <1>6, <1>7, <1>8 DEF LeftOver, u, f

LEMMA NoMoreLeft ==
  ASSUME NEW s \in Seq(Nodes), NEW picked, NEW k \in 1..Len(s), s[k] \in picked,
         NEW t, NEW e, LeftOver(s, picked, k - 1, t, e)
  PROVE  LeftOver(s, picked, k, t, e)
<1>1. \A i \in 1..k : s[i] \notin picked => i \in 1..(k - 1)
  OBVIOUS
<1>2. \A i \in 1..(k - 1) : i \in 1..k
  OBVIOUS
<1> QED
  BY <1>1, <1>2 DEF LeftOver

(* With every place one element is either left or picked.                  *)
LEMMA CountPicked ==
  ASSUME NEW s \in Seq(Nodes), Distinct(s), NEW picked, NEW k \in 1..Len(s),
         IsFiniteSet(PickedIn(s, picked, k - 1))
  PROVE  /\ IsFiniteSet(PickedIn(s, picked, k))
         /\ Cardinality(PickedIn(s, picked, k)) =
              Cardinality(PickedIn(s, picked, k - 1)) + (IF s[k] \in picked THEN 1 ELSE 0)
<1> DEFINE before == PickedIn(s, picked, k - 1)
<1>1. Cardinality(before) \in Nat
  BY FS_CardinalityType
<1>2. \A i \in 1..k : i = k \/ i \in 1..(k - 1)
  OBVIOUS
<1>3. \A i \in 1..(k - 1) : i \in 1..k
  OBVIOUS
<1>4. CASE s[k] \notin picked
  <2>1. PickedIn(s, picked, k) = before
    BY <1>2, <1>3, <1>4 DEF PickedIn
  <2> QED
    BY <1>1, <1>4, <2>1
<1>5. CASE s[k] \in picked
  <2>1. PickedIn(s, picked, k) = before \cup {s[k]}
    BY <1>2, <1>3, <1>5 DEF PickedIn
  <2>2. s[k] \notin before
    BY DEF PickedIn, Distinct
  <2> HIDE DEF before
  <2>3. IsFiniteSet(before)
    BY DEF before
  <2>4. /\ IsFiniteSet(before \cup {s[k]})
        /\ Cardinality(before \cup {s[k]}) = Cardinality(before) + 1
    BY <2>2, <2>3, FS_AddElement
  <2> QED
    BY <1>5, <2>1, <2>4 DEF before
<1> QED
  BY <1>4, <1>5

(* Kept is what is left, and as long as the rest.                          *)
LEMMA KeptIsLeft ==
  ASSUME NEW s \in Seq(Nodes), Distinct(s), NEW picked
  PROVE  /\ \E e : LeftOver(s, picked, Len(s), Kept(s, picked), e)
         /\ IsFiniteSet(PickedIn(s, picked, Len(s)))
         /\ Len(Kept(s, picked)) + Cardinality(PickedIn(s, picked, Len(s))) = Len(s)
<1> DEFINE m == Len(s)
           Next1(t, k) == IF s[k] \in picked THEN t ELSE Append(t, s[k])
           Body(g, n) == [k \in 0..n |-> IF k = 0 THEN <<>>
                                         ELSE IF s[k] \in picked THEN g[k - 1]
                                              ELSE Append(g[k - 1], s[k])]
           kept == CHOOSE g : g = Body(g, m)
           S == {n \in Nat : \E g : g = Body(g, n)}
<1>1. m \in Nat
  OBVIOUS
<1>2. 0 \in S
  <2>1. [k \in 0..0 |-> <<>>] = Body([k \in 0..0 |-> <<>>], 0)
    OBVIOUS
  <2> HIDE DEF Body
  <2> QED
    BY <2>1
<1>3. ASSUME NEW n \in 1..m, n - 1 \in S PROVE n \in S
  <2>1. PICK g : g = Body(g, n - 1)
    BY <1>3
  <2> DEFINE h == [k \in 0..n |-> IF k < n THEN g[k] ELSE Next1(g[n - 1], n)]
  <2>2. n \in Nat /\ n - 1 \in Nat
    OBVIOUS
  <2>3. ASSUME NEW k \in 0..n
        PROVE  h[k] = IF k = 0 THEN <<>> ELSE Next1(h[k - 1], k)
    <3>1. CASE k = 0
      <4>1. 0 \in 0..(n - 1) /\ 0 < n
        BY <2>2
      <4>2. g[0] = <<>>
        BY <2>1, <4>1
      <4> QED
        BY <3>1, <4>1, <4>2
    <3>2. CASE k # 0 /\ k < n
      <4>1. k \in 0..(n - 1) /\ k - 1 \in 0..n /\ k - 1 < n /\ k # 0
        BY <3>2
      <4>2. g[k] = IF s[k] \in picked THEN g[k - 1] ELSE Append(g[k - 1], s[k])
        BY <2>1, <4>1, Zenon
      <4>3. h[k] = g[k] /\ h[k - 1] = g[k - 1]
        BY <3>2, <4>1
      <4> HIDE DEF h
      <4> QED
        BY <4>1, <4>2, <4>3
    <3>3. CASE k = n
      <4>1. k - 1 \in 0..n /\ k - 1 < n /\ ~(k < n) /\ k # 0
        BY <3>3
      <4>2. h[k] = Next1(g[n - 1], n) /\ h[k - 1] = g[k - 1]
        BY <3>3, <4>1
      <4> HIDE DEF h
      <4> QED
        BY <3>3, <4>1, <4>2
    <3> QED
      BY <3>1, <3>2, <3>3
  <2>4. h = Body(h, n)
    <3>1. h = [k \in 0..n |-> h[k]]
      OBVIOUS
    <3> HIDE DEF h
    <3> QED
      BY <2>3, <3>1
  <2> HIDE DEF Body, h
  <2> QED
    BY <2>2, <2>4
<1>4. m \in S
  <2> HIDE DEF S
  <2>1. \A n \in 0..m : n \in S
    BY <1>1, <1>2, <1>3, UpTo
  <2> QED
    BY <1>1, <2>1
<1>5. kept = Body(kept, m)
  <2>1. PICK g : g = Body(g, m)
    BY <1>4
  <2> HIDE DEF Body, m
  <2> QED
    BY <2>1, Zenon
<1>6. Kept(s, picked) = kept[m]
  BY DEF Kept
<1> HIDE DEF kept, S
<1>7. \A k \in 0..m : kept[k] = IF k = 0 THEN <<>> ELSE Next1(kept[k - 1], k)
  <2> HIDE DEF m
  <2> QED
    BY <1>5, Zenon
<1> DEFINE Good == {k \in 0..m : /\ \E e : LeftOver(s, picked, k, kept[k], e)
                                 /\ IsFiniteSet(PickedIn(s, picked, k))
                                 /\ Len(kept[k]) + Cardinality(PickedIn(s, picked, k)) = k}
<1>8. 0 \in Good
  <2>1. PickedIn(s, picked, 0) = {}
    BY DEF PickedIn
  <2>2. IsFiniteSet({}) /\ Cardinality({}) = 0
    BY FS_EmptySet
  <2>3. kept[0] = <<>> /\ Len(<<>>) = 0 /\ 0 \in 0..m
    BY <1>1, <1>7
  <2>4. \E e : LeftOver(s, picked, 0, kept[0], e)
    BY <2>3, NothingLeft, Zenon
  <2>5. /\ IsFiniteSet(PickedIn(s, picked, 0))
        /\ Len(kept[0]) + Cardinality(PickedIn(s, picked, 0)) = 0
    <3>1. IsFiniteSet(PickedIn(s, picked, 0)) /\ Cardinality(PickedIn(s, picked, 0)) = 0
      BY <2>1, <2>2, Zenon
    <3>2. Len(kept[0]) = 0
      BY <2>3, Zenon
    <3> QED
      BY <3>1, <3>2
  <2> QED
    BY <2>3, <2>4, <2>5
<1>9. ASSUME NEW k \in 1..m, k - 1 \in Good PROVE k \in Good
  <2>1. k \in 0..m /\ k # 0 /\ k \in Nat /\ k \in 1..Len(s)
    OBVIOUS
  <2>2. PICK e : LeftOver(s, picked, k - 1, kept[k - 1], e)
    BY <1>9
  <2>3. /\ IsFiniteSet(PickedIn(s, picked, k - 1))
        /\ Len(kept[k - 1]) + Cardinality(PickedIn(s, picked, k - 1)) = k - 1
    BY <1>9
  <2>4. kept[k] = Next1(kept[k - 1], k)
    BY <1>7, <2>1
  <2>5. kept[k - 1] \in Seq(Nodes) /\ Len(kept[k - 1]) \in Nat
    BY <2>2 DEF LeftOver
  <2>6. Cardinality(PickedIn(s, picked, k - 1)) \in Nat
    BY <2>3, FS_CardinalityType
  <2>7. /\ IsFiniteSet(PickedIn(s, picked, k))
        /\ Cardinality(PickedIn(s, picked, k)) =
              Cardinality(PickedIn(s, picked, k - 1)) + (IF s[k] \in picked THEN 1 ELSE 0)
    BY <2>1, <2>3, CountPicked
  <2>8. CASE s[k] \in picked
    <3>1. kept[k] = kept[k - 1]
      BY <2>4, <2>8
    <3>2. LeftOver(s, picked, k, kept[k], e)
      BY <2>1, <2>2, <2>8, <3>1, NoMoreLeft
    <3>3. Len(kept[k]) + Cardinality(PickedIn(s, picked, k)) = k
      BY <2>1, <2>3, <2>5, <2>6, <2>7, <2>8, <3>1
    <3> QED
      BY <2>1, <2>7, <3>2, <3>3
  <2>9. CASE s[k] \notin picked
    <3>1. kept[k] = Append(kept[k - 1], s[k])
      BY <2>4, <2>9
    <3>2. LeftOver(s, picked, k, kept[k], Append(e, k))
      BY <2>1, <2>2, <2>9, <3>1, OneMoreLeft
    <3>3. Len(kept[k]) = Len(kept[k - 1]) + 1
      BY <2>5, <3>1
    <3>4. Len(kept[k]) + Cardinality(PickedIn(s, picked, k)) = k
      BY <2>1, <2>3, <2>5, <2>6, <2>7, <2>9, <3>3
    <3> QED
      BY <2>1, <2>7, <3>2, <3>4
  <2> QED
    BY <2>8, <2>9
<1>10. m \in Good
  <2> HIDE DEF Good, m
  <2>1. \A k \in 0..m : k \in Good
    BY <1>1, <1>8, <1>9, UpTo
  <2> QED
    BY <1>1, <2>1
<1> QED
  BY <1>6, <1>10

-----------------------------------------------------------------------------
(* Who has which node.                                                     *)

Owned(E, allocated) ==
  /\ allocated = UNION {RangeOf(E[l]) : l \in Lists}
  /\ \A l \in Lists : Distinct(E[l])
  /\ \A l, m \in Lists : l # m => RangeOf(E[l]) \cap RangeOf(E[m]) = {}

LEMMA OwnedMeans ==
  ASSUME NEW E, NEW allocated
  PROVE  Owned(E, allocated) <=>
           /\ allocated = UNION {RangeOf(E[l]) : l \in Lists}
           /\ \A l, m \in Lists : \A i \in 1..Len(E[l]), j \in 1..Len(E[m]) :
                E[l][i] = E[m][j] => l = m /\ i = j
<1>1. ASSUME NEW l \in Lists, NEW i \in 1..Len(E[l]) PROVE E[l][i] \in RangeOf(E[l])
  BY DEF RangeOf
<1>2. ASSUME Owned(E, allocated), NEW l \in Lists, NEW m \in Lists,
             NEW i \in 1..Len(E[l]), NEW j \in 1..Len(E[m]), E[l][i] = E[m][j]
      PROVE  l = m /\ i = j
  BY <1>1, <1>2 DEF Owned, Distinct
<1>3. ASSUME \A l, m \in Lists : \A i \in 1..Len(E[l]), j \in 1..Len(E[m]) :
               E[l][i] = E[m][j] => l = m /\ i = j
      PROVE  /\ \A l \in Lists : Distinct(E[l])
             /\ \A l, m \in Lists : l # m => RangeOf(E[l]) \cap RangeOf(E[m]) = {}
  BY <1>3 DEF Distinct, RangeOf
<1> QED
  BY <1>2, <1>3 DEF Owned

LEMMA OwnershipMeans == Ownership <=> Owned(elems, live)
BY OwnedMeans DEF Ownership

LEMMA OwnershipMeansNext == Ownership' <=> Owned(elems', live')
BY OwnedMeans DEF Ownership

(* One list gets other elements, which no other list has.                  *)
LEMMA OwnedAfter ==
  ASSUME NEW E \in [Lists -> Seq(Nodes)], NEW allocated, Owned(E, allocated),
         NEW l \in Lists, NEW t \in Seq(Nodes), Distinct(t),
         \A m \in Lists \ {l} : RangeOf(t) \cap RangeOf(E[m]) = {}
  PROVE  /\ Owned([E EXCEPT ![l] = t], (allocated \ RangeOf(E[l])) \cup RangeOf(t))
         /\ [E EXCEPT ![l] = t] \in [Lists -> Seq(Nodes)]
<1> DEFINE F == [E EXCEPT ![l] = t]
<1>1. F \in [Lists -> Seq(Nodes)] /\ F[l] = t /\ \A m \in Lists \ {l} : F[m] = E[m]
  OBVIOUS
<1> HIDE DEF F
<1>2. \A m \in Lists : Distinct(F[m])
  BY <1>1 DEF Owned
<1>3. ASSUME NEW m \in Lists, NEW n \in Lists, m # n
      PROVE  RangeOf(F[m]) \cap RangeOf(F[n]) = {}
  <2>1. CASE m = l
    BY <1>1, <1>3, <2>1
  <2>2. CASE n = l
    <3>1. RangeOf(t) \cap RangeOf(E[m]) = {}
      BY <1>3, <2>2
    <3> QED
      BY <1>1, <1>3, <2>2, <3>1
  <2>3. CASE m # l /\ n # l
    BY <1>1, <1>3, <2>3 DEF Owned
  <2> QED
    BY <2>1, <2>2, <2>3
<1>4. (allocated \ RangeOf(E[l])) \cup RangeOf(t) = UNION {RangeOf(F[m]) : m \in Lists}
  <2>1. allocated = UNION {RangeOf(E[m]) : m \in Lists}
    BY DEF Owned
  <2>2. ASSUME NEW n \in allocated \ RangeOf(E[l]) PROVE \E m \in Lists : n \in RangeOf(F[m])
    <3>1. PICK m \in Lists : n \in RangeOf(E[m])
      BY <2>1
    <3> QED
      BY <1>1, <3>1
  <2>3. ASSUME NEW m \in Lists, NEW n \in RangeOf(F[m])
        PROVE  n \in (allocated \ RangeOf(E[l])) \cup RangeOf(t)
    <3>1. CASE m = l
      BY <1>1, <3>1
    <3>2. CASE m # l
      <4>1. n \in RangeOf(E[m]) /\ n \in allocated
        BY <1>1, <2>1, <3>2
      <4>2. RangeOf(E[m]) \cap RangeOf(E[l]) = {}
        BY <3>2 DEF Owned
      <4> QED
        BY <4>1, <4>2
    <3> QED
      BY <3>1, <3>2
  <2>4. \A n \in RangeOf(t) : n \in RangeOf(F[l])
    BY <1>1
  <2> QED
    BY <2>2, <2>3, <2>4
<1> QED
  BY <1>1, <1>2, <1>3, <1>4 DEF Owned, F

LEMMA OwnedFacts ==
  ASSUME LinksInv
  PROVE  /\ Owned(elems, live)
         /\ \A l \in Lists : /\ elems[l] \in Seq(Nodes) /\ Distinct(elems[l])
                             /\ RangeOf(elems[l]) \subseteq live
                             /\ \A k \in 1..Len(elems[l]) : elems[l][k] \in RangeOf(elems[l])
         /\ live \subseteq Nodes
<1>1. Owned(elems, live) /\ elems \in [Lists -> Seq(Nodes)]
  BY OwnershipMeans DEF LinksInv
<1>2. ASSUME NEW l \in Lists
      PROVE  /\ elems[l] \in Seq(Nodes) /\ Distinct(elems[l])
             /\ RangeOf(elems[l]) \subseteq live
             /\ \A k \in 1..Len(elems[l]) : elems[l][k] \in RangeOf(elems[l])
             /\ RangeOf(elems[l]) \subseteq Nodes
  <2>1. elems[l] \in Seq(Nodes)
    BY <1>1
  <2>2. RangeOf(elems[l]) \subseteq live
    BY <1>1 DEF Owned
  <2> QED
    BY <1>1, <2>1, <2>2 DEF Owned, RangeOf
<1>3. live \subseteq Nodes
  BY <1>1, <1>2 DEF Owned
<1> QED
  BY <1>1, <1>2, <1>3

(* A step that changes the lists of L, and only nodes that no other has.   *)
LEMMA OthersStay ==
  ASSUME LinksInv, NEW L \in SUBSET Lists,
         elems' \in [Lists -> Seq(Nodes)], list' = [l \in Lists |-> list'[l]],
         next' \in [Nodes -> OrNull], prev' \in [Nodes -> OrNull],
         \A l \in Lists \ L : elems'[l] = elems[l] /\ list'[l] = list[l],
         \A l \in Lists \ L : \A n \in RangeOf(elems[l]) : next'[n] = next[n] /\ prev'[n] = prev[n],
         \A l \in L : Chain(list'[l], next', prev', elems'[l]),
         Owned(elems', live'),
         \A n \in Nodes \ live' : next'[n] = NULL /\ prev'[n] = NULL
  PROVE  LinksInv'
<1>1. ASSUME NEW l \in Lists PROVE Chain(list'[l], next', prev', elems'[l])
  <2>1. CASE l \in L
    BY <2>1
  <2>2. CASE l \notin L
    <3>1. Chain(list[l], next, prev, elems[l])
      BY DEF LinksInv
    <3>2. \A k \in 1..Len(elems[l]) : /\ next'[elems[l][k]] = next[elems[l][k]]
                                      /\ prev'[elems[l][k]] = prev[elems[l][k]]
      BY <2>2, OwnedFacts
    <3>3. Chain(list[l], next', prev', elems[l])
      BY <3>1, <3>2, ChainStays
    <3> QED
      BY <2>2, <3>3
  <2> QED
    BY <2>1, <2>2
<1> QED
  BY <1>1, OwnershipMeansNext DEF LinksInv

(* A step that gives one list the elements t.                              *)
LEMMA OneListChanges ==
  ASSUME LinksInv, NEW l \in Lists, NEW t \in Seq(Nodes), Distinct(t), NEW r,
         elems' = [elems EXCEPT ![l] = t], list' = [list EXCEPT ![l] = r],
         live' = (live \ RangeOf(elems[l])) \cup RangeOf(t),
         \A n \in RangeOf(t) : n \in live => n \in RangeOf(elems[l]),
         Chain(r, next', prev', t),
         next' \in [Nodes -> OrNull], prev' \in [Nodes -> OrNull],
         \A n \in live \ RangeOf(elems[l]) : next'[n] = next[n] /\ prev'[n] = prev[n],
         \A n \in Nodes \ live' : next'[n] = NULL /\ prev'[n] = NULL
  PROVE  LinksInv'
<1>1. /\ Owned(elems, live) /\ live \subseteq Nodes
      /\ \A m \in Lists : RangeOf(elems[m]) \subseteq live
      /\ \A m \in Lists \ {l} : RangeOf(elems[m]) \cap RangeOf(elems[l]) = {}
  BY OwnedFacts DEF Owned
<1>2. \A m \in Lists \ {l} : RangeOf(t) \cap RangeOf(elems[m]) = {}
  BY <1>1
<1>3. elems \in [Lists -> Seq(Nodes)] /\ list = [m \in Lists |-> list[m]]
  BY DEF LinksInv
<1>4. Owned(elems', live') /\ elems' \in [Lists -> Seq(Nodes)]
  BY <1>1, <1>2, <1>3, OwnedAfter
<1>5. /\ list' = [m \in Lists |-> list'[m]] /\ list'[l] = r /\ elems'[l] = t
      /\ \A m \in Lists \ {l} : elems'[m] = elems[m] /\ list'[m] = list[m]
  BY <1>3
<1>6. \A m \in Lists \ {l} : \A n \in RangeOf(elems[m]) : next'[n] = next[n] /\ prev'[n] = prev[n]
  BY <1>1
<1> DEFINE L == {l}
<1>7. L \in SUBSET Lists /\ (\A m \in L : m = l) /\ \A m \in Lists \ L : m \in Lists \ {l}
  OBVIOUS
<1> HIDE DEF L
<1> QED
  BY <1>4, <1>5, <1>6, <1>7, OthersStay

-----------------------------------------------------------------------------
(* Adding.                                                                 *)

LEMMA MoreAtTheEnd ==
  ASSUME NEW s \in Seq(Nodes), NEW n \in Nodes, Distinct(s), n \notin RangeOf(s)
  PROVE  /\ Append(s, n) \in Seq(Nodes) /\ Distinct(Append(s, n))
         /\ RangeOf(Append(s, n)) = RangeOf(s) \cup {n}
<1> DEFINE t == Append(s, n)
           m == Len(s)
<1>1. /\ t \in Seq(Nodes) /\ m \in Nat /\ Len(t) = m + 1 /\ t[m + 1] = n
      /\ \A k \in 1..m : t[k] = s[k] /\ s[k] # n
  BY DEF RangeOf
<1> HIDE DEF t
<1>2. \A k \in 1..(m + 1) : k \in 1..m \/ k = m + 1
  BY <1>1
<1>3. \A k \in 1..m : k \in 1..(m + 1) /\ m + 1 \in 1..(m + 1)
  BY <1>1
<1>4. Distinct(t)
  BY <1>1, <1>2 DEF Distinct
<1>5. RangeOf(t) = RangeOf(s) \cup {n}
  BY <1>1, <1>2, <1>3 DEF RangeOf
<1> QED
  BY <1>1, <1>4, <1>5 DEF t

LEMMA MoreAtTheFront ==
  ASSUME NEW s \in Seq(Nodes), NEW n \in Nodes, Distinct(s), n \notin RangeOf(s)
  PROVE  /\ <<n>> \o s \in Seq(Nodes) /\ Distinct(<<n>> \o s)
         /\ RangeOf(<<n>> \o s) = RangeOf(s) \cup {n}
<1> DEFINE t == <<n>> \o s
           m == Len(s)
<1>1. /\ t \in Seq(Nodes) /\ m \in Nat /\ Len(t) = m + 1 /\ t[1] = n
      /\ \A k \in 1..m : t[k + 1] = s[k] /\ s[k] # n
  BY DEF RangeOf
<1> HIDE DEF t
<1>2. \A k \in 1..(m + 1) : k = 1 \/ (k - 1 \in 1..m /\ t[k] = s[k - 1])
  BY <1>1
<1>3. \A k \in 1..m : k + 1 \in 1..(m + 1)
  BY <1>1
<1>4. 1 \in 1..(m + 1)
  BY <1>1
<1>5. Distinct(t)
  <2> SUFFICES ASSUME NEW i \in 1..(m + 1), NEW j \in 1..(m + 1), t[i] = t[j]
               PROVE  i = j
    BY <1>1 DEF Distinct
  <2>1. CASE i = 1 \/ j = 1
    BY <1>1, <1>2, <2>1
  <2>2. CASE i # 1 /\ j # 1
    <3>1. i - 1 \in 1..m /\ j - 1 \in 1..m /\ s[i - 1] = s[j - 1]
      BY <1>2, <2>2
    <3>2. i - 1 = j - 1
      BY <3>1 DEF Distinct
    <3> QED
      BY <3>2
  <2> QED
    BY <2>1, <2>2
<1>6. RangeOf(t) = RangeOf(s) \cup {n}
  <2>1. \A k \in 1..(m + 1) : t[k] \in RangeOf(s) \cup {n}
    BY <1>1, <1>2 DEF RangeOf
  <2>2. \A k \in 1..m : s[k] \in RangeOf(t)
    <3> TAKE k \in 1..m
    <3>1. k + 1 \in 1..Len(t) /\ t[k + 1] = s[k]
      BY <1>1, <1>3
    <3> QED
      BY <3>1 DEF RangeOf
  <2>3. n \in RangeOf(t)
    BY <1>1, <1>4 DEF RangeOf
  <2> QED
    BY <1>1, <2>1, <2>2, <2>3 DEF RangeOf
<1> QED
  BY <1>1, <1>5, <1>6 DEF t

LEMMA PutType ==
  ASSUME NEW f \in [Nodes -> OrNull], NEW a, NEW v \in OrNull
  PROVE  Put(f, a, v) \in [Nodes -> OrNull]
BY DEF Put

LEMMA ForgetType ==
  ASSUME NEW f \in [Nodes -> OrNull], NEW freed
  PROVE  Forget(f, freed) \in [Nodes -> OrNull]
BY DEF Forget, OrNull

(* The ends of a list are its own.                                         *)
LEMMA EndsAreOwn ==
  ASSUME LinksInv, NEW l \in Lists, list[l].size # 0
  PROVE  list[l].head \in RangeOf(elems[l]) /\ list[l].tail \in RangeOf(elems[l])
<1> DEFINE s == elems[l]
<1>1. Chain(list[l], next, prev, s) /\ s \in Seq(Nodes)
  BY OwnedFacts DEF LinksInv
<1> HIDE DEF s
<1>2. /\ list[l].size = Len(s) /\ Len(s) \in Nat
      /\ list[l].head = NodeAt(s, 1) /\ list[l].tail = NodeAt(s, Len(s))
  BY <1>1, ChainEnds
<1>3. 1 \in 1..Len(s) /\ Len(s) \in 1..Len(s)
  BY <1>2
<1>4. list[l].head = s[1] /\ list[l].tail = s[Len(s)]
  BY <1>2, <1>3 DEF NodeAt
<1> QED
  BY <1>3, <1>4 DEF RangeOf, s

LEMMA AppendBackLinks ==
  ASSUME LinksInv, NEW l \in Lists, append_back(l)
  PROVE  LinksInv' /\ it' = it /\ \A m \in Lists : RangeOf(elems[m]) \subseteq RangeOf(elems'[m])
<1> DEFINE s == elems[l]
           r == list[l]
<1>1. PICK n \in Nodes \ live :
        /\ live' = live \cup {n}
        /\ next' = IF r.size = 0 THEN next ELSE Put(next, r.tail, n)
        /\ prev' = IF r.size = 0 THEN prev ELSE Put(prev, n, r.tail)
        /\ list' = [list EXCEPT ![l] = PushedBack(r, n)]
        /\ elems' = [elems EXCEPT ![l] = Append(s, n)]
  BY DEF append_back, LinkBack, LinksInv
<1>2. /\ s \in Seq(Nodes) /\ Distinct(s) /\ RangeOf(s) \subseteq live /\ n \notin RangeOf(s)
      /\ live \subseteq Nodes /\ Chain(r, next, prev, s)
      /\ next \in [Nodes -> OrNull] /\ prev \in [Nodes -> OrNull]
      /\ elems \in [Lists -> Seq(Nodes)]
      /\ \A m \in Nodes \ live : next[m] = NULL /\ prev[m] = NULL
  BY <1>1, OwnedFacts DEF LinksInv
<1>3. r.size # 0 => r.tail \in RangeOf(s)
  BY EndsAreOwn
<1> HIDE DEF s, r
<1>4. /\ Append(s, n) \in Seq(Nodes) /\ Distinct(Append(s, n))
      /\ RangeOf(Append(s, n)) = RangeOf(s) \cup {n}
  BY <1>1, <1>2, MoreAtTheEnd
<1>5. Chain(PushedBack(r, n), next', prev', Append(s, n))
  <2>1. next[n] = NULL /\ prev[n] = NULL
    BY <1>1, <1>2
  <2> QED
    BY <1>1, <1>2, <2>1, ChainAppended
<1>6. next' \in [Nodes -> OrNull] /\ prev' \in [Nodes -> OrNull]
  <2>1. n \in OrNull /\ (r.size # 0 => r.tail \in OrNull)
    BY <1>1, <1>2, <1>3 DEF OrNull
  <2> QED
    BY <1>1, <1>2, <2>1, PutType
<1>7. \A m \in Nodes : m # n /\ m \notin RangeOf(s) => next'[m] = next[m] /\ prev'[m] = prev[m]
  BY <1>1, <1>3, PutAt
<1>8. /\ live' = (live \ RangeOf(s)) \cup RangeOf(Append(s, n))
      /\ \A m \in RangeOf(Append(s, n)) : m \in live => m \in RangeOf(s)
  BY <1>1, <1>2, <1>4
<1>9. /\ \A m \in live \ RangeOf(s) : next'[m] = next[m] /\ prev'[m] = prev[m]
      /\ \A m \in Nodes \ live' : next'[m] = NULL /\ prev'[m] = NULL
  BY <1>1, <1>2, <1>7
<1>10. LinksInv'
  BY <1>1, <1>4, <1>5, <1>6, <1>8, <1>9, OneListChanges DEF s
<1> QED
  BY <1>1, <1>2, <1>4, <1>10 DEF append_back, s

LEMMA AppendFrontLinks ==
  ASSUME LinksInv, NEW l \in Lists, append_front(l)
  PROVE  LinksInv' /\ it' = it /\ \A m \in Lists : RangeOf(elems[m]) \subseteq RangeOf(elems'[m])
<1> DEFINE s == elems[l]
           r == list[l]
<1>1. PICK n \in Nodes \ live :
        /\ live' = live \cup {n}
        /\ next' = IF r.size = 0 THEN next ELSE Put(next, n, r.head)
        /\ prev' = IF r.size = 0 THEN prev ELSE Put(prev, r.head, n)
        /\ list' = [list EXCEPT ![l] = PushedFront(r, n)]
        /\ elems' = [elems EXCEPT ![l] = <<n>> \o s]
  BY DEF append_front, LinksInv
<1>2. /\ s \in Seq(Nodes) /\ Distinct(s) /\ RangeOf(s) \subseteq live /\ n \notin RangeOf(s)
      /\ live \subseteq Nodes /\ Chain(r, next, prev, s)
      /\ next \in [Nodes -> OrNull] /\ prev \in [Nodes -> OrNull]
      /\ elems \in [Lists -> Seq(Nodes)]
      /\ \A m \in Nodes \ live : next[m] = NULL /\ prev[m] = NULL
  BY <1>1, OwnedFacts DEF LinksInv
<1>3. r.size # 0 => r.head \in RangeOf(s)
  BY EndsAreOwn
<1> HIDE DEF s, r
<1>4. /\ <<n>> \o s \in Seq(Nodes) /\ Distinct(<<n>> \o s)
      /\ RangeOf(<<n>> \o s) = RangeOf(s) \cup {n}
  BY <1>1, <1>2, MoreAtTheFront
<1>5. Chain(PushedFront(r, n), next', prev', <<n>> \o s)
  <2>1. next[n] = NULL /\ prev[n] = NULL
    BY <1>1, <1>2
  <2> QED
    BY <1>1, <1>2, <2>1, ChainPrepended
<1>6. next' \in [Nodes -> OrNull] /\ prev' \in [Nodes -> OrNull]
  <2>1. n \in OrNull /\ (r.size # 0 => r.head \in OrNull)
    BY <1>1, <1>2, <1>3 DEF OrNull
  <2> QED
    BY <1>1, <1>2, <2>1, PutType
<1>7. \A m \in Nodes : m # n /\ m \notin RangeOf(s) => next'[m] = next[m] /\ prev'[m] = prev[m]
  BY <1>1, <1>3, PutAt
<1>8. /\ live' = (live \ RangeOf(s)) \cup RangeOf(<<n>> \o s)
      /\ \A m \in RangeOf(<<n>> \o s) : m \in live => m \in RangeOf(s)
  BY <1>1, <1>2, <1>4
<1>9. /\ \A m \in live \ RangeOf(s) : next'[m] = next[m] /\ prev'[m] = prev[m]
      /\ \A m \in Nodes \ live' : next'[m] = NULL /\ prev'[m] = NULL
  BY <1>1, <1>2, <1>7
<1>10. LinksInv'
  BY <1>1, <1>4, <1>5, <1>6, <1>8, <1>9, OneListChanges DEF s
<1> QED
  BY <1>1, <1>2, <1>4, <1>10 DEF append_front, s

-----------------------------------------------------------------------------
(* Taking out.                                                             *)

(* The walk from the head meets the element that the index names.          *)
LEMMA AtIndex ==
  ASSUME LinksInv, NEW l \in Lists, NEW i \in Indices(l)
  PROVE  /\ at_index(l, i) = elems[l][i + 1] /\ i + 1 \in 1..Len(elems[l])
         /\ list[l].size = Len(elems[l]) /\ i \in Nat
<1> DEFINE s == elems[l]
<1>1. Chain(list[l], next, prev, s) /\ s \in Seq(Nodes)
  BY OwnedFacts DEF LinksInv
<1> HIDE DEF s
<1>2. list[l].size = Len(s) /\ list[l].head = NodeAt(s, 1) /\ Len(s) \in Nat
  BY <1>1, ChainEnds
<1>3. i \in 0..(Len(s) - 1) /\ i + 1 \in 1..Len(s) /\ i \in Nat
  BY <1>2 DEF Indices
<1>4. list[l].head = s[1]
  BY <1>2, <1>3 DEF NodeAt
<1>5. \A k \in 1..Len(s) : next[s[k]] = NodeAt(s, k + 1)
  BY <1>1 DEF Chain
<1>6. WalkTo(list[l].head, next, i) = s[i + 1]
  BY <1>1, <1>3, <1>4, <1>5, WalkMeets
<1>7. at_index(l, i) = WalkTo(list[l].head, next, i)
  BY DEF at_index, WalkTo
<1> QED
  BY <1>2, <1>3, <1>6, <1>7 DEF s

LEMMA DeleteLinks ==
  ASSUME LinksInv, NEW l \in Lists, NEW i \in Indices(l), Delete(l, i),
         list[l].size = 1 \/ i < list[l].size - 1
  PROVE  /\ LinksInv'
         /\ elems' = [elems EXCEPT ![l] = Without(elems[l], i + 1)]
         /\ RangeOf(elems'[l]) = RangeOf(elems[l]) \ {at_index(l, i)}
         /\ Chain(list'[l], next', prev', elems'[l])
<1> DEFINE s == elems[l]
           k == i + 1
           n == s[k]
           r == list[l]
           t == Without(s, k)
<1>1. /\ at_index(l, i) = n /\ k \in 1..Len(s) /\ r.size = Len(s) /\ i \in Nat
  BY AtIndex
<1>2. /\ list' = [list EXCEPT ![l] = Taken(r, n)]
      /\ next' = Forget(NextUnlinked(n), {n}) /\ prev' = Forget(PrevUnlinked(n), {n})
      /\ live' = live \ {n}
      /\ elems' = [elems EXCEPT ![l] = t]
  BY <1>1 DEF Delete, LinksInv
<1>3. /\ s \in Seq(Nodes) /\ Distinct(s) /\ RangeOf(s) \subseteq live /\ n \in RangeOf(s)
      /\ live \subseteq Nodes /\ Chain(r, next, prev, s)
      /\ next \in [Nodes -> OrNull] /\ prev \in [Nodes -> OrNull]
      /\ elems \in [Lists -> Seq(Nodes)] /\ list = [m \in Lists |-> list[m]]
      /\ \A m \in Nodes \ live : next[m] = NULL /\ prev[m] = NULL
  BY <1>1, OwnedFacts DEF LinksInv
<1>4. Len(s) = 1 \/ k < Len(s)
  BY <1>1, <1>3
<1>5. t \in Seq(Nodes) /\ Distinct(t) /\ RangeOf(t) = RangeOf(s) \ {n}
  BY <1>1, <1>3, WithoutOne, WithoutIsLess
<1>6. next[n] = NodeAt(s, k + 1) /\ prev[n] = NodeAt(s, k - 1)
  BY <1>1, <1>3 DEF Chain
<1>7. NodeAt(s, k + 1) \in RangeOf(s) \cup {NULL} /\ NodeAt(s, k - 1) \in RangeOf(s) \cup {NULL}
  BY <1>1, <1>3 DEF NodeAt, RangeOf
<1> HIDE DEF s, k, n, r, t
<1>8. LedPast(n, next, prev, next', prev')
  BY <1>2, ForgetAt, PutAt DEF NextUnlinked, PrevUnlinked, LedPast
<1>9. next'[n] = NULL /\ prev'[n] = NULL
  BY <1>2, <1>3, ForgetAt
<1>10. next' \in [Nodes -> OrNull] /\ prev' \in [Nodes -> OrNull]
  <2>1. next[n] \in OrNull /\ prev[n] \in OrNull
    BY <1>3
  <2>2. NextUnlinked(n) \in [Nodes -> OrNull] /\ PrevUnlinked(n) \in [Nodes -> OrNull]
    BY <1>3, <2>1, PutType DEF NextUnlinked, PrevUnlinked
  <2> QED
    BY <1>2, <2>2, ForgetType
<1>11. Chain(Taken(r, n), next', prev', t)
  <2>1. Taken(r, n) = EndsWithout(r, n, next)
    BY DEF Taken, EndsWithout
  <2> QED
    BY <1>1, <1>3, <1>4, <1>8, <2>1, ChainTaken, Zenon DEF n, t
<1>12. live' = (live \ RangeOf(s)) \cup RangeOf(t) /\ RangeOf(t) \subseteq RangeOf(s)
  BY <1>2, <1>3, <1>5
<1>13. \A m \in live \ RangeOf(s) : next'[m] = next[m] /\ prev'[m] = prev[m]
  BY <1>3, <1>6, <1>7, <1>8, ZenonT(60) DEF LedPast
<1>14. \A m \in Nodes \ live' : next'[m] = NULL /\ prev'[m] = NULL
  <2> TAKE m \in Nodes \ live'
  <2>1. CASE m = n
    BY <1>9, <2>1
  <2>2. CASE m # n
    <3>1. m \in Nodes \ live /\ m # prev[n] /\ m # next[n]
      BY <1>2, <1>3, <1>6, <1>7, <2>2, NullIsNoNode
    <3>2. next'[m] = next[m] /\ prev'[m] = prev[m]
      BY <1>8, <2>2, <3>1 DEF LedPast
    <3> QED
      BY <1>3, <3>1, <3>2
  <2> QED
    BY <2>1, <2>2
<1>15. LinksInv'
  BY <1>2, <1>5, <1>10, <1>11, <1>12, <1>13, <1>14, OneListChanges DEF s
<1>16. list'[l] = Taken(r, n) /\ elems'[l] = t
  BY <1>2, <1>3
<1> QED
  BY <1>1, <1>2, <1>5, <1>11, <1>15, <1>16 DEF s, k, t

(* The loop from the head visits all elements.                             *)
LEMMA WalkedAll ==
  ASSUME LinksInv, NEW l \in Lists
  PROVE  Walked(l) = RangeOf(elems[l])
<1>1. list[l].size = Len(elems[l]) /\ Len(elems[l]) \in Nat
  <2>1. Chain(list[l], next, prev, elems[l]) /\ elems[l] \in Seq(Nodes)
    BY OwnedFacts DEF LinksInv
  <2> QED
    BY <2>1, ChainEnds
<1>2. ASSUME NEW i \in Indices(l) PROVE at_index(l, i) \in RangeOf(elems[l])
  BY AtIndex, <1>1 DEF RangeOf
<1>3. ASSUME NEW k \in 1..Len(elems[l]) PROVE elems[l][k] \in Walked(l)
  <2>1. k - 1 \in Indices(l) /\ (k - 1) + 1 = k
    BY <1>1 DEF Indices
  <2>2. at_index(l, k - 1) = elems[l][k]
    BY <2>1, AtIndex
  <2> QED
    BY <2>1, <2>2 DEF Walked
<1> QED
  BY <1>2, <1>3 DEF Walked, RangeOf

LEMMA ClearLinks ==
  ASSUME LinksInv, NEW l \in Lists, clear(l)
  PROVE  LinksInv' /\ elems' = [elems EXCEPT ![l] = <<>>]
<1> DEFINE s == elems[l]
<1>1. Walked(l) = RangeOf(s)
  BY WalkedAll
<1>2. /\ RangeOf(s) \subseteq live /\ live \subseteq Nodes
      /\ next \in [Nodes -> OrNull] /\ prev \in [Nodes -> OrNull]
      /\ \A m \in Nodes \ live : next[m] = NULL /\ prev[m] = NULL
  BY OwnedFacts DEF LinksInv
<1> HIDE DEF s
<1>3. /\ list' = [list EXCEPT ![l] = Empty] /\ elems' = [elems EXCEPT ![l] = <<>>]
      /\ next' = Forget(next, RangeOf(s)) /\ prev' = Forget(prev, RangeOf(s))
      /\ live' = live \ RangeOf(s)
  BY <1>1 DEF clear
<1>4. <<>> \in Seq(Nodes) /\ Distinct(<<>>) /\ RangeOf(<<>>) = {}
  BY DEF Distinct, RangeOf
<1>5. Chain(Empty, next', prev', <<>>)
  BY DEF Chain, Empty, NodeAt
<1>6. next' \in [Nodes -> OrNull] /\ prev' \in [Nodes -> OrNull]
  BY <1>2, <1>3, ForgetType
<1>7. /\ \A m \in live \ RangeOf(s) : next'[m] = next[m] /\ prev'[m] = prev[m]
      /\ \A m \in Nodes \ live' : next'[m] = NULL /\ prev'[m] = NULL
  BY <1>2, <1>3, ForgetAt
<1>8. /\ live' = (live \ RangeOf(s)) \cup RangeOf(<<>>)
      /\ \A m \in RangeOf(<<>>) : m \in live => m \in RangeOf(s)
  BY <1>3, <1>4
<1> HIDE DEF Empty
<1> QED
  BY <1>3, <1>4, <1>5, <1>6, <1>7, <1>8, OneListChanges DEF s

-----------------------------------------------------------------------------
(* Two lists.                                                              *)

LEMMA MoveLinks ==
  ASSUME LinksInv, NEW l \in Lists, NEW other \in Lists, move(l, other), Habits = {}
  PROVE  /\ LinksInv' /\ elems[l] = <<>>
         /\ elems' = [elems EXCEPT ![l] = elems[other], ![other] = <<>>]
<1> DEFINE s == elems[other]
<1>1. /\ l # other /\ list[l].size = 0
      /\ list' = [list EXCEPT ![l] = list[other], ![other] = Empty]
      /\ elems' = [elems EXCEPT ![l] = s, ![other] = <<>>]
      /\ next' = next /\ prev' = prev /\ live' = live
  BY DEF move
<1>2. /\ elems \in [Lists -> Seq(Nodes)] /\ list = [m \in Lists |-> list[m]]
      /\ Owned(elems, live) /\ RangeOf(s) \subseteq live /\ Distinct(s) /\ s \in Seq(Nodes)
      /\ next \in [Nodes -> OrNull] /\ prev \in [Nodes -> OrNull]
      /\ \A m \in Nodes \ live : next[m] = NULL /\ prev[m] = NULL
      /\ Chain(list[l], next, prev, elems[l]) /\ Chain(list[other], next, prev, s)
  BY OwnedFacts DEF LinksInv
<1>3. elems[l] = <<>>
  <2>1. elems[l] \in Seq(Nodes) /\ Len(elems[l]) = 0
    BY <1>1, <1>2, ChainEnds
  <2> QED
    BY <2>1
<1>4. <<>> \in Seq(Nodes) /\ Distinct(<<>>) /\ RangeOf(<<>>) = {}
  BY DEF Distinct, RangeOf
<1> HIDE DEF s
<1> DEFINE E == [elems EXCEPT ![other] = <<>>]
           left == (live \ RangeOf(s)) \cup RangeOf(<<>>)
<1>5. Owned(E, left) /\ E \in [Lists -> Seq(Nodes)]
  <2>1. \A m \in Lists \ {other} : RangeOf(<<>>) \cap RangeOf(elems[m]) = {}
    BY <1>4
  <2> QED
    BY <1>2, <1>4, <2>1, OwnedAfter DEF s
<1>6. E[l] = <<>> /\ E[other] = <<>> /\ \A m \in Lists \ {l, other} : E[m] = elems[m]
  BY <1>1, <1>2, <1>3
<1>7. \A m \in Lists \ {l} : RangeOf(s) \cap RangeOf(E[m]) = {}
  <2> HIDE DEF E
  <2>1. \A m \in Lists \ {l, other} : RangeOf(s) \cap RangeOf(elems[m]) = {}
    BY <1>2 DEF Owned, s
  <2> QED
    BY <1>4, <1>6, <2>1
<1>8. [E EXCEPT ![l] = s] = elems'
  BY <1>1, <1>2
<1> HIDE DEF E
<1>9. (left \ RangeOf(E[l])) \cup RangeOf(s) = live'
  BY <1>1, <1>2, <1>4, <1>6
<1> HIDE DEF left
<1>10. Owned(elems', live') /\ elems' \in [Lists -> Seq(Nodes)]
  BY <1>2, <1>5, <1>7, <1>8, <1>9, OwnedAfter
<1>11. Chain(Empty, next', prev', <<>>)
  BY DEF Chain, Empty, NodeAt
<1> HIDE DEF Empty
<1>12. /\ list' = [m \in Lists |-> list'[m]]
       /\ list'[l] = list[other] /\ list'[other] = Empty /\ elems'[l] = s /\ elems'[other] = <<>>
       /\ \A m \in Lists \ {l, other} : elems'[m] = elems[m] /\ list'[m] = list[m]
  BY <1>1, <1>2
<1> DEFINE L == {l, other}
<1>13. \A m \in L : Chain(list'[m], next', prev', elems'[m])
  BY <1>1, <1>2, <1>11, <1>12
<1>14. LinksInv'
  <2>1. L \in SUBSET Lists
    OBVIOUS
  <2>2. \A m \in Lists \ L : elems'[m] = elems[m] /\ list'[m] = list[m]
    BY <1>12
  <2>3. \A m \in Lists \ L : \A n \in RangeOf(elems[m]) : next'[n] = next[n] /\ prev'[n] = prev[n]
    BY <1>1
  <2>4. next' \in [Nodes -> OrNull] /\ prev' \in [Nodes -> OrNull]
    BY <1>1, <1>2
  <2>5. \A n \in Nodes \ live' : next'[n] = NULL /\ prev'[n] = NULL
    BY <1>1, <1>2
  <2>6. list' = [m \in Lists |-> list'[m]]
    BY <1>12
  <2> HIDE DEF L
  <2> QED
    BY <1>10, <1>13, <2>1, <2>2, <2>3, <2>4, <2>5, <2>6, OthersStay, Zenon
<1> QED
  BY <1>1, <1>3, <1>14 DEF s

(* The only node of one list becomes the last of another.                  *)
LEMMA TakeBackLinks ==
  ASSUME LinksInv, NEW l \in Lists, NEW other \in Lists, NEW i \in Indices(other),
         take_back(l, other, i), Habits = {}
  PROVE  /\ LinksInv' /\ RangeOf(elems[other]) = {at_index(other, i)}
         /\ RangeOf(elems[l]) \subseteq RangeOf(elems'[l])
         /\ \A m \in Lists \ {other} : RangeOf(elems[m]) \subseteq RangeOf(elems'[m])
<1> DEFINE n == at_index(other, i)
           s == elems[l]
           r == list[l]
<1>1. l # other /\ list[other].size = 1
  BY DEF take_back
<1>2. elems[other][i + 1] = n /\ Len(elems[other]) = 1 /\ i = 0
  <2>1. /\ at_index(other, i) = elems[other][i + 1] /\ i + 1 \in 1..Len(elems[other])
        /\ list[other].size = Len(elems[other]) /\ i \in Nat
    BY AtIndex
  <2>2. Len(elems[other]) = 1
    BY <1>1, <2>1
  <2>3. i + 1 \in 1..1
    BY <2>1, <2>2
  <2>4. i = 0
    BY <2>1, <2>3
  <2>5. elems[other][i + 1] = n
    BY <2>1
  <2> QED
    BY <2>2, <2>4, <2>5
<1> HIDE DEF n
<1>3. elems[other] \in Seq(Nodes) /\ elems[other][1] = n
  BY <1>2, OwnedFacts
<1>4. n \in Nodes /\ RangeOf(elems[other]) = {n} /\ Without(elems[other], i + 1) = <<>>
  <2>1. Len(Without(elems[other], 1)) = 0 /\ Without(elems[other], 1) \in Seq(Nodes)
    BY <1>2, <1>3, WithoutOne
  <2> QED
    BY <1>2, <1>3, <2>1 DEF RangeOf
<1>5. next[n] = NULL /\ prev[n] = NULL /\ list[other].head = n /\ list[other].tail = n
  <2>1. Chain(list[other], next, prev, elems[other])
    BY DEF LinksInv
  <2>2. list[other].head = NodeAt(elems[other], 1) /\ list[other].tail = NodeAt(elems[other], 1)
    BY <1>2, <1>3, <2>1, ChainEnds
  <2>3. 1 \in 1..Len(elems[other])
    BY <1>2
  <2>4. /\ next[elems[other][1]] = NodeAt(elems[other], 1 + 1)
        /\ prev[elems[other][1]] = NodeAt(elems[other], 1 - 1)
    BY <2>1, <2>3 DEF Chain
  <2> QED
    BY <1>2, <1>3, <2>2, <2>4 DEF NodeAt
<1>6. NextUnlinked(n) = next /\ PrevUnlinked(n) = prev
  BY <1>5 DEF NextUnlinked, PrevUnlinked
<1>7. Taken(list[other], n) = Empty
  BY <1>1, <1>5 DEF Taken, Empty
<1>8. /\ next' = IF r.size = 0 THEN next ELSE Put(next, r.tail, n)
      /\ prev' = IF r.size = 0 THEN prev ELSE Put(prev, n, r.tail)
      /\ list' = [list EXCEPT ![other] = Empty, ![l] = PushedBack(r, n)]
      /\ elems' = [elems EXCEPT ![other] = <<>>, ![l] = Append(s, n)]
      /\ live' = live
  <2>1. /\ LinkBack(l, n, NextUnlinked(n), PrevUnlinked(n))
        /\ list' = [list EXCEPT ![other] = Taken(@, n), ![l] = PushedBack(@, n)]
        /\ elems' = [elems EXCEPT ![other] = Without(@, i + 1), ![l] = Append(@, n)]
        /\ live' = live
    BY DEF take_back, n
  <2>2. elems \in [Lists -> Seq(Nodes)] /\ list = [m \in Lists |-> list[m]]
    BY DEF LinksInv
  <2>3. list' = [list EXCEPT ![other] = Empty, ![l] = PushedBack(r, n)]
    BY <1>1, <1>7, <2>1, <2>2
  <2>4. elems' = [elems EXCEPT ![other] = <<>>, ![l] = Append(s, n)]
    BY <1>1, <1>4, <2>1, <2>2
  <2> QED
    BY <1>6, <2>1, <2>3, <2>4 DEF LinkBack
<1>9. /\ elems \in [Lists -> Seq(Nodes)] /\ list = [m \in Lists |-> list[m]]
      /\ Owned(elems, live) /\ live \subseteq Nodes
      /\ RangeOf(s) \subseteq live /\ Distinct(s) /\ s \in Seq(Nodes)
      /\ next \in [Nodes -> OrNull] /\ prev \in [Nodes -> OrNull]
      /\ \A m \in Nodes \ live : next[m] = NULL /\ prev[m] = NULL
      /\ Chain(r, next, prev, s) /\ n \in live
  BY <1>4, OwnedFacts DEF LinksInv
<1>10. n \notin RangeOf(s)
  BY <1>1, <1>4, <1>9 DEF Owned
<1>11. r.size # 0 => r.tail \in RangeOf(s)
  BY EndsAreOwn
<1> DEFINE t == Append(s, n)
<1>12. t \in Seq(Nodes) /\ Distinct(t) /\ RangeOf(t) = RangeOf(s) \cup {n}
  BY <1>4, <1>9, <1>10, MoreAtTheEnd
<1>13. Chain(PushedBack(r, n), next', prev', t)
  BY <1>4, <1>5, <1>8, <1>9, <1>10, ChainAppended
<1>14. <<>> \in Seq(Nodes) /\ Distinct(<<>>) /\ RangeOf(<<>>) = {}
  BY DEF Distinct, RangeOf
<1>15. Chain(Empty, next', prev', <<>>)
  BY DEF Chain, Empty, NodeAt
<1> HIDE DEF Empty, t
<1> DEFINE E == [elems EXCEPT ![other] = <<>>]
           left == (live \ {n}) \cup RangeOf(<<>>)
<1>16. Owned(E, left) /\ E \in [Lists -> Seq(Nodes)]
  <2>1. \A m \in Lists \ {other} : RangeOf(<<>>) \cap RangeOf(elems[m]) = {}
    BY <1>14
  <2> QED
    BY <1>4, <1>9, <1>14, <2>1, OwnedAfter
<1>17. E[l] = s /\ E[other] = <<>> /\ \A m \in Lists \ {l, other} : E[m] = elems[m]
  BY <1>1, <1>9
<1>18. [E EXCEPT ![l] = t] = elems'
  BY <1>1, <1>8, <1>9 DEF t
<1> HIDE DEF E, s
<1>19. \A m \in Lists \ {l} : RangeOf(t) \cap RangeOf(E[m]) = {}
  <2>1. \A m \in Lists \ {l, other} : RangeOf(t) \cap RangeOf(elems[m]) = {}
    BY <1>4, <1>9, <1>12 DEF Owned, s
  <2> QED
    BY <1>14, <1>17, <2>1
<1>20. (left \ RangeOf(E[l])) \cup RangeOf(t) = live'
  BY <1>8, <1>9, <1>12, <1>14, <1>17
<1> HIDE DEF left
<1>21. Owned(elems', live') /\ elems' \in [Lists -> Seq(Nodes)]
  BY <1>12, <1>16, <1>18, <1>19, <1>20, OwnedAfter
<1>22. /\ list' = [m \in Lists |-> list'[m]]
       /\ list'[l] = PushedBack(r, n) /\ list'[other] = Empty
       /\ elems'[l] = t /\ elems'[other] = <<>>
       /\ \A m \in Lists \ {l, other} : elems'[m] = elems[m] /\ list'[m] = list[m]
  BY <1>1, <1>8, <1>9 DEF t
<1> DEFINE L == {l, other}
<1>23. \A m \in L : Chain(list'[m], next', prev', elems'[m])
  BY <1>13, <1>15, <1>22
<1>24. next' \in [Nodes -> OrNull] /\ prev' \in [Nodes -> OrNull]
  <2>1. n \in OrNull /\ (r.size # 0 => r.tail \in OrNull)
    BY <1>4, <1>9, <1>11 DEF OrNull
  <2> QED
    BY <1>8, <1>9, <2>1, PutType
<1>25. \A m \in Nodes : m # n /\ m \notin RangeOf(s) => next'[m] = next[m] /\ prev'[m] = prev[m]
  BY <1>8, <1>11, PutAt
<1>26. \A m \in Lists \ L : \A k \in RangeOf(elems[m]) : next'[k] = next[k] /\ prev'[k] = prev[k]
  <2> SUFFICES ASSUME NEW m \in Lists \ L, NEW k \in RangeOf(elems[m])
               PROVE  next'[k] = next[k] /\ prev'[k] = prev[k]
    OBVIOUS
  <2>1. k \in Nodes
    BY OwnedFacts
  <2>2. k # n /\ k \notin RangeOf(s)
    BY <1>4, <1>9 DEF Owned, s
  <2> QED
    BY <1>25, <2>1, <2>2
<1>27. \A m \in Nodes \ live' : next'[m] = NULL /\ prev'[m] = NULL
  BY <1>8, <1>9, <1>25
<1>28. LinksInv'
  <2>1. L \in SUBSET Lists
    OBVIOUS
  <2>2. \A m \in Lists \ L : elems'[m] = elems[m] /\ list'[m] = list[m]
    BY <1>22
  <2>3. list' = [m \in Lists |-> list'[m]]
    BY <1>22
  <2> HIDE DEF L
  <2> QED
    BY <1>21, <1>23, <1>24, <1>26, <1>27, <2>1, <2>2, <2>3, OthersStay, Zenon
<1>29. \A m \in Lists \ {other} : RangeOf(elems[m]) \subseteq RangeOf(elems'[m])
  BY <1>12, <1>22 DEF s
<1> QED
  BY <1>1, <1>4, <1>28, <1>29 DEF n

-----------------------------------------------------------------------------
(* remove_if.                                                              *)

KeptIndices(l, picked) == {i \in Indices(l) : at_index(l, i) \notin picked}

LinkOf(l, i, side) ==
  IF side = {} THEN NULL
  ELSE at_index(l, CHOOSE j \in side : \A k \in side : (i < j => j <= k) /\ (j < i => k <= j))

IndexOfKept(l, picked, n) == CHOOSE i \in KeptIndices(l, picked) : at_index(l, i) = n

IsKept(l, picked, n) == \E i \in KeptIndices(l, picked) : at_index(l, i) = n

NextOfKept(l, picked, n) ==
  LET i == IndexOfKept(l, picked, n)
  IN LinkOf(l, i, {j \in KeptIndices(l, picked) : j > i})

PrevOfKept(l, picked, n) ==
  LET i == IndexOfKept(l, picked, n)
  IN LinkOf(l, i, {j \in KeptIndices(l, picked) : j < i})

(* The closest of the places on one side.                                  *)
LEMMA Closest ==
  ASSUME NEW side \in SUBSET Int, NEW i \in Int, NEW j \in side,
         (\A k \in side : i < k /\ j <= k) \/ (\A k \in side : k < i /\ k <= j)
  PROVE  (CHOOSE x \in side : \A k \in side : (i < x => x <= k) /\ (x < i => k <= x)) = j
<1> DEFINE P(x) == \A k \in side : (i < x => x <= k) /\ (x < i => k <= x)
<1>1. P(j)
  OBVIOUS
<1>2. \A x \in side : P(x) => x = j
  OBVIOUS
<1> HIDE DEF P
<1>3. (CHOOSE x \in side : P(x)) = j
  BY <1>1, <1>2, Zenon
<1> QED
  BY <1>3 DEF P

(* The nodes that are kept are linked in the order of what is left.        *)
LEMMA KeptAreLinked ==
  ASSUME LinksInv, NEW l \in Lists, NEW picked, NEW t, NEW e,
         LeftOver(elems[l], picked, Len(elems[l]), t, e), NEW a \in 1..Len(t)
  PROVE  /\ IsKept(l, picked, t[a])
         /\ NextOfKept(l, picked, t[a]) = NodeAt(t, a + 1)
         /\ PrevOfKept(l, picked, t[a]) = NodeAt(t, a - 1)
<1> DEFINE s == elems[l]
           K == KeptIndices(l, picked)
           i == e[a] - 1
<1>1. /\ s \in Seq(Nodes) /\ Distinct(s) /\ Len(s) \in Nat
      /\ Indices(l) = 0..(Len(s) - 1)
      /\ \A k \in Indices(l) : at_index(l, k) = s[k + 1]
  <2>1. Chain(list[l], next, prev, s) /\ s \in Seq(Nodes) /\ Distinct(s)
    BY OwnedFacts DEF LinksInv
  <2>2. list[l].size = Len(s) /\ Len(s) \in Nat
    BY <2>1, ChainEnds
  <2> QED
    BY <2>1, <2>2, AtIndex DEF Indices
<1>2. /\ t \in Seq(Nodes) /\ Len(t) \in Nat
      /\ \A b \in 1..Len(t) : e[b] \in 1..Len(s) /\ t[b] = s[e[b]] /\ t[b] \notin picked
      /\ \A b, c \in 1..Len(t) : b < c => e[b] < e[c]
      /\ \A k \in 1..Len(s) : s[k] \notin picked => \E b \in 1..Len(t) : e[b] = k
  BY DEF LeftOver
<1> HIDE DEF s
<1>3. ASSUME NEW b \in 1..Len(t) PROVE e[b] - 1 \in K /\ at_index(l, e[b] - 1) = t[b]
  <2>1. e[b] - 1 \in Indices(l) /\ (e[b] - 1) + 1 = e[b]
    BY <1>1, <1>2
  <2> QED
    BY <1>1, <1>2, <2>1 DEF KeptIndices
<1>4. ASSUME NEW j \in K PROVE \E b \in 1..Len(t) : j = e[b] - 1
  <2>1. j \in Indices(l) /\ at_index(l, j) \notin picked
    BY DEF KeptIndices
  <2>2. j + 1 \in 1..Len(s) /\ s[j + 1] \notin picked /\ j \in Int
    BY <1>1, <2>1
  <2>3. PICK b \in 1..Len(t) : e[b] = j + 1
    BY <1>2, <2>2
  <2> QED
    BY <2>2, <2>3
<1>5. K \in SUBSET Int
  BY <1>1 DEF KeptIndices
<1> HIDE DEF K
<1>6. IndexOfKept(l, picked, t[a]) = i
  <2>1. i \in K /\ at_index(l, i) = t[a]
    BY <1>3
  <2>2. ASSUME NEW j \in K, at_index(l, j) = t[a] PROVE j = i
    <3>1. PICK b \in 1..Len(t) : j = e[b] - 1
      BY <1>4
    <3>2. t[b] = t[a]
      BY <1>3, <2>2, <3>1
    <3>3. e[b] = e[a]
      <4>1. s[e[b]] = s[e[a]] /\ e[b] \in 1..Len(s) /\ e[a] \in 1..Len(s)
        BY <1>2, <3>2
      <4>2. \A x, y \in 1..Len(s) : s[x] = s[y] => x = y
        BY <1>1 DEF Distinct
      <4> QED
        BY <4>1, <4>2, Zenon
    <3> QED
      BY <3>1, <3>3
  <2> HIDE DEF i
  <2> QED
    BY <2>1, <2>2, Zenon DEF IndexOfKept, K
<1>7. IsKept(l, picked, t[a])
  BY <1>3 DEF IsKept, K
<1>8. i \in Int /\ e[a] \in Int
  BY <1>2
<1>9. NextOfKept(l, picked, t[a]) = NodeAt(t, a + 1)
  <2> DEFINE side == {j \in K : j > i}
  <2>1. NextOfKept(l, picked, t[a]) = LinkOf(l, i, side)
    BY <1>6 DEF NextOfKept, K
  <2>2. CASE a = Len(t)
    <3>1. side = {}
      <4> SUFFICES ASSUME NEW j \in side PROVE FALSE
        OBVIOUS
      <4>1. PICK b \in 1..Len(t) : j = e[b] - 1
        BY <1>4
      <4>2. e[b] > e[a] /\ e[b] \in Int
        BY <1>2, <1>8, <4>1
      <4>3. b < a \/ b = a
        BY <1>2, <2>2
      <4> QED
        BY <1>2, <1>8, <4>2, <4>3
    <3>2. NodeAt(t, a + 1) = NULL
      BY <1>2, <2>2 DEF NodeAt
    <3> QED
      BY <2>1, <3>1, <3>2 DEF LinkOf
  <2>3. CASE a # Len(t)
    <3> DEFINE j == e[a + 1] - 1
    <3>1. a + 1 \in 1..Len(t) /\ a < a + 1
      BY <1>2, <2>3
    <3>2. j \in side /\ at_index(l, j) = t[a + 1]
      <4>1. e[a] < e[a + 1] /\ e[a + 1] \in Int
        BY <1>2, <3>1
      <4>2. j \in K /\ at_index(l, j) = t[a + 1]
        BY <1>3, <3>1
      <4> QED
        BY <1>8, <4>1, <4>2
    <3>3. ASSUME NEW k \in side PROVE i < k /\ j <= k
      <4>1. PICK b \in 1..Len(t) : k = e[b] - 1
        BY <1>4
      <4>2. e[b] > e[a] /\ e[b] \in Int /\ e[a + 1] \in Int
        BY <1>2, <1>8, <3>1, <4>1
      <4>3. ~(b < a) /\ b # a
        BY <1>2, <1>8, <4>2
      <4>4. b = a + 1 \/ a + 1 < b
        BY <1>2, <4>3
      <4>5. e[a + 1] <= e[b]
        BY <1>2, <3>1, <4>2, <4>4
      <4> QED
        BY <1>8, <4>1, <4>2, <4>5
    <3>4. side \in SUBSET Int /\ side # {}
      BY <1>5, <3>2
    <3> HIDE DEF side, j, i
    <3>5. (CHOOSE x \in side : \A k \in side : (i < x => x <= k) /\ (x < i => k <= x)) = j
      BY <1>8, <3>2, <3>3, <3>4, Closest
    <3>6. LinkOf(l, i, side) = at_index(l, j)
      BY <3>4, <3>5, Zenon DEF LinkOf
    <3>7. NodeAt(t, a + 1) = t[a + 1]
      BY <3>1 DEF NodeAt
    <3> QED
      BY <2>1, <3>2, <3>6, <3>7 DEF side
  <2> QED
    BY <2>2, <2>3
<1>10. PrevOfKept(l, picked, t[a]) = NodeAt(t, a - 1)
  <2> DEFINE side == {j \in K : j < i}
  <2>1. PrevOfKept(l, picked, t[a]) = LinkOf(l, i, side)
    BY <1>6 DEF PrevOfKept, K
  <2>2. CASE a = 1
    <3>1. side = {}
      <4> SUFFICES ASSUME NEW j \in side PROVE FALSE
        OBVIOUS
      <4>1. PICK b \in 1..Len(t) : j = e[b] - 1
        BY <1>4
      <4>2. e[b] < e[a] /\ e[b] \in Int
        <5>1. e[b] \in Int
          BY <1>2
        <5>2. e[b] - 1 < e[a] - 1
          BY <4>1
        <5> QED
          BY <1>8, <5>1, <5>2
      <4>3. a < b \/ b = a
        BY <1>2, <2>2
      <4> QED
        BY <1>2, <1>8, <4>2, <4>3
    <3>2. NodeAt(t, a - 1) = NULL
      BY <1>2, <2>2 DEF NodeAt
    <3> QED
      BY <2>1, <3>1, <3>2 DEF LinkOf
  <2>3. CASE a # 1
    <3> DEFINE j == e[a - 1] - 1
    <3>1. a - 1 \in 1..Len(t) /\ a - 1 < a
      BY <1>2, <2>3
    <3>2. j \in side /\ at_index(l, j) = t[a - 1]
      <4>1. e[a - 1] < e[a] /\ e[a - 1] \in Int
        BY <1>2, <3>1
      <4>2. j \in K /\ at_index(l, j) = t[a - 1]
        BY <1>3, <3>1
      <4> QED
        BY <1>8, <4>1, <4>2
    <3>3. ASSUME NEW k \in side PROVE k < i /\ k <= j
      <4>1. PICK b \in 1..Len(t) : k = e[b] - 1
        BY <1>4
      <4>2. e[b] < e[a] /\ e[b] \in Int /\ e[a - 1] \in Int
        <5>1. e[b] \in Int /\ e[a - 1] \in Int
          BY <1>2, <3>1
        <5>2. e[b] - 1 < e[a] - 1
          BY <4>1
        <5> QED
          BY <1>8, <5>1, <5>2
      <4>3. ~(a < b) /\ b # a
        BY <1>2, <1>8, <4>2
      <4>4. b = a - 1 \/ b < a - 1
        <5>1. a \in Int /\ b \in Int
          BY <1>2
        <5> QED
          BY <4>3, <5>1
      <4>5. e[b] <= e[a - 1]
        BY <1>2, <3>1, <4>2, <4>4
      <4> QED
        BY <1>8, <4>1, <4>2, <4>5
    <3>4. side \in SUBSET Int /\ side # {}
      BY <1>5, <3>2
    <3> HIDE DEF side, j, i
    <3>5. (CHOOSE x \in side : \A k \in side : (i < x => x <= k) /\ (x < i => k <= x)) = j
      BY <1>8, <3>2, <3>3, <3>4, Closest
    <3>6. LinkOf(l, i, side) = at_index(l, j)
      BY <3>4, <3>5, Zenon DEF LinkOf
    <3>7. NodeAt(t, a - 1) = t[a - 1]
      BY <3>1 DEF NodeAt
    <3> QED
      BY <2>1, <3>2, <3>6, <3>7 DEF side
  <2> QED
    BY <2>2, <2>3
<1> QED
  BY <1>7, <1>9, <1>10

(* Elements picked in the middle are taken out, the others stay linked.    *)
LEMMA RemoveIfLinks ==
  ASSUME LinksInv, NEW l \in Lists, NEW picked, remove_if(l, picked), Habits = {}
  PROVE  /\ LinksInv' /\ picked \subseteq RangeOf(elems[l])
         /\ elems' = [elems EXCEPT ![l] = Kept(elems[l], picked)]
         /\ RangeOf(elems'[l]) = RangeOf(elems[l]) \ picked
<1> DEFINE s == elems[l]
           t == Kept(s, picked)
           r == list[l]
           q == [r EXCEPT !.size = @ - Cardinality(picked)]
           K(n) == IsKept(l, picked, n)
           N(n) == NextOfKept(l, picked, n)
           P(n) == PrevOfKept(l, picked, n)
<1>1. /\ s \in Seq(Nodes) /\ Distinct(s) /\ RangeOf(s) \subseteq live /\ live \subseteq Nodes
      /\ Chain(r, next, prev, s)
      /\ next \in [Nodes -> OrNull] /\ prev \in [Nodes -> OrNull]
      /\ elems \in [Lists -> Seq(Nodes)] /\ list = [m \in Lists |-> list[m]]
      /\ \A m \in Nodes \ live : next[m] = NULL /\ prev[m] = NULL
  BY OwnedFacts DEF LinksInv
<1>2. /\ picked \subseteq RangeOf(s) /\ r.head \notin picked /\ r.tail \notin picked
      /\ list' = [list EXCEPT ![l].size = @ - Cardinality(picked)]
      /\ live' = live \ picked
      /\ elems' = [elems EXCEPT ![l] = Kept(@, picked)]
  BY WalkedAll DEF remove_if
<1>3. /\ next' = Forget([n \in Nodes |-> IF K(n) THEN N(n) ELSE next[n]], picked)
      /\ prev' = Forget([n \in Nodes |-> IF K(n) THEN P(n) ELSE prev[n]], picked)
  BY DEF remove_if, IsKept, NextOfKept, PrevOfKept, IndexOfKept, KeptIndices, LinkOf
<1>4. /\ \E e : LeftOver(s, picked, Len(s), t, e)
      /\ Len(t) + Cardinality(PickedIn(s, picked, Len(s))) = Len(s)
      /\ IsFiniteSet(PickedIn(s, picked, Len(s)))
  BY <1>1, KeptIsLeft
<1>5. PICK e : LeftOver(s, picked, Len(s), t, e)
  BY <1>4
<1>6. \A a \in 1..Len(t) : K(t[a]) /\ N(t[a]) = NodeAt(t, a + 1) /\ P(t[a]) = NodeAt(t, a - 1)
  BY <1>5, KeptAreLinked, ZenonT(60)
<1>7. \A n : K(n) => n \notin picked /\ n \in RangeOf(s)
  <2> SUFFICES ASSUME NEW n, K(n) PROVE n \notin picked /\ n \in RangeOf(s)
    OBVIOUS
  <2>1. PICK i \in KeptIndices(l, picked) : at_index(l, i) = n
    BY DEF IsKept
  <2>2. i \in Indices(l) /\ n \notin picked
    BY <2>1 DEF KeptIndices
  <2> QED
    BY <2>1, <2>2, AtIndex DEF RangeOf
<1> HIDE DEF s, t, r, q, K, N, P
<1>8. PickedIn(s, picked, Len(s)) = picked
  BY <1>2 DEF PickedIn, RangeOf
<1>9. /\ t \in Seq(Nodes) /\ Len(t) \in Nat /\ Len(s) \in Nat
      /\ \A a \in 1..Len(t) : e[a] \in 1..Len(s) /\ t[a] = s[e[a]] /\ t[a] \notin picked
      /\ \A a, b \in 1..Len(t) : a < b => e[a] < e[b]
      /\ \A i \in 1..Len(s) : s[i] \notin picked => \E a \in 1..Len(t) : e[a] = i
  BY <1>1, <1>5 DEF LeftOver
<1>10. Distinct(t)
  <2> SUFFICES ASSUME NEW a \in 1..Len(t), NEW b \in 1..Len(t), t[a] = t[b] PROVE a = b
    BY DEF Distinct
  <2>1. e[a] = e[b]
    <3>1. s[e[a]] = s[e[b]] /\ e[a] \in 1..Len(s) /\ e[b] \in 1..Len(s)
      BY <1>9
    <3>2. \A x, y \in 1..Len(s) : s[x] = s[y] => x = y
      BY <1>1 DEF Distinct
    <3> QED
      BY <3>1, <3>2, Zenon
  <2>2. ~(a < b) /\ ~(b < a)
    BY <1>9, <2>1
  <2> QED
    BY <1>9, <2>2
<1>11. RangeOf(t) = RangeOf(s) \ picked
  <2>1. ASSUME NEW n \in RangeOf(t) PROVE n \in RangeOf(s) \ picked
    <3>1. PICK a \in 1..Len(t) : n = t[a]
      BY DEF RangeOf
    <3> QED
      BY <1>9, <3>1 DEF RangeOf
  <2>2. ASSUME NEW n \in RangeOf(s) \ picked PROVE n \in RangeOf(t)
    <3>1. PICK i \in 1..Len(s) : n = s[i]
      BY DEF RangeOf
    <3>2. PICK a \in 1..Len(t) : e[a] = i
      BY <1>9, <3>1
    <3> QED
      BY <1>9, <3>1, <3>2 DEF RangeOf
  <2> QED
    BY <2>1, <2>2
<1>12. r.size = Len(s) /\ r.head = NodeAt(s, 1) /\ r.tail = NodeAt(s, Len(s))
  BY <1>1, ChainEnds
<1>13. NodeAt(t, 1) = r.head /\ NodeAt(t, Len(t)) = r.tail
  <2>1. CASE Len(s) = 0
    <3>1. Len(t) = 0
      <4>1. 1..Len(s) = {}
        BY <2>1
      <4>2. ~(1 \in 1..Len(t))
        BY <1>9, <4>1
      <4> QED
        BY <1>9, <4>2
    <3> QED
      BY <1>12, <2>1, <3>1 DEF NodeAt
  <2>2. CASE Len(s) # 0
    <3>1. 1 \in 1..Len(s) /\ Len(s) \in 1..Len(s)
      BY <1>9, <2>2
    <3>2. r.head = s[1] /\ r.tail = s[Len(s)]
      BY <1>12, <3>1 DEF NodeAt
    <3>3. PICK a \in 1..Len(t) : e[a] = 1
      BY <1>2, <1>9, <3>1, <3>2
    <3>4. PICK b \in 1..Len(t) : e[b] = Len(s)
      BY <1>2, <1>9, <3>1, <3>2
    <3>5. a = 1
      <4>1. 1 \in 1..Len(t) /\ e[1] \in 1..Len(s)
        BY <1>9, <3>3
      <4>2. ~(1 < a)
        BY <1>9, <3>3, <4>1
      <4> QED
        BY <1>9, <4>2
    <3>6. b = Len(t)
      <4>1. Len(t) \in 1..Len(t)
        BY <1>9, <3>4
      <4>2. e[Len(t)] \in 1..Len(s)
        BY <1>9, <4>1
      <4>3. ~(b < Len(t))
        <5>1. ~(Len(s) < e[Len(t)])
          BY <1>9, <4>2
        <5> QED
          BY <1>9, <3>4, <4>1, <5>1
      <4> QED
        BY <1>9, <4>3
    <3>7. t[1] = s[1] /\ t[Len(t)] = s[Len(s)] /\ 1 \in 1..Len(t) /\ Len(t) \in 1..Len(t)
      BY <1>9, <3>3, <3>4, <3>5, <3>6
    <3> QED
      BY <3>2, <3>7 DEF NodeAt
  <2> QED
    BY <2>1, <2>2
<1>14. q = [head |-> NodeAt(t, 1), tail |-> NodeAt(t, Len(t)), size |-> Len(t)]
  <2>1. Cardinality(picked) \in Nat
    BY <1>4, <1>8, FS_CardinalityType
  <2>2. Len(t) = Len(s) - Cardinality(picked)
    BY <1>4, <1>8, <1>9, <2>1
  <2>3. r = [head |-> r.head, tail |-> r.tail, size |-> r.size]
    BY <1>1 DEF Chain
  <2>4. [r EXCEPT !.size = @ - Cardinality(picked)]
          = [head |-> r.head, tail |-> r.tail, size |-> r.size - Cardinality(picked)]
    BY <2>3
  <2> QED
    BY <1>12, <1>13, <2>2, <2>4 DEF q
<1>15. ASSUME NEW n \in Nodes
       PROVE  /\ n \in picked => next'[n] = NULL /\ prev'[n] = NULL
              /\ n \notin picked /\ K(n) => next'[n] = N(n) /\ prev'[n] = P(n)
              /\ n \notin picked /\ ~K(n) => next'[n] = next[n] /\ prev'[n] = prev[n]
  <2> DEFINE F == [m \in Nodes |-> IF K(m) THEN N(m) ELSE next[m]]
             G == [m \in Nodes |-> IF K(m) THEN P(m) ELSE prev[m]]
  <2>1. F[n] = IF K(n) THEN N(n) ELSE next[n]
    BY Zenon
  <2>2. G[n] = IF K(n) THEN P(n) ELSE prev[n]
    BY Zenon
  <2>3. next' = Forget(F, picked) /\ prev' = Forget(G, picked)
    BY <1>3
  <2> HIDE DEF F, G
  <2>4. /\ next'[n] = IF n \in picked THEN NULL ELSE F[n]
        /\ prev'[n] = IF n \in picked THEN NULL ELSE G[n]
    BY <2>3, ForgetAt
  <2>5. CASE K(n)
    <3>1. F[n] = N(n) /\ G[n] = P(n)
      BY <2>1, <2>2, <2>5, Zenon
    <3> QED
      BY <2>4, <2>5, <3>1, Zenon
  <2>6. CASE ~K(n)
    <3>1. F[n] = next[n] /\ G[n] = prev[n]
      BY <2>1, <2>2, <2>6, Zenon
    <3> QED
      BY <2>4, <2>6, <3>1, Zenon
  <2> QED
    BY <2>5, <2>6, Zenon
<1>16. ASSUME NEW a \in 1..Len(t)
       PROVE  next'[t[a]] = NodeAt(t, a + 1) /\ prev'[t[a]] = NodeAt(t, a - 1)
  <2>1. t[a] \in Nodes /\ t[a] \notin picked
    BY <1>9
  <2>2. K(t[a]) /\ N(t[a]) = NodeAt(t, a + 1) /\ P(t[a]) = NodeAt(t, a - 1)
    BY <1>6, Zenon
  <2>3. next'[t[a]] = N(t[a]) /\ prev'[t[a]] = P(t[a])
    BY <1>15, <2>1, <2>2, Zenon
  <2> QED
    BY <2>2, <2>3
<1>17. Chain(q, next', prev', t)
  BY <1>14, <1>16 DEF Chain
<1>18. ASSUME NEW n \in Nodes, K(n) PROVE N(n) \in OrNull /\ P(n) \in OrNull
  <2>1. n \in RangeOf(t)
    BY <1>7, <1>11, <1>18
  <2>2. PICK a \in 1..Len(t) : n = t[a]
    BY <2>1 DEF RangeOf
  <2>3. NodeAt(t, a + 1) \in OrNull /\ NodeAt(t, a - 1) \in OrNull
    BY <1>9 DEF NodeAt, OrNull
  <2> QED
    BY <1>6, <2>2, <2>3
<1>19. next' \in [Nodes -> OrNull] /\ prev' \in [Nodes -> OrNull]
  <2>1. [n \in Nodes |-> IF K(n) THEN N(n) ELSE next[n]] \in [Nodes -> OrNull]
    BY <1>1, <1>18
  <2>2. [n \in Nodes |-> IF K(n) THEN P(n) ELSE prev[n]] \in [Nodes -> OrNull]
    BY <1>1, <1>18
  <2> QED
    BY <1>3, <2>1, <2>2, ForgetType
<1>20. list' = [list EXCEPT ![l] = q] /\ elems' = [elems EXCEPT ![l] = t]
  BY <1>1, <1>2 DEF q, r, t, s
<1>21. /\ live' = (live \ RangeOf(s)) \cup RangeOf(t)
       /\ \A n \in RangeOf(t) : n \in live => n \in RangeOf(s)
  BY <1>1, <1>2, <1>11
<1>22. ASSUME NEW n \in live \ RangeOf(s) PROVE next'[n] = next[n] /\ prev'[n] = prev[n]
  <2>1. n \in Nodes /\ n \notin picked /\ ~K(n)
    BY <1>1, <1>2, <1>7, Zenon
  <2> QED
    BY <1>15, <2>1, Zenon
<1>23. ASSUME NEW n \in Nodes \ live' PROVE next'[n] = NULL /\ prev'[n] = NULL
  <2>1. n \in picked \/ (n \notin picked /\ n \notin live)
    BY <1>2
  <2>2. CASE n \in picked
    BY <1>15, <2>2, Zenon
  <2>3. CASE n \notin picked /\ n \notin live
    <3>1. ~K(n) /\ next[n] = NULL /\ prev[n] = NULL
      BY <1>1, <1>7, <2>3, Zenon
    <3> QED
      BY <1>15, <2>3, <3>1, Zenon
  <2> QED
    BY <2>1, <2>2, <2>3
<1>24. LinksInv'
  BY <1>9, <1>10, <1>17, <1>19, <1>20, <1>21, <1>22, <1>23, OneListChanges DEF s
<1>25. elems'[l] = t
  BY <1>1, <1>20
<1> QED
  BY <1>2, <1>11, <1>20, <1>24, <1>25 DEF s, t
-----------------------------------------------------------------------------
(* The iterator.                                                           *)

(* So many steps from the head meet the element of that index.             *)
LEMMA SkipMeets ==
  ASSUME NEW h, NEW nx, NEW s \in Seq(Nodes), NEW count \in 0..(Len(s) - 1),
         h = s[1], \A k \in 1..Len(s) : nx[s[k]] = NodeAt(s, k + 1)
  PROVE  skip(h, h, nx, count) = s[count + 1]
<1> DEFINE Body(w) == [k \in 0..count |->
                         IF k = 0 THEN h ELSE IF nx[w[k - 1]] = NULL THEN h ELSE nx[w[k - 1]]]
           walk == CHOOSE w : w = Body(w)
           v == [k \in 0..count |-> s[k + 1]]
<1>1. \A k \in 1..count : nx[s[k]] = s[k + 1] /\ s[k + 1] # NULL
  <2> SUFFICES ASSUME NEW k \in 1..count PROVE nx[s[k]] = s[k + 1] /\ s[k + 1] # NULL
    OBVIOUS
  <2>1. k \in 1..Len(s) /\ k + 1 \in 1..Len(s)
    OBVIOUS
  <2>2. s[k + 1] \in Nodes
    BY <2>1
  <2> QED
    BY <2>1, <2>2, NullIsNoNode DEF NodeAt
<1>2. v = Body(v)
  <2>1. ASSUME NEW k \in 0..count
        PROVE  v[k] = IF k = 0 THEN h ELSE IF nx[v[k - 1]] = NULL THEN h ELSE nx[v[k - 1]]
    <3>1. CASE k = 0
      BY <3>1
    <3>2. CASE k # 0
      <4>1. k - 1 \in 0..count /\ k \in 1..count /\ (k - 1) + 1 = k
        BY <3>2
      <4>2. v[k - 1] = s[k] /\ v[k] = s[k + 1]
        BY <4>1
      <4> HIDE DEF v
      <4> QED
        BY <1>1, <3>2, <4>1, <4>2
    <3> QED
      BY <3>1, <3>2
  <2> QED
    BY <2>1
<1>3. walk = Body(walk)
  <2> HIDE DEF v, Body
  <2> QED
    BY <1>2, Zenon
<1> HIDE DEF walk
<1> DEFINE S == {k \in 0..count : walk[k] = s[k + 1]}
<1>4. \A k \in 0..count : k \in S
  <2> \A k \in 0..count : walk[k] = IF k = 0 THEN h ELSE IF nx[walk[k - 1]] = NULL THEN h
                                                       ELSE nx[walk[k - 1]]
    BY <1>3, Zenon
  <2>1. 0 \in S
    OBVIOUS
  <2>2. ASSUME NEW k \in 1..count, k - 1 \in S PROVE k \in S
    <3>1. walk[k] = IF nx[walk[k - 1]] = NULL THEN h ELSE nx[walk[k - 1]]
      <4>1. k \in 0..count /\ k # 0
        OBVIOUS
      <4> HIDE DEF Body, v, S
      <4> QED
        BY <4>1, Zenon
    <3>2. walk[k - 1] = s[k]
      BY <2>2
    <3> QED
      BY <1>1, <3>1, <3>2
  <2>3. count \in Nat
    OBVIOUS
  <2> HIDE DEF S
  <2> QED
    BY <2>1, <2>2, <2>3, UpTo
<1> QED
  BY <1>4 DEF walk, skip

(* An iterator that nobody touches, over elements that stay.               *)
LEMMA IteratorKept ==
  ASSUME IteratorInv, it' = it,
         it.this # NULL => {it.this, it.start} \subseteq RangeOf(elems'[it.list])
  PROVE  IteratorInv'
BY DEF IteratorInv, IteratorStays

LEMMA IteratorGivenUp ==
  ASSUME IteratorInv, NEW l \in Lists, NEW taken, GiveUpIterator(l, taken),
         \A m \in Lists \ {l} : RangeOf(elems[m]) \subseteq RangeOf(elems'[m]),
         RangeOf(elems[l]) \ taken \subseteq RangeOf(elems'[l])
  PROVE  IteratorInv'
<1>1. CASE it.list = l /\ {it.this, it.start} \cap taken # {}
  <2>1. it' = NoIterator(l)
    BY <1>1 DEF GiveUpIterator
  <2>2. it'.this = NULL /\ it' = [list |-> it'.list, this |-> it'.this, start |-> it'.start]
    BY <2>1 DEF NoIterator
  <2> QED
    BY <2>2 DEF IteratorInv, IteratorStays
<1>2. CASE ~(it.list = l /\ {it.this, it.start} \cap taken # {})
  <2>1. it' = it
    BY <1>2 DEF GiveUpIterator
  <2>2. ASSUME it.this # NULL PROVE {it.this, it.start} \subseteq RangeOf(elems'[it.list])
    <3>1. it.list \in Lists /\ {it.this, it.start} \subseteq RangeOf(elems[it.list])
      BY <2>2 DEF IteratorInv, IteratorStays
    <3>2. CASE it.list = l
      BY <1>2, <3>1, <3>2
    <3>3. CASE it.list # l
      BY <3>1, <3>3
    <3> QED
      BY <3>2, <3>3
  <2> QED
    BY <2>1, <2>2, IteratorKept
<1> QED
  BY <1>1, <1>2

LEMMA IteratorBegins ==
  ASSUME LinksInv, NEW l \in Lists, looping_iter(l)
  PROVE  IteratorInv'
<1>1. it' = [list |-> l, this |-> list[l].head, start |-> list[l].head] /\ elems' = elems
  BY DEF looping_iter
<1>2. list[l].head = NULL \/ list[l].head \in RangeOf(elems[l])
  <2>1. Chain(list[l], next, prev, elems[l]) /\ elems[l] \in Seq(Nodes)
    BY OwnedFacts DEF LinksInv
  <2>2. list[l].head = NodeAt(elems[l], 1)
    BY <2>1, ChainEnds
  <2> QED
    BY <2>2 DEF NodeAt, RangeOf
<1>3. it'.list = l /\ it'.this = list[l].head /\ it'.start = list[l].head
  BY <1>1
<1>4. it' = [list |-> it'.list, this |-> it'.this, start |-> it'.start]
  BY <1>1
<1> QED
  BY <1>1, <1>2, <1>3, <1>4 DEF IteratorInv, IteratorStays

LEMMA IteratorAdvances ==
  ASSUME ListInv, advance
  PROVE  IteratorInv'
<1>1. /\ it.this # NULL /\ elems' = elems
      /\ it' = [it EXCEPT !.this = IF next[it.this] = NULL THEN it.start ELSE next[it.this]]
  BY DEF advance
<1>2. /\ it.list \in Lists
      /\ it.this \in RangeOf(elems[it.list]) /\ it.start \in RangeOf(elems[it.list])
      /\ it = [list |-> it.list, this |-> it.this, start |-> it.start]
  BY <1>1 DEF ListInv, IteratorInv, IteratorStays
<1> DEFINE s == elems[it.list]
           to == IF next[it.this] = NULL THEN it.start ELSE next[it.this]
<1>3. PICK k \in 1..Len(s) : it.this = s[k]
  BY <1>2 DEF RangeOf
<1>4. next[it.this] = NodeAt(s, k + 1)
  BY <1>2, <1>3 DEF ListInv, LinksInv, Chain
<1>5. next[it.this] = NULL \/ next[it.this] \in RangeOf(s)
  BY <1>4 DEF NodeAt, RangeOf
<1>6. to \in RangeOf(s)
  BY <1>2, <1>5
<1> HIDE DEF s, to
<1>7. /\ it'.list = it.list /\ it'.this = to /\ it'.start = it.start
      /\ it' = [list |-> it'.list, this |-> it'.this, start |-> it'.start]
  BY <1>1, <1>2 DEF to
<1> QED
  BY <1>1, <1>2, <1>6, <1>7 DEF IteratorInv, IteratorStays, s

LEMMA IteratorMoves ==
  ASSUME ListInv, NEW l \in Lists, NEW other \in Lists, move(l, other), Habits = {}
  PROVE  IteratorInv'
<1>1. elems' = [elems EXCEPT ![l] = elems[other], ![other] = <<>>] /\ elems[l] = <<>> /\ l # other
  BY MoveLinks DEF ListInv, move
<1>2. elems \in [Lists -> Seq(Nodes)] /\ IteratorInv
  BY DEF ListInv, LinksInv
<1>3. /\ elems'[l] = elems[other] /\ \A m \in Lists \ {l, other} : elems'[m] = elems[m]
  BY <1>1, <1>2
<1>4. it' = IF it.list = other THEN [it EXCEPT !.list = l]
            ELSE IF it.list = l THEN NoIterator(l) ELSE it
  BY DEF move
<1>5. it = [list |-> it.list, this |-> it.this, start |-> it.start]
  BY <1>2 DEF IteratorInv
<1>6. CASE it.list = other
  <2>1. it' = [list |-> l, this |-> it.this, start |-> it.start]
    BY <1>4, <1>5, <1>6
  <2>2. /\ it'.list = l /\ it'.this = it.this /\ it'.start = it.start
        /\ it' = [list |-> it'.list, this |-> it'.this, start |-> it'.start]
    BY <2>1
  <2> QED
    BY <1>2, <1>3, <1>6, <2>2 DEF IteratorInv, IteratorStays
<1>7. CASE it.list = l /\ it.list # other
  <2>1. it' = NoIterator(l)
    BY <1>4, <1>7
  <2>2. it'.this = NULL /\ it' = [list |-> it'.list, this |-> it'.this, start |-> it'.start]
    BY <2>1 DEF NoIterator
  <2> QED
    BY <2>2 DEF IteratorInv, IteratorStays
<1>8. CASE it.list # l /\ it.list # other
  <2>1. it' = it
    BY <1>4, <1>8
  <2>2. it.this # NULL => {it.this, it.start} \subseteq RangeOf(elems'[it.list])
    BY <1>2, <1>3, <1>8 DEF IteratorInv, IteratorStays
  <2> QED
    BY <1>2, <2>1, <2>2, IteratorKept
<1> QED
  BY <1>6, <1>7, <1>8

(* The iterator that remove_loop returns is on an element, or on nothing.  *)
LEMMA IteratorResumes ==
  ASSUME ListInv, remove_loop, Habits = {}
  PROVE  ListInv'
<1> DEFINE l == it.list
           t == elems'[l]
           h == list'[l].head
<1>1. it.this # NULL /\ l \in Lists
  BY DEF remove_loop, ListInv, IteratorInv
<1>2. PICK i \in Indices(l) :
        /\ Careful(l, i) /\ Delete(l, i)
        /\ it' = Resume(l, h, next', i)
  BY DEF remove_loop
<1>3. list[l].size = 1 \/ i < list[l].size - 1
  BY <1>2 DEF Careful
<1>4. /\ LinksInv' /\ elems' = [elems EXCEPT ![l] = Without(elems[l], i + 1)]
      /\ Chain(list'[l], next', prev', t)
  BY <1>1, <1>2, <1>3, DeleteLinks DEF ListInv
<1>5. /\ i + 1 \in 1..Len(elems[l]) /\ list[l].size = Len(elems[l]) /\ i \in Nat
      /\ elems \in [Lists -> Seq(Nodes)]
  BY <1>1, AtIndex DEF ListInv, LinksInv
<1> HIDE DEF l
<1>6. t \in Seq(Nodes) /\ Len(t) = Len(elems[l]) - 1 /\ Len(elems[l]) \in Nat
  <2>1. elems[l] \in Seq(Nodes)
    BY <1>1, <1>5
  <2>2. t = Without(elems[l], i + 1)
    BY <1>1, <1>4, <1>5
  <2> HIDE DEF t
  <2> QED
    BY <1>5, <2>1, <2>2, WithoutOne
<1> HIDE DEF t
<1>7. h = NodeAt(t, 1)
  BY <1>4, <1>6, ChainEnds
<1> HIDE DEF h
<1>8. /\ it'.list = l /\ it'.this = skip(h, h, next', i) /\ it'.start = h
      /\ it' = [list |-> it'.list, this |-> it'.this, start |-> it'.start]
  BY <1>2 DEF Resume
<1>9. CASE Len(t) = 0
  <2>1. i = 0
    <3>1. Len(elems[l]) = 1
      BY <1>6, <1>9
    <3>2. i + 1 \in 1..1
      BY <1>5, <3>1
    <3> QED
      BY <1>5, <3>2
  <2>2. h = NULL
    BY <1>7, <1>9 DEF NodeAt
  <2>3. skip(h, h, next', 0) = h
    <3> DEFINE walk == CHOOSE w : w = [k \in 0..0 |-> IF k = 0 THEN h
                         ELSE IF next'[w[k - 1]] = NULL THEN h ELSE next'[w[k - 1]]]
               Body(w) == [k \in 0..0 |-> IF k = 0 THEN h
                         ELSE IF next'[w[k - 1]] = NULL THEN h ELSE next'[w[k - 1]]]
    <3>1. Body(Body(h)) = Body(h)
      OBVIOUS
    <3>2. walk = Body(walk)
      <4> HIDE DEF Body
      <4>1. walk = CHOOSE w : w = Body(w)
        BY DEF Body
      <4> HIDE DEF walk
      <4> QED
        BY <3>1, <4>1, Zenon
    <3>3. Body(walk)[0] = h
      <4> HIDE DEF walk
      <4> QED
        OBVIOUS
    <3>4. skip(h, h, next', 0) = walk[0]
      BY DEF skip
    <3> HIDE DEF walk, Body
    <3> QED
      BY <3>2, <3>3, <3>4
  <2> QED
    BY <1>4, <1>8, <2>1, <2>2, <2>3 DEF ListInv, IteratorInv, IteratorStays
<1>10. CASE Len(t) # 0
  <2>1. 1 \in 1..Len(t) /\ i \in 0..(Len(t) - 1)
    BY <1>3, <1>5, <1>6, <1>10
  <2>2. h = t[1] /\ \A k \in 1..Len(t) : next'[t[k]] = NodeAt(t, k + 1)
    BY <1>4, <1>7, <2>1 DEF NodeAt, Chain
  <2>3. skip(h, h, next', i) = t[i + 1]
    BY <1>6, <2>1, <2>2, SkipMeets
  <2>4. {h, t[i + 1]} \subseteq RangeOf(t)
    <3>1. i + 1 \in 1..Len(t)
      BY <1>6, <2>1
    <3> QED
      BY <2>1, <2>2, <3>1 DEF RangeOf
  <2> QED
    BY <1>1, <1>4, <1>8, <2>3, <2>4 DEF ListInv, IteratorInv, IteratorStays, t
<1> QED
  BY <1>9, <1>10

-----------------------------------------------------------------------------
(* The invariant.                                                          *)

LEMMA ListBegins ==
  ASSUME Init
  PROVE  ListInv
<1>1. LinksInv
  <2>1. \A l \in Lists : elems[l] = <<>> /\ list[l] = Empty
    BY DEF Init
  <2>2. elems \in [Lists -> Seq(Nodes)] /\ list = [l \in Lists |-> list[l]]
    BY DEF Init
  <2>3. next \in [Nodes -> OrNull] /\ prev \in [Nodes -> OrNull]
    BY DEF Init, OrNull
  <2>4. Chain(Empty, next, prev, <<>>)
    BY DEF Chain, Empty, NodeAt
  <2>5. Ownership
    BY <2>1 DEF Init, Ownership, RangeOf
  <2>6. \A n \in Nodes \ live : next[n] = NULL /\ prev[n] = NULL
    BY DEF Init
  <2> QED
    BY <2>1, <2>2, <2>3, <2>4, <2>5, <2>6 DEF LinksInv
<1>2. IteratorInv
  <2>1. it = [list |-> CHOOSE l \in Lists : TRUE, this |-> NULL, start |-> NULL]
    BY DEF Init, NoIterator
  <2> QED
    BY <2>1 DEF IteratorInv, IteratorStays
<1> QED
  BY <1>1, <1>2 DEF ListInv

LEMMA ListStep ==
  ASSUME ListInv, [Next]_vars, Habits = {}
  PROVE  ListInv'
<1>1. LinksInv /\ IteratorInv
  BY DEF ListInv
<1>2. ASSUME NEW l \in Lists, append_back(l) \/ append_front(l) PROVE ListInv'
  <2>1. LinksInv' /\ it' = it /\ \A m \in Lists : RangeOf(elems[m]) \subseteq RangeOf(elems'[m])
    BY <1>1, <1>2, AppendBackLinks, AppendFrontLinks
  <2>2. it.this # NULL => {it.this, it.start} \subseteq RangeOf(elems'[it.list])
    BY <1>1, <2>1 DEF IteratorInv, IteratorStays
  <2> QED
    BY <1>1, <2>1, <2>2, IteratorKept DEF ListInv
<1>3. ASSUME NEW l \in Lists, clear(l) PROVE ListInv'
  <2>1. LinksInv' /\ elems' = [elems EXCEPT ![l] = <<>>]
    BY <1>1, <1>3, ClearLinks
  <2>2. GiveUpIterator(l, RangeOf(elems[l]))
    BY <1>1, <1>3, WalkedAll DEF clear
  <2>3. /\ \A m \in Lists \ {l} : RangeOf(elems[m]) \subseteq RangeOf(elems'[m])
        /\ RangeOf(elems[l]) \ RangeOf(elems[l]) \subseteq RangeOf(elems'[l])
    BY <1>1, <2>1 DEF LinksInv
  <2> QED
    BY <1>1, <2>1, <2>2, <2>3, IteratorGivenUp DEF ListInv
<1>4. ASSUME NEW l \in Lists, looping_iter(l) PROVE ListInv'
  <2>1. LinksInv'
    BY <1>1, <1>4 DEF looping_iter, LinksInv, Ownership
  <2> QED
    BY <1>1, <1>4, <2>1, IteratorBegins DEF ListInv
<1>5. ASSUME NEW l \in Lists, NEW i \in Indices(l), remove(l, i) PROVE ListInv'
  <2>1. /\ Delete(l, i) /\ GiveUpIterator(l, {at_index(l, i)})
        /\ list[l].size = 1 \/ i < list[l].size - 1
    BY <1>5 DEF remove, Careful
  <2>2. /\ LinksInv' /\ elems' = [elems EXCEPT ![l] = Without(elems[l], i + 1)]
        /\ RangeOf(elems'[l]) = RangeOf(elems[l]) \ {at_index(l, i)}
    BY <1>1, <2>1, DeleteLinks
  <2>3. /\ \A m \in Lists \ {l} : RangeOf(elems[m]) \subseteq RangeOf(elems'[m])
        /\ RangeOf(elems[l]) \ {at_index(l, i)} \subseteq RangeOf(elems'[l])
    BY <1>1, <2>2 DEF LinksInv
  <2> QED
    BY <1>1, <2>1, <2>2, <2>3, IteratorGivenUp DEF ListInv
<1>6. ASSUME NEW l \in Lists, NEW picked, remove_if(l, picked) PROVE ListInv'
  <2>1. /\ LinksInv' /\ elems' = [elems EXCEPT ![l] = Kept(elems[l], picked)]
        /\ RangeOf(elems'[l]) = RangeOf(elems[l]) \ picked
    BY <1>1, <1>6, RemoveIfLinks
  <2>2. GiveUpIterator(l, picked)
    BY <1>6 DEF remove_if
  <2>3. /\ \A m \in Lists \ {l} : RangeOf(elems[m]) \subseteq RangeOf(elems'[m])
        /\ RangeOf(elems[l]) \ picked \subseteq RangeOf(elems'[l])
    BY <1>1, <2>1 DEF LinksInv
  <2> QED
    BY <1>1, <2>1, <2>2, <2>3, IteratorGivenUp DEF ListInv
<1>7. ASSUME NEW l \in Lists, NEW other \in Lists, move(l, other) PROVE ListInv'
  BY <1>1, <1>7, MoveLinks, IteratorMoves DEF ListInv
<1>8. ASSUME NEW l \in Lists, NEW other \in Lists, NEW i \in Indices(other), take_back(l, other, i)
      PROVE  ListInv'
  <2>1. /\ LinksInv' /\ RangeOf(elems[other]) = {at_index(other, i)}
        /\ \A m \in Lists \ {other} : RangeOf(elems[m]) \subseteq RangeOf(elems'[m])
    BY <1>1, <1>8, TakeBackLinks
  <2>2. GiveUpIterator(other, {at_index(other, i)})
    BY <1>8 DEF take_back
  <2>3. RangeOf(elems[other]) \ {at_index(other, i)} \subseteq RangeOf(elems'[other])
    BY <2>1
  <2> QED
    BY <1>1, <2>1, <2>2, <2>3, IteratorGivenUp DEF ListInv
<1>9. ASSUME advance PROVE ListInv'
  <2>1. LinksInv'
    BY <1>1, <1>9 DEF advance, LinksInv, Ownership
  <2> QED
    BY <1>1, <1>9, <2>1, IteratorAdvances DEF ListInv
<1>10. ASSUME remove_loop PROVE ListInv'
  BY <1>1, <1>10, IteratorResumes DEF ListInv
<1>11. ASSUME UNCHANGED vars PROVE ListInv'
  BY <1>1, <1>11 DEF vars, ListInv, LinksInv, Ownership, IteratorInv, IteratorStays
<1> QED
  BY <1>2, <1>3, <1>4, <1>5, <1>6, <1>7, <1>8, <1>9, <1>10, <1>11 DEF Next

LEMMA ListAlways ==
  ASSUME Habits = {}
  PROVE  Spec => []ListInv
<1>1. Init => ListInv
  BY ListBegins
<1>2. ListInv /\ [Next]_vars => ListInv'
  BY ListStep
<1> QED
  BY <1>1, <1>2, PTL DEF Spec

(* Forwards and backwards every list has its elements, in their order, for *)
(* every number of lists and nodes: whatever insert_back, insert_front,    *)
(* take_node, clear, remove_if and operator= do in turn.                   *)
THEOREM ListShape ==
  ASSUME Habits = {}
  PROVE  Spec => []Shape
<1>1. ListInv => Shape
  BY ChainsAreShape DEF ListInv
<1> QED
  BY <1>1, ListAlways, PTL

(* No node is leaked, deleted twice, or shared by two lists.               *)
THEOREM NodesOwned ==
  ASSUME Habits = {}
  PROVE  Spec => []Ownership
<1>1. ListInv => Ownership
  BY DEF ListInv, LinksInv
<1> QED
  BY <1>1, ListAlways, PTL

(* A looping iterator that the caller may still use stays in its list, as  *)
(* do the ones that remove_loop and a move of the list leave.              *)
THEOREM IteratorStaysInList ==
  ASSUME Habits = {}
  PROVE  Spec => []IteratorStays
<1>1. ListInv => IteratorStays
  BY DEF ListInv, IteratorInv
<1> QED
  BY <1>1, ListAlways, PTL

=============================================================================
