-------------------------------- MODULE List --------------------------------
(***************************************************************************)
(* bu::List<T> (bustd/list.hpp), the doubly linked list that holds the     *)
(* scheduler's processes, with its looping iterator.  A node stands for    *)
(* the element it carries.  "elems" is no part of the program: it records  *)
(* which elements callers put in and have not taken out, in their order.   *)
(***************************************************************************)
EXTENDS Integers, Sequences, FiniteSets

CONSTANTS
  Nodes,   (* the memory that new may return, one node each                *)
  Lists,   (* the list objects                                             *)
  NULL,    (* nullptr                                                      *)
  Habits   (* what callers do that the kernel does not: see Careful        *)

ASSUME ListAssumption ==
  /\ NULL \notin Nodes
  /\ Habits \subseteq {"remove last", "transfer", "remove ends", "move onto"}

VARIABLES
  list,    (* m_head, m_tail and m_size of each list                       *)
  next,    (* Node::next                                                   *)
  prev,    (* Node::prev                                                   *)
  live,    (* the nodes that were allocated and not deleted                *)
  it,      (* a LoopingIterator: its list, m_this and m_start              *)
  elems    (* the elements each list should have                           *)

vars == <<list, next, prev, live, it, elems>>

Empty == [head |-> NULL, tail |-> NULL, size |-> 0]
NoIterator(l) == [list |-> l, this |-> NULL, start |-> NULL]

RangeOf(s) == {s[k] : k \in 1..Len(s)}
Without(s, k) == SubSeq(s, 1, k - 1) \o SubSeq(s, k + 1, Len(s))

(* The elements of s that are not picked, in their order.                  *)
Kept(s, picked) ==
  LET kept[k \in 0..Len(s)] ==
        IF k = 0 THEN <<>>
        ELSE IF s[k] \in picked THEN kept[k - 1] ELSE Append(kept[k - 1], s[k])
  IN kept[Len(s)]

(* Assignment through a pointer.                                           *)
Put(f, at, value) == [n \in Nodes |-> IF n = at THEN value ELSE f[n]]

(* Memory that was deleted or is not allocated yet holds nothing.          *)
Forget(f, freed) == [n \in Nodes |-> IF n \in freed THEN NULL ELSE f[n]]

Init ==
  /\ list = [l \in Lists |-> Empty]
  /\ next = [n \in Nodes |-> NULL]
  /\ prev = [n \in Nodes |-> NULL]
  /\ live = {}
  /\ it = NoIterator(CHOOSE l \in Lists : TRUE)
  /\ elems = [l \in Lists |-> <<>>]

(* The node that a walk of "steps" steps from the head reaches.            *)
at_index(l, steps) ==
  LET walk[k \in 0..steps] == IF k = 0 THEN list[l].head ELSE next[walk[k - 1]]
  IN walk[steps]

Indices(l) == 0..(list[l].size - 1)

-----------------------------------------------------------------------------
(* Adding.                                                                 *)

PushedBack(r, n) ==
  [head |-> IF r.size = 0 THEN n ELSE r.head, tail |-> n, size |-> r.size + 1]

PushedFront(r, n) ==
  [head |-> n, tail |-> IF r.size = 0 THEN n ELSE r.tail, size |-> r.size + 1]

(* Mutant: the new tail does not point back.                               *)
LinkBackOneWay(l, n, nx, pv) ==
  /\ next' = IF list[l].size = 0 THEN nx ELSE Put(nx, list[l].tail, n)
  /\ prev' = pv

(* The pointers that insert_back sets; a list that is not empty and has no *)
(* tail fails its assertion, and nothing runs after that.                  *)
LinkBack(l, n, nx, pv) ==
  /\ list[l].size # 0 => list[l].tail # NULL
  /\ next' = IF list[l].size = 0 THEN nx ELSE Put(nx, list[l].tail, n)
  /\ prev' = IF list[l].size = 0 THEN pv ELSE Put(pv, n, list[l].tail)

append_back(l) ==
  /\ \E n \in Nodes \ live :
       /\ live' = live \cup {n}
       /\ LinkBack(l, n, next, prev)
       /\ list' = [list EXCEPT ![l] = PushedBack(@, n)]
       /\ elems' = [elems EXCEPT ![l] = Append(@, n)]
  /\ UNCHANGED it

append_front(l) ==
  /\ \E n \in Nodes \ live :
       /\ live' = live \cup {n}
       /\ next' = IF list[l].size = 0 THEN next ELSE Put(next, n, list[l].head)
       /\ prev' = IF list[l].size = 0 THEN prev ELSE Put(prev, list[l].head, n)
       /\ list' = [list EXCEPT ![l] = PushedFront(@, n)]
       /\ elems' = [elems EXCEPT ![l] = <<n>> \o @]
  /\ UNCHANGED it

-----------------------------------------------------------------------------
(* Taking out.                                                             *)

(* What take_node leaves of the list.  The tail becomes the node behind    *)
(* the one that was the tail.                                              *)
Taken(r, n) ==
  [head |-> IF n = r.head THEN next[n] ELSE r.head,
   tail |-> IF n = r.tail THEN next[n] ELSE r.tail,
   size |-> r.size - 1]

NextUnlinked(n) == IF prev[n] = NULL THEN next ELSE Put(next, prev[n], next[n])
PrevUnlinked(n) == IF next[n] = NULL THEN prev ELSE Put(prev, next[n], prev[n])

(* Nobody uses an iterator after an element it points to was taken out.    *)
GiveUpIterator(l, taken) ==
  it' = IF it.list = l /\ {it.this, it.start} \cap taken # {} THEN NoIterator(l) ELSE it

Careful(l, i) == "remove last" \in Habits \/ list[l].size = 1 \/ i < list[l].size - 1

Delete(l, i) ==
  LET n == at_index(l, i) IN
  /\ list' = [list EXCEPT ![l] = Taken(@, n)]
  /\ next' = Forget(NextUnlinked(n), {n})
  /\ prev' = Forget(PrevUnlinked(n), {n})
  /\ live' = live \ {n}
  /\ elems' = [elems EXCEPT ![l] = Without(@, i + 1)]

remove(l, i) ==
  /\ i \in Indices(l) /\ Careful(l, i)
  /\ Delete(l, i)
  /\ GiveUpIterator(l, {at_index(l, i)})

(* The node keeps its own two pointers until insert_back sets prev.        *)
take_back(l, other, i) ==
  /\ l # other
  /\ i \in Indices(other) /\ Careful(other, i)
  /\ "transfer" \in Habits \/ list[other].size = 1
  /\ LET n == at_index(other, i) IN
       /\ LinkBack(l, n, NextUnlinked(n), PrevUnlinked(n))
       /\ list' = [list EXCEPT ![other] = Taken(@, n), ![l] = PushedBack(@, n)]
       /\ elems' = [elems EXCEPT ![other] = Without(@, i + 1), ![l] = Append(@, n)]
  /\ GiveUpIterator(other, {at_index(other, i)})
  /\ UNCHANGED live

(* What the loop from the head visits and deletes.                         *)
Walked(l) == {at_index(l, i) : i \in Indices(l)}

(* Mutant: the list is emptied and its nodes are not deleted.              *)
ClearLeaking(l) ==
  /\ list' = [list EXCEPT ![l] = Empty]
  /\ elems' = [elems EXCEPT ![l] = <<>>]
  /\ GiveUpIterator(l, Walked(l))
  /\ UNCHANGED <<next, prev, live>>

clear(l) ==
  /\ list' = [list EXCEPT ![l] = Empty]
  /\ next' = Forget(next, Walked(l))
  /\ prev' = Forget(prev, Walked(l))
  /\ live' = live \ Walked(l)
  /\ elems' = [elems EXCEPT ![l] = <<>>]
  /\ GiveUpIterator(l, Walked(l))

(* Pairs of neighbours are linked past each node that the predicate picks; *)
(* m_head and m_tail stay as they are.                                     *)
remove_if(l, picked) ==
  LET at(i)   == at_index(l, i)
      kept    == {i \in Indices(l) : at(i) \notin picked}
      Link(i, side) == IF side = {} THEN NULL
                       ELSE at(CHOOSE j \in side : \A k \in side :
                                 (i < j => j <= k) /\ (j < i => k <= j))
      Index(n) == CHOOSE i \in kept : at(i) = n
      keeps(n) == \E i \in kept : at(i) = n
  IN
  /\ picked \subseteq Walked(l)
  /\ "remove ends" \in Habits \/ picked \cap {list[l].head, list[l].tail} = {}
  /\ next' = Forget([n \in Nodes |-> IF keeps(n) THEN Link(Index(n), {j \in kept : j > Index(n)})
                                               ELSE next[n]], picked)
  /\ prev' = Forget([n \in Nodes |-> IF keeps(n) THEN Link(Index(n), {j \in kept : j < Index(n)})
                                               ELSE prev[n]], picked)
  /\ list' = [list EXCEPT ![l].size = @ - Cardinality(picked)]
  /\ live' = live \ picked
  /\ elems' = [elems EXCEPT ![l] = Kept(@, picked)]
  /\ GiveUpIterator(l, picked)

(* operator= that moves.                                                   *)
move(l, other) ==
  /\ l # other
  /\ "move onto" \in Habits \/ list[l].size = 0
  /\ list' = [list EXCEPT ![l] = list[other], ![other] = Empty]
  /\ elems' = [elems EXCEPT ![l] = elems[other], ![other] = <<>>]
  /\ it' = IF it.list = other THEN [it EXCEPT !.list = l]
           ELSE IF it.list = l THEN NoIterator(l) ELSE it
  /\ UNCHANGED <<next, prev, live>>

-----------------------------------------------------------------------------
(* The looping iterator.                                                   *)

looping_iter(l) ==
  /\ it' = [list |-> l, this |-> list[l].head, start |-> list[l].head]
  /\ UNCHANGED <<list, next, prev, live, elems>>

(* operator++, and skip(1).                                                *)
advance ==
  /\ it.this # NULL
  /\ it' = [it EXCEPT !.this = IF next[it.this] = NULL THEN it.start ELSE next[it.this]]
  /\ UNCHANGED <<list, next, prev, live, elems>>

(* "count" steps from "from", in a list with the given links.              *)
skip(from, start, nx, count) ==
  LET walk[k \in 0..count] ==
        IF k = 0 THEN from
        ELSE IF nx[walk[k - 1]] = NULL THEN start ELSE nx[walk[k - 1]]
  IN walk[count]

(* Mutant: the old iterator is moved on; its m_start stays.                *)
ResumeAtOldStart(l, head, nx, index) ==
  [it EXCEPT !.this = skip(head, head, nx, index)]

(* The iterator that remove_loop returns.                                  *)
Resume(l, head, nx, index) ==
  [list |-> l, this |-> skip(head, head, nx, index), start |-> head]

(* The index of a node is counted by a walk from the head.                 *)
remove_loop ==
  /\ it.this # NULL
  /\ \E i \in Indices(it.list) :
       /\ at_index(it.list, i) = it.this
       /\ Careful(it.list, i)
       /\ Delete(it.list, i)
       /\ it' = Resume(it.list, list'[it.list].head, next', i)

Next ==
  \/ \E l \in Lists :
       \/ append_back(l)
       \/ append_front(l)
       \/ clear(l)
       \/ looping_iter(l)
       \/ \E i \in Indices(l) : remove(l, i)
       \/ \E picked \in SUBSET Walked(l) : remove_if(l, picked)
       \/ \E other \in Lists :
            \/ move(l, other)
            \/ \E i \in Indices(other) : take_back(l, other, i)
  \/ advance
  \/ remove_loop

Spec == Init /\ [][Next]_vars

-----------------------------------------------------------------------------

(* Forwards from the head and backwards from the tail a list holds the     *)
(* elements callers put in, in their order, and nothing else.              *)
Shape ==
  \A l \in Lists :
    LET s == elems[l]
        node(k) == IF k \in 1..Len(s) THEN s[k] ELSE NULL
    IN /\ list[l] = [head |-> node(1), tail |-> node(Len(s)), size |-> Len(s)]
       /\ \A k \in 1..Len(s) :
            next[s[k]] = node(k + 1) /\ prev[s[k]] = node(k - 1)

(* Every allocated node is in exactly one list, once: none is leaked, none *)
(* is deleted twice or shared.                                             *)
Ownership ==
  /\ live = UNION {RangeOf(elems[l]) : l \in Lists}
  /\ \A l, m \in Lists : \A i \in 1..Len(elems[l]), j \in 1..Len(elems[m]) :
       elems[l][i] = elems[m][j] => l = m /\ i = j

(* A looping iterator that the caller may still use stays in its list,     *)
(* whatever is added at either end or moved meanwhile.                     *)
IteratorStays ==
  it.this # NULL => {it.this, it.start} \subseteq RangeOf(elems[it.list])

=============================================================================
