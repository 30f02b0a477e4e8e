------------------------------- MODULE Vector -------------------------------
(***************************************************************************)
(* bustd/vector.hpp: vectors, the storage they own, and the objects that   *)
(* live in its slots.  A call whose assertion fails has no step; malloc    *)
(* returns storage that is nobody else's, as module Kmalloc promises.      *)
(***************************************************************************)
EXTENDS Integers, FiniteSets, SequencesExt

CONSTANTS
  Vectors,  (* the vectors there are                                       *)
  Values,   (* what elements can be                                        *)
  MaxSize,  (* bound: elements of a vector, and slots it asks for          *)
  Habits    (* what callers do that the kernel does not: see Careful       *)

ASSUME VectorAssumption ==
  /\ MaxSize \in Nat
  /\ Habits \subseteq {"remove objects", "remove neighbours", "move onto", "copy itself"}

NULL == 0
Raw == "raw"    (* a slot without an object                                *)
Garbage == "garbage"

ASSUME ValuesAssumption == Raw \notin Values

VARIABLES
  vectors,  (* m_size, m_capacity and m_data of each vector                *)
  heap,     (* the slots of the storage that is allocated                  *)
  alive,    (* constructors called less destructors called                 *)
  trivially_copyable, (* of the elements' type                             *)
  elems     (* history: what callers put in and did not take out           *)

vars == <<vectors, heap, alive, trivially_copyable, elems>>

Gone == [m_size |-> 0, m_capacity |-> -1, m_data |-> NULL]
Empty == [m_size |-> 0, m_capacity |-> 0, m_data |-> NULL]

Exists(v) == vectors[v] # Gone
Elsewhere(v) == {w \in Vectors \ {v} : Exists(w)}
AtLeastOne(n) == IF n > 1 THEN n ELSE 1

Init ==
  /\ vectors = [v \in Vectors |-> Gone]
  /\ heap = <<>>
  /\ alive = 0
  /\ trivially_copyable \in BOOLEAN
  /\ elems = [v \in Vectors |-> <<>>]

-----------------------------------------------------------------------------
(* What the methods make of the memory m: the vectors, the storage and the *)
(* number of objects.  Slots are numbered from 1.                          *)

memory == [vectors |-> vectors, heap |-> heap, alive |-> alive]

Contents(m, v) ==
  IF m.vectors[v].m_data = NULL THEN <<>>
  ELSE SubSeq(m.heap[m.vectors[v].m_data], 1, m.vectors[v].m_size)

Fresh(m) == CHOOSE b \in 1..(Cardinality(DOMAIN m.heap) + 1) : b \notin DOMAIN m.heap
RawSlots(n) == [i \in 1..n |-> Raw]
Freed(m, v) == [b \in DOMAIN m.heap \ {m.vectors[v].m_data} |-> m.heap[b]]

(* set_size: every element is moved, and what is left of it destroyed.     *)
Resized(m, v, n) ==
  LET u == m.vectors[v]
      moved == Contents(m, v) \o RawSlots(n - u.m_size)
      kept == Freed(m, v)
  IN [m EXCEPT !.heap = [b \in DOMAIN kept \cup {Fresh(m)} |->
                           IF b = Fresh(m) THEN moved ELSE kept[b]],
               !.vectors[v].m_capacity = n, !.vectors[v].m_data = Fresh(m)]

Grown(m, v) == Resized(m, v, AtLeastOne(2 * m.vectors[v].m_size))

Pushed(m, v, value) ==
  LET u == m.vectors[v]
      g == IF u.m_size + 1 > u.m_capacity THEN Grown(m, v) ELSE m
  IN [g EXCEPT !.heap[g.vectors[v].m_data][u.m_size + 1] = value,
               !.vectors[v].m_size = @ + 1, !.alive = @ + 1]

Popped(m, v) ==
  [m EXCEPT !.heap[m.vectors[v].m_data][m.vectors[v].m_size] = Raw,
            !.vectors[v].m_size = @ - 1, !.alive = @ - 1]

Cleared(m, v) ==
  LET popped[n \in 0..m.vectors[v].m_size] ==
        IF n = 0 THEN m ELSE Popped(popped[n - 1], v)
  IN popped[m.vectors[v].m_size]

PushedAll(m, v, values) ==
  LET pushed[n \in 0..Len(values)] ==
        IF n = 0 THEN m ELSE Pushed(pushed[n - 1], v, values[n])
  IN pushed[Len(values)]

(* operator=(const Vector &): a vector that is cleared first has nothing   *)
(* to copy from itself.                                                    *)
Copied(m, v, other) ==
  LET cleared == Cleared(m, v)
  IN PushedAll(cleared, v, Contents(cleared, other))

(* Mutant: the other vector keeps the storage.                             *)
MovedKeeping(m, v, other) ==
  [m EXCEPT !.heap = Freed(m, v), !.vectors[v] = m.vectors[other],
            !.alive = IF trivially_copyable THEN @ - m.vectors[v].m_size ELSE @]

(* operator=(Vector &&) frees the slots without a look at what is in them, *)
(* which for a trivially copyable type ends its objects as well.           *)
Moved(m, v, other) ==
  [m EXCEPT !.heap = Freed(m, v),
            !.vectors = [@ EXCEPT ![v] = m.vectors[other], ![other] = Empty],
            !.alive = IF trivially_copyable THEN @ - m.vectors[v].m_size ELSE @]

(* memcpy copies upwards, so it reads what it has written if it overlaps a *)
(* source in front of it.                                                  *)
memcpy(slots, dest, src, count) ==
  LET copied[i \in DOMAIN slots] ==
        LET from == src + i - dest
        IN IF i \notin dest..(dest + count - 1) THEN slots[i]
           ELSE IF from \in dest..(i - 1) THEN copied[from] ELSE slots[from]
  IN copied

(* memmove's copy from the back: the slots dest + count down to dest + 1   *)
(* are written, one too high.                                              *)
CopyDownwards(slots, dest, src, count) ==
  LET copied[i \in DOMAIN slots] ==
        LET from == src + i - dest
        IN IF i \notin (dest + 1)..(dest + count) THEN slots[i]
           ELSE IF from \in (i + 1)..(dest + count) THEN copied[from] ELSE slots[from]
  IN copied

(* Mutant: an overlap is copied from the back.                             *)
MemmoveFromBack(slots, dest, src, count) ==
  IF dest < src /\ dest + count >= src
  THEN CopyDownwards(slots, dest, src, count) ELSE memcpy(slots, dest, src, count)

(* memmove: the second condition compares the same way round as the first  *)
(* one does, so that a source in front of the destination is copied        *)
(* upwards, and one far behind it downwards.                               *)
memmove(slots, dest, src, count) ==
  IF count = 0 \/ dest = src THEN slots
  ELSE IF dest < src /\ dest + count >= src THEN memcpy(slots, dest, src, count)
  ELSE IF src > dest /\ dest + count < src THEN CopyDownwards(slots, dest, src, count)
  ELSE memcpy(slots, dest, src, count)

(* remove moves the elements behind one place up.  Of a type that is not   *)
(* trivially copyable it assigns the slot behind the last element, too,    *)
(* and what that leaves in the last slot is never destroyed.               *)
Removed(m, v, index) ==
  LET u == m.vectors[v]
      slots == m.heap[u.m_data]
      moved == IF trivially_copyable
               THEN memmove(slots, index, index + 1, u.m_size - index)
               ELSE memcpy(slots, index, index + 1, u.m_size - index)
      last == IF trivially_copyable THEN Raw ELSE Garbage
  IN [m EXCEPT !.heap[u.m_data] =
                 [i \in 1..u.m_capacity |-> IF i = u.m_size THEN last ELSE moved[i]],
               !.vectors[v].m_size = @ - 1, !.alive = @ - 1]

(* remove_if: after a removal the next index is that of the element after  *)
(* next.                                                                   *)
RemovedIf(m, v, picked) ==
  LET Visit(a, i) ==
        IF i <= a.vectors[v].m_size /\ Contents(a, v)[i] \in picked
        THEN Removed(a, v, i) ELSE a
      visited[n \in 0..m.vectors[v].m_size] ==
        IF n = 0 THEN m ELSE Visit(visited[n - 1], n)
  IN visited[m.vectors[v].m_size]

(* The elements that are not picked, in their order.                       *)
Kept(sequence, picked) ==
  LET kept[n \in 0..Len(sequence)] ==
        IF n = 0 THEN <<>>
        ELSE IF sequence[n] \in picked THEN kept[n - 1]
        ELSE Append(kept[n - 1], sequence[n])
  IN kept[Len(sequence)]

-----------------------------------------------------------------------------
(* The methods.                                                            *)

Becomes(m) ==
  /\ vectors' = m.vectors /\ heap' = m.heap /\ alive' = m.alive
  /\ UNCHANGED trivially_copyable

Holds(v, sequence) == elems' = [elems EXCEPT ![v] = sequence]

Begun(v) == [memory EXCEPT !.vectors[v] = Empty]

(* Vector() and Vector(usize).                                             *)
construct(v, preallocated) ==
  /\ ~Exists(v)
  /\ Becomes(IF preallocated = 0 THEN Begun(v) ELSE Resized(Begun(v), v, preallocated))
  /\ UNCHANGED elems

copy_construct(v, other) ==
  /\ ~Exists(v) /\ Exists(other)
  /\ LET length == vectors[other].m_size
         m == IF length = 0 THEN Begun(v) ELSE Resized(Begun(v), v, length)
     IN Becomes(Copied(m, v, other))
  /\ Holds(v, elems[other])

copy_assign(v, other) ==
  /\ Exists(v) /\ Exists(other)
  /\ "copy itself" \in Habits \/ v # other
  /\ Becomes(Copied(memory, v, other))
  /\ Holds(v, elems[other])

move_construct(v, other) ==
  /\ ~Exists(v) /\ Exists(other)
  /\ Becomes(Moved(Begun(v), v, other))
  /\ elems' = [elems EXCEPT ![v] = elems[other], ![other] = <<>>]

(* The kernel moves only onto vectors that hold nothing.                   *)
move_assign(v, other) ==
  /\ Exists(v) /\ other \in Elsewhere(v)
  /\ "move onto" \in Habits \/ trivially_copyable \/ vectors[v].m_size = 0
  /\ Becomes(Moved(memory, v, other))
  /\ elems' = [elems EXCEPT ![v] = elems[other], ![other] = <<>>]

destruct(v) ==
  /\ Exists(v)
  /\ LET cleared == Cleared(memory, v)
     IN Becomes([cleared EXCEPT !.heap = Freed(cleared, v), !.vectors[v] = Gone])
  /\ Holds(v, <<>>)

push(v, value) ==
  /\ Exists(v) /\ vectors[v].m_size < MaxSize
  /\ Becomes(Pushed(memory, v, value))
  /\ Holds(v, Append(elems[v], value))

pop(v) ==
  /\ Exists(v) /\ vectors[v].m_size > 0
  /\ Becomes(Popped(memory, v))
  /\ Holds(v, SubSeq(elems[v], 1, Len(elems[v]) - 1))

(* An element is assigned through the reference that at() returns.         *)
at(v, i, value) ==
  /\ Exists(v) /\ i <= vectors[v].m_size
  /\ Becomes([memory EXCEPT !.heap[vectors[v].m_data][i] = value])
  /\ Holds(v, [elems[v] EXCEPT ![i] = value])

(* All elements are assigned, those behind upto as well.                   *)
fill(v, value, upto) ==
  /\ Exists(v)
  /\ LET length == vectors[v].m_size
         slots == heap[vectors[v].m_data]
         set == IF length = 0 THEN memory
                ELSE [memory EXCEPT !.heap[vectors[v].m_data] =
                       [n \in 1..length |-> value] \o SubSeq(slots, length + 1, Len(slots))]
         pushes == IF upto > length THEN upto - length ELSE 0
     IN Becomes(PushedAll(set, v, [n \in 1..pushes |-> value]))
  /\ Holds(v, [i \in 1..(IF upto > Len(elems[v]) THEN upto ELSE Len(elems[v])) |-> value])

clear(v) ==
  /\ Exists(v)
  /\ Becomes(Cleared(memory, v))
  /\ Holds(v, <<>>)

resize_to_fit(v) ==
  /\ Exists(v)
  /\ Becomes(Resized(memory, v, vectors[v].m_size))
  /\ UNCHANGED elems

(* Objects are removed where the slot behind the last one exists.          *)
Careful(v) == trivially_copyable \/ "remove objects" \in Habits

remove(v, index) ==
  /\ Exists(v) /\ index <= vectors[v].m_size
  /\ Careful(v)
  /\ trivially_copyable \/ vectors[v].m_size < vectors[v].m_capacity
  /\ Becomes(Removed(memory, v, index))
  /\ Holds(v, RemoveAt(elems[v], index))

remove_if(v, picked) ==
  /\ Exists(v)
  /\ Careful(v)
  /\ trivially_copyable \/ vectors[v].m_size < vectors[v].m_capacity
  /\ \/ "remove neighbours" \in Habits
     \/ \A i \in 1..(Len(elems[v]) - 1) : ~({elems[v][i], elems[v][i + 1]} \subseteq picked)
  /\ Becomes(RemovedIf(memory, v, picked))
  /\ Holds(v, Kept(elems[v], picked))

Next ==
  \E v \in Vectors :
    \/ \E n \in 0..MaxSize : construct(v, n)
    \/ \E other \in Vectors :
         \/ copy_construct(v, other) \/ copy_assign(v, other)
         \/ move_construct(v, other) \/ move_assign(v, other)
    \/ destruct(v)
    \/ \E value \in Values : push(v, value)
    \/ pop(v) \/ clear(v) \/ resize_to_fit(v)
    \/ \E value \in Values, i \in 1..MaxSize : at(v, i, value) \/ fill(v, value, i)
    \/ \E i \in 1..MaxSize : remove(v, i)
    \/ \E picked \in SUBSET Values : remove_if(v, picked)

Spec == Init /\ [][Next]_vars

-----------------------------------------------------------------------------

(* A vector holds what its callers put in and did not take out, in order,  *)
(* through every growth, copy, move and removal: vector.hpp:257 moves each *)
(* element, and no two vectors write to the same storage.                  *)
HoldsItsElements ==
  \A v \in Vectors : Contents(memory, v) = elems[v]

Objects(all) == UNION {{v} \X (1..all[v].m_size) : v \in Vectors}

(* Every object that a vector constructs is destroyed exactly once, and no *)
(* storage is lost or freed twice: the slots below m_size hold objects and *)
(* the others none, every allocation is one vector's, and there are no     *)
(* more objects than elements (vector.hpp:53, 257).                        *)
EveryObjectEndsOnce ==
  /\ alive = Cardinality(Objects(vectors))
  /\ \A v \in Vectors : LET u == vectors[v] IN
       /\ u.m_data = NULL => u.m_capacity <= 0 /\ u.m_size = 0
       /\ u.m_data # NULL =>
            /\ u.m_data \in DOMAIN heap
            /\ Len(heap[u.m_data]) = u.m_capacity
            /\ \A i \in 1..u.m_capacity : (heap[u.m_data][i] = Raw) = (i > u.m_size)
            /\ \A w \in Elsewhere(v) : vectors[w].m_data # u.m_data
  /\ DOMAIN heap \subseteq {vectors[v].m_data : v \in Vectors}

=============================================================================
