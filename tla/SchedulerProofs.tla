--------------------------- MODULE SchedulerProofs ---------------------------
(***************************************************************************)
(* For every size of pages, every number of them and every set of          *)
(* programs.  Of Memory's steps: each page has one owner; and while all    *)
(* programs lie below the kernel's addresses, which the loader does not    *)
(* demand, a process reaches its own pages only, nothing that is loaded    *)
(* later changes what a process sees, and what it sees of its segments is  *)
(* what its file says.  Of Scheduler's steps: they keep all that, the      *)
(* program or system call that runs is the current process's, and a tick   *)
(* takes nothing from the thread, since reschedule never reaches its       *)
(* switch.                                                                 *)
(***************************************************************************)
EXTENDS Scheduler, TLAPS, FiniteSetTheorems

-----------------------------------------------------------------------------
(* Numbers.                                                                *)

(* Every set of natural numbers that is not empty has a least member.      *)
LEMMA LeastMember ==
  ASSUME NEW S \in SUBSET Nat, S # {}
  PROVE  LET least == CHOOSE p \in S : \A q \in S : p <= q
         IN least \in S /\ \A q \in S : least <= q
<1> DEFINE Below == {p \in Nat \X Nat : p[1] < p[2]}
<1>1. IsWellFoundedOn(Below, Nat)
  BY NatLessThanWellFounded DEF OpToRel
<1> HIDE DEF Below
<1>2. PICK x \in S : \A y \in S : <<y, x>> \notin Below
  BY <1>1, WFMin, Zenon
<1>3. ASSUME NEW y \in S PROVE x <= y
  <2>1. x \in Nat /\ y \in Nat /\ <<y, x>> \notin Below
    BY <1>2
  <2>2. y < x => <<y, x>> \in Below
    BY <2>1 DEF Below
  <2> QED
    BY <2>1, <2>2
<1> QED
  BY <1>3, Zenon

(* Division of a number below a product.                                   *)
LEMMA QuotientBelow ==
  ASSUME NEW n \in Nat, NEW d \in Nat \ {0}, NEW k \in Nat, n < k * d
  PROVE  n \div d \in 0..(k - 1)
<1> DEFINE q == n \div d
           r == n % d
<1>1. q \in Nat /\ r \in 0..(d - 1) /\ n = d * q + r
  OBVIOUS
<1> HIDE DEF q, r
<1>2. ASSUME q >= k PROVE FALSE
  <2>1. PICK j \in Nat : q = k + j
    BY <1>1, <1>2
  <2>2. d * q = k * d + d * j /\ d * j \in Nat /\ k * d \in Nat
    BY <2>1
  <2> QED
    BY <1>1, <2>2
<1>3. q \in 0..(k - 1)
  BY <1>1, <1>2
<1> QED
  BY <1>3 DEF q

(* Where the processor finds an address: its entry in the directory, its   *)
(* entry in a table, its word in a page.                                   *)
LEMMA IndicesInRange ==
  ASSUME NEW v \in Nat
  PROVE  /\ DirIndex(v) \in Nat
         /\ TableIndex(v) \in Slots
         /\ v % PageSize \in Slots
         /\ \A k \in Nat : v < k * PageSize * PageSize => DirIndex(v) \in 0..(k - 1)
<1> DEFINE square == PageSize * PageSize
<1>1. PageSize \in Nat \ {0} /\ square \in Nat \ {0}
  BY MemoryAssumption
<1>2. \A k \in Nat : k * PageSize * PageSize = k * square
  BY <1>1
<1>3. DirIndex(v) = v \div square /\ TableIndex(v) = (v % square) \div PageSize
  BY DEF DirIndex, TableIndex
<1>4. v % square \in Nat /\ v % square < square
  <2> HIDE DEF square
  <2> QED
    BY <1>1
<1>5. (v % square) \div PageSize \in 0..(PageSize - 1)
  BY <1>1, <1>4, QuotientBelow
<1>6. \A k \in Nat : v < k * square => v \div square \in 0..(k - 1)
  <2> HIDE DEF square
  <2> QED
    BY <1>1, QuotientBelow
<1>7. v \div square \in Nat /\ v % PageSize \in 0..(PageSize - 1)
  <2> HIDE DEF square
  <2> QED
    BY <1>1
<1> QED
  BY <1>2, <1>3, <1>5, <1>6, <1>7 DEF Slots

(* Counting from below, every number up to the size of a set is reached at *)
(* one of its members.                                                     *)
LEMMA CountReaches ==
  ASSUME NEW S \in SUBSET Pages, NEW n \in 1..Cardinality(S)
  PROVE  \E p \in S : Cardinality({q \in S : q < p}) = n - 1
<1> DEFINE Before(x) == {q \in S : q < x}
           Enough == {x \in Nat : Cardinality(Before(x)) >= n}
<1>1. IsFiniteSet(S) /\ S \subseteq Nat /\ PageCount \in Nat
  <2>1. PageCount \in Nat \ {0} /\ 0 \in Int /\ PageCount - 1 \in Int
    BY MemoryAssumption
  <2>2. IsFiniteSet(Pages) /\ Pages \subseteq Nat
    BY <2>1, FS_Interval DEF Pages
  <2> QED
    BY <2>1, <2>2, FS_Subset
<1>2. \A x \in Nat : IsFiniteSet(Before(x)) /\ Cardinality(Before(x)) \in Nat
  BY <1>1, FS_Subset, FS_CardinalityType
<1>3. Before(0) = {} /\ Before(PageCount) = S
  <2>1. \A q \in S : q \in Nat /\ q < PageCount
    BY <1>1 DEF Pages
  <2> QED
    BY <2>1
<1>4. PageCount \in Enough /\ 0 \notin Enough
  BY <1>1, <1>3, FS_EmptySet
<1>5. PICK x \in Enough : \A y \in Enough : x <= y
  <2> HIDE DEF Enough
  <2>1. Enough \subseteq Nat
    BY DEF Enough
  <2> QED
    BY <1>4, <2>1, LeastMember
<1>6. x \in Nat /\ x - 1 \in Nat /\ x - 1 \notin Enough
  BY <1>4, <1>5
<1>7. Before(x) = IF x - 1 \in S THEN Before(x - 1) \cup {x - 1} ELSE Before(x - 1)
  <2>1. \A q \in S : q \in Nat
    BY <1>1
  <2>2. \A q \in S : q < x <=> q < x - 1 \/ q = x - 1
    BY <1>6, <2>1
  <2> QED
    BY <2>2
<1>8. x - 1 \notin Before(x - 1)
  BY <1>6
<1>9. /\ Cardinality(Before(x - 1)) \in Nat /\ Cardinality(Before(x - 1)) < n
      /\ Cardinality(Before(x)) >= n /\ n \in Nat
  BY <1>1, <1>2, <1>5, <1>6, FS_CardinalityType
<1>10. x - 1 \in S
  BY <1>7, <1>9
<1>11. Cardinality(Before(x)) = Cardinality(Before(x - 1)) + 1
  BY <1>2, <1>6, <1>7, <1>8, <1>10, FS_AddElement
<1> QED
  BY <1>9, <1>10, <1>11

-----------------------------------------------------------------------------
(* Entries and memory.                                                     *)

(* The two sorts of entries.                                               *)
ReadWrite(page) == Entry(page, TRUE)
ReadOnly(page)  == Entry(page, FALSE)

(* An entry leads to its page; what is not an entry leads nowhere.         *)
LEMMA EntryFacts ==
  /\ \A page : /\ Present(ReadWrite(page)) /\ ReadWrite(page)[1] = page
               /\ ReadWrite(page) # Zero
               /\ Present(ReadOnly(page)) /\ ReadOnly(page)[1] = page
  /\ ~Present(Zero) /\ KernelEntry # Zero
BY DEF Present, Entry, Zero, KernelEntry, ReadWrite, ReadOnly

(* The kernel's table is in none of the pages that are allocated.          *)
LEMMA KernelTableApart ==
  /\ KernelTable \notin Pages /\ KernelTable \in Frames
  /\ Pages \subseteq Frames
  /\ \A q \in Frames : q \in Pages \/ q = KernelTable
BY MemoryAssumption DEF KernelTable, Pages, Frames

UserDirs == Slots \ {KernelDir}

(* The addresses below the kernel.                                         *)
LEMMA UserIndices ==
  ASSUME NEW v \in UserAddresses
  PROVE  /\ v \in Nat /\ v < KernelDir * PageSize * PageSize
         /\ DirIndex(v) \in 0..(KernelDir - 1) /\ DirIndex(v) \in UserDirs
         /\ TableIndex(v) \in Slots /\ v % PageSize \in Slots
<1>1. KernelDir \in Nat /\ KernelDir < PageSize /\ PageSize \in Nat
  BY MemoryAssumption
<1>2. KernelDir * PageSize * PageSize \in Nat
  BY <1>1
<1>3. v \in Nat /\ v < KernelDir * PageSize * PageSize
  BY <1>2 DEF UserAddresses
<1>4. DirIndex(v) \in 0..(KernelDir - 1)
  BY <1>1, <1>3, IndicesInRange
<1>5. DirIndex(v) \in UserDirs
  BY <1>1, <1>4 DEF UserDirs, Slots
<1> QED
  BY <1>3, <1>4, <1>5, IndicesInRange

(* Every page has its words.                                               *)
IsMemory(m) == m = [p \in Frames |-> [s \in Slots |-> m[p][s]]]

(* Writing one word changes this word only.                                *)
Store(m, page, slot, word) == [m EXCEPT ![page][slot] = word]

(* One word is written, and nothing else.                                  *)
LEMMA WordWritten ==
  ASSUME NEW m, IsMemory(m), NEW page \in Frames, NEW slot \in Slots, NEW word
  PROVE  LET n == Store(m, page, slot, word)
         IN /\ IsMemory(n) /\ n[page][slot] = word
            /\ \A q \in Frames : q # page => n[q] = m[q]
            /\ \A s \in Slots : s # slot => n[page][s] = m[page][s]
<1> DEFINE n == Store(m, page, slot, word)
<1>1. /\ DOMAIN m = Frames /\ DOMAIN m[page] = Slots
      /\ m[page] = [s \in Slots |-> m[page][s]]
  BY DEF IsMemory
<1>2. n = [p \in Frames |-> IF p = page THEN [m[page] EXCEPT ![slot] = word] ELSE m[p]]
  BY <1>1 DEF Store
<1> HIDE DEF n
<1>3. n[page] = [s \in Slots |-> IF s = slot THEN word ELSE m[page][s]]
  BY <1>1, <1>2
<1>4. \A q \in Frames : q # page => n[q] = m[q] /\ n[q] = [s \in Slots |-> m[q][s]]
  BY <1>2 DEF IsMemory
<1>5. \A q \in Frames : n[q] = [s \in Slots |-> n[q][s]]
  BY <1>3, <1>4
<1>6. IsMemory(n)
  BY <1>2, <1>5 DEF IsMemory
<1> QED
  BY <1>3, <1>4, <1>6 DEF n

(* Writing a page changes this page only.                                  *)
IsPage(image) == image = [s \in Slots |-> image[s]]
StorePage(m, page, image) == [m EXCEPT ![page] = image]

(* One page is written, and nothing else.                                  *)
LEMMA PageWritten ==
  ASSUME NEW m, IsMemory(m), NEW page \in Frames,
         NEW image, IsPage(image)
  PROVE  LET n == StorePage(m, page, image)
         IN /\ IsMemory(n) /\ n[page] = image
            /\ \A q \in Frames : q # page => n[q] = m[q]
<1> DEFINE n == StorePage(m, page, image)
<1>1. n = [p \in Frames |-> IF p = page THEN image ELSE m[p]]
  BY DEF IsMemory, StorePage
<1> HIDE DEF n
<1>2. \A q \in Frames : q # page => n[q] = m[q] /\ n[q] = [s \in Slots |-> m[q][s]]
  BY <1>1 DEF IsMemory
<1>3. n[page] = image
  BY <1>1
<1>4. \A q \in Frames : n[q] = [s \in Slots |-> n[q][s]]
  BY <1>2, <1>3 DEF IsPage
<1>5. IsMemory(n)
  BY <1>1, <1>4 DEF IsMemory
<1> QED
  BY <1>2, <1>3, <1>5 DEF n

-----------------------------------------------------------------------------
(* The tables of one process.                                              *)

(* The directory base leads to tables, and these to pages that are none of *)
(* the tables; all of them belong to mine.                                 *)
Tidy(m, base, mine) ==
  /\ m[base][KernelDir] = KernelEntry
  /\ \A d \in UserDirs :
       m[base][d] # Zero => Present(m[base][d]) /\ m[base][d][1] \in mine
  /\ \A d, e \in UserDirs, s \in Slots :
       LET word == m[m[base][d][1]][s]
       IN m[base][d] # Zero /\ word # Zero =>
            /\ Present(word) /\ word[1] \in mine
            /\ m[base][e] # Zero => word[1] # m[base][e][1]

(* What a table's entry leads to is one of the process's pages.            *)
LEMMA TidyWord ==
  ASSUME NEW m, NEW base, NEW mine, Tidy(m, base, mine), NEW e \in UserDirs, NEW s \in Slots,
         m[base][e] # Zero
  PROVE  /\ Present(m[base][e]) /\ m[base][e][1] \in mine
         /\ LET word == m[m[base][e][1]][s]
            IN word # Zero => /\ Present(word) /\ word[1] \in mine
                              /\ \A f \in UserDirs : m[base][f] # Zero => word[1] # m[base][f][1]
BY DEF Tidy

LEMMA TidyEntry ==
  ASSUME NEW m, NEW base, NEW mine, Tidy(m, base, mine), NEW e \in UserDirs, NEW s \in Slots,
         m[base][e] # Zero, NEW word, word = m[m[base][e][1]][s], word # Zero
  PROVE  /\ Present(word) /\ word[1] \in mine
         /\ \A f \in UserDirs : m[base][f] # Zero => word[1] # m[base][f][1]
BY Zenon DEF Tidy

(* What is written elsewhere leaves a process as it is.                    *)
LEMMA TidyKept ==
  ASSUME NEW m, NEW n, NEW base, NEW mine, Tidy(m, base, mine),
         \A page \in mine \cup {base} : n[page] = m[page]
  PROVE  Tidy(n, base, mine)
BY DEF Tidy

(* Nor does it change what that process sees.                              *)
LEMMA ViewKept ==
  ASSUME NEW m, NEW n, NEW p, NEW mine, p.base \in Pages, Tidy(m, p.base, mine),
         \A page \in mine \cup {p.base} : n[page] = m[page]
  PROVE  View(n, p) = View(m, p)
<1> DEFINE base == p.base
<1> SUFFICES ASSUME NEW v \in UserAddresses
             PROVE  /\ Read(n, base, v) = Read(m, base, v)
                    /\ Writable(n, base, v) = Writable(m, base, v)
  BY DEF View
<1>1. /\ DirIndex(v) \in UserDirs /\ TableIndex(v) \in Slots /\ v % PageSize \in Slots
      /\ base # Boot
  <2>1. base # Boot
    BY MemoryAssumption DEF Pages, Boot
  <2> QED
    BY <2>1, UserIndices
<1> DEFINE d == DirIndex(v)
           t == TableIndex(v)
           table == m[base][d]
           word == m[table[1]][t]
<1> HIDE DEF base, d, t
<1>2. n[base] = m[base]
  BY DEF base
<1>3. CASE ~Present(table)
  <2>1. Walk(m, base, v) = Zero /\ Walk(n, base, v) = Zero
    BY <1>1, <1>2, <1>3 DEF Walk, d, t
  <2> QED
    BY <2>1, EntryFacts DEF Read, Writable
<1>4. CASE Present(table)
  <2>1. table # Zero /\ table[1] \in mine
    BY <1>1, <1>4, EntryFacts DEF Tidy, d, base
  <2>2. n[table[1]] = m[table[1]]
    BY <2>1
  <2>3. Walk(m, base, v) = word /\ Walk(n, base, v) = word
    BY <1>1, <1>2, <1>4, <2>2 DEF Walk, d, t
  <2>4. Writable(n, base, v) = Writable(m, base, v)
    BY <2>3 DEF Writable
  <2>5. Present(word) => word[1] \in mine
    BY <1>1, <2>1, EntryFacts DEF Tidy, d, t, base
  <2>6. Read(n, base, v) = Read(m, base, v)
    BY <2>3, <2>5 DEF Read
  <2> QED
    BY <2>4, <2>6
<1> QED
  BY <1>3, <1>4

(* n is what m becomes when page is mapped by entry t of the table that    *)
(* entry d leads to; what page holds is another matter.                    *)
MappedAt(m, n, base, d, t, table, page) ==
  /\ page # table /\ page # base /\ table # base
  /\ Present(n[base][d]) /\ n[base][d][1] = table
  /\ Present(n[table][t]) /\ n[table][t][1] = page
  /\ \A s \in Slots : s # d => n[base][s] = m[base][s]
  /\ \A s \in Slots : s # t => n[table][s] = m[table][s]
  /\ \A q \in Pages : q \notin {base, table, page} => n[q] = m[q]
  /\ n[KernelTable] = m[KernelTable]

(* A new page is mapped for an address, and a table if there was none.     *)
LEMMA TidyGrows ==
  ASSUME NEW m, NEW n, IsMemory(m), NEW base \in Pages, NEW mine \in SUBSET Pages,
         base \notin mine, Tidy(m, base, mine),
         NEW d \in UserDirs, NEW t \in Slots,
         NEW table \in Pages, NEW page \in Pages, page \notin mine,
         m[base][d] # Zero => m[base][d][1] = table,
         m[base][d] = Zero => table \notin mine /\ \A s \in Slots : m[table][s] = Zero,
         MappedAt(m, n, base, d, t, table, page)
  PROVE  Tidy(n, base, mine \cup {table, page})
<1> USE DEF MappedAt
<1> DEFINE all == mine \cup {table, page}
<1>1. n[base][KernelDir] = KernelEntry
  <2>1. KernelDir \in Slots /\ KernelDir # d
    BY MemoryAssumption DEF UserDirs, Slots
  <2> QED
    BY <2>1 DEF Tidy
<1>2. \A e \in UserDirs : n[base][e] # Zero =>
        /\ Present(n[base][e]) /\ n[base][e][1] \in all
        /\ n[base][e][1] # page
        /\ n[base][e][1] # table =>
             e # d /\ m[base][e] = n[base][e] /\ n[base][e][1] \in mine
  BY DEF Tidy, UserDirs
<1>3. ASSUME NEW e \in UserDirs, NEW f \in UserDirs, NEW s \in Slots,
             n[base][e] # Zero, n[n[base][e][1]][s] # Zero
      PROVE  LET word == n[n[base][e][1]][s]
             IN /\ Present(word) /\ word[1] \in all
                /\ n[base][f] # Zero => word[1] # n[base][f][1]
  <2> DEFINE word == n[n[base][e][1]][s]
  <2>1. CASE n[base][e][1] = table /\ s = t
    BY <1>2, <2>1
  <2>2. CASE n[base][e][1] = table /\ s # t
    <3>1. word = m[table][s] /\ m[base][d] # Zero /\ m[base][d][1] = table
      BY <1>3, <2>2
    <3>2. /\ Present(word) /\ word[1] \in mine
          /\ m[base][f] # Zero => word[1] # m[base][f][1]
          /\ word[1] # table
      BY <1>3, <3>1, <2>2 DEF Tidy
    <3> QED
      BY <1>2, <3>2
  <2>3. CASE n[base][e][1] # table
    <3>1. e # d /\ m[base][e] = n[base][e] /\ n[base][e][1] \in mine
      BY <1>2, <1>3, <2>3
    <3>2. word = m[m[base][e][1]][s]
      BY <2>3, <3>1
    <3>3. /\ Present(word) /\ word[1] \in mine
          /\ \A g \in UserDirs : m[base][g] # Zero => word[1] # m[base][g][1]
      <4>1. word # Zero /\ m[base][e] # Zero
        BY <1>3, <3>1
      <4> HIDE DEF word, MappedAt
      <4> QED
        BY <3>2, <4>1, TidyEntry
    <3>4. word[1] # table
      BY <3>3
    <3> QED
      BY <1>2, <3>3, <3>4
  <2> QED
    BY <2>1, <2>2, <2>3
<1> HIDE DEF MappedAt, all
<1>4. \A e, f \in UserDirs, s \in Slots :
        LET word == n[n[base][e][1]][s]
        IN n[base][e] # Zero /\ word # Zero =>
             /\ Present(word) /\ word[1] \in all
             /\ n[base][f] # Zero => word[1] # n[base][f][1]
  BY <1>3
<1>5. \A e \in UserDirs : n[base][e] # Zero => Present(n[base][e]) /\ n[base][e][1] \in all
  BY <1>2
<1>6. Tidy(n, base, all)
  BY <1>1, <1>4, <1>5, Zenon DEF Tidy
<1> QED
  BY <1>6 DEF all

-----------------------------------------------------------------------------
(* Allocation.                                                             *)

(* The page that is found is free, and allocating it marks nothing else.   *)
LEMMA Allocated ==
  ASSUME NEW alloc \in [Pages -> BOOLEAN], Free(alloc) # {}
  PROVE  /\ FirstFree(alloc) \in Pages /\ ~alloc[FirstFree(alloc)]
         /\ allocate(alloc) \in [Pages -> BOOLEAN]
         /\ \A p \in Pages : allocate(alloc)[p] = (alloc[p] \/ p = FirstFree(alloc))
<1>1. Free(alloc) \subseteq Nat /\ Free(alloc) \subseteq Pages
  BY MemoryAssumption DEF Free, Pages
<1>2. FirstFree(alloc) \in Free(alloc)
  BY <1>1, LeastMember DEF FirstFree
<1>3. FirstFree(alloc) \in Pages /\ ~alloc[FirstFree(alloc)]
  BY <1>2 DEF Free
<1> QED
  BY <1>3 DEF allocate

(* page is mapped as before says, and table is a new one if there was none. *)
Maps(before, after, base, d, t, table, page) ==
  LET there == Present(before.ram[base][d])
      new == IF there THEN {page} ELSE {table, page}
  IN /\ \A p \in new : ~before.alloc[p]
     /\ there => table = before.ram[base][d][1]
     /\ after.owned = IF there THEN Append(before.owned, page)
                      ELSE Append(Append(before.owned, table), page)
     /\ after.alloc \in [Pages -> BOOLEAN]
     /\ \A p \in Pages : after.alloc[p] = (before.alloc[p] \/ p \in new)
     /\ IsMemory(after.ram)
     /\ MappedAt(before.ram, after.ram, base, d, t, table, page)
     /\ after.ram[table][t] = ReadWrite(page)

(* map_user_memory takes a free page, and another one for a table that was *)
(* missing, and writes the two entries that lead there.                    *)
LEMMA MapUserMemory ==
  ASSUME NEW alloc \in [Pages -> BOOLEAN], NEW m, IsMemory(m), NEW owned \in Seq(Pages),
         NEW base \in Pages, alloc[base], NEW at,
         DirIndex(at) \in Slots, TableIndex(at) \in Slots,
         Present(m[base][DirIndex(at)]) =>
           /\ m[base][DirIndex(at)][1] \in Pages \ {base}
           /\ alloc[m[base][DirIndex(at)][1]],
         NEW before, before = [alloc |-> alloc, ram |-> m, owned |-> owned],
         CanMap(before, base, at),
         NEW after, after = map_user_memory(before, base, at)
  PROVE  \E table, page \in Pages :
           Maps(before, after, base, DirIndex(at), TableIndex(at), table, page)
<1> DEFINE d == DirIndex(at)
           t == TableIndex(at)
<1>0. \A w : w = WithTable(before, base, at) /\ w.ram[base][d][1] \in Pages =>
        after = [alloc |-> allocate(w.alloc),
                 ram |-> Store(w.ram, w.ram[base][d][1], t, ReadWrite(FirstFree(w.alloc))),
                 owned |-> Append(w.owned, FirstFree(w.alloc))]
  <2>1. \A table, page : table \in Pages => NewEntry(table, t, page) = ReadWrite(page)
    BY KernelTableApart DEF NewEntry, ReadWrite
  <2>2. \A w : w = WithTable(before, base, at) =>
          after = [alloc |-> allocate(w.alloc),
                   ram |-> Store(w.ram, w.ram[base][d][1], t,
                                 NewEntry(w.ram[base][d][1], t, FirstFree(w.alloc))),
                   owned |-> Append(w.owned, FirstFree(w.alloc))]
    BY Zenon DEF map_user_memory, Store
  <2> QED
    BY <2>1, <2>2, Zenon
<1>1. CASE Present(m[base][d])
  <2> DEFINE table == m[base][d][1]
             page == FirstFree(alloc)
  <2>1. before = WithTable(before, base, at) /\ Free(alloc) # {}
    BY <1>1 DEF WithTable, CanMap
  <2>2. /\ page \in Pages /\ ~alloc[page] /\ table \in Pages \ {base} /\ alloc[table]
        /\ allocate(alloc) \in [Pages -> BOOLEAN]
        /\ \A p \in Pages : allocate(alloc)[p] = (alloc[p] \/ p = page)
    BY <1>1, <2>1, Allocated
  <2>3. /\ after.alloc = allocate(alloc) /\ after.owned = Append(owned, page)
        /\ after.ram = Store(m, table, t, ReadWrite(page))
    <3>1. after = [alloc |-> allocate(before.alloc),
                   ram |-> Store(before.ram, before.ram[base][d][1], t,
                                 ReadWrite(FirstFree(before.alloc))),
                   owned |-> Append(before.owned, FirstFree(before.alloc))]
      <4>1. before.ram[base][d][1] \in Pages
        BY <2>2
      <4> QED
        BY <1>0, <2>1, <4>1, Zenon
    <3> QED
      BY <3>1
  <2>4. /\ IsMemory(after.ram) /\ after.ram[table][t] = ReadWrite(page)
        /\ \A q \in Frames : q # table => after.ram[q] = m[q]
        /\ \A s \in Slots : s # t => after.ram[table][s] = m[table][s]
    <3> DEFINE word == ReadWrite(page)
    <3>1. /\ after.ram = Store(m, table, t, word) /\ word = ReadWrite(page)
          /\ IsMemory(m) /\ table \in Frames /\ t \in Slots
      BY <2>2, <2>3, KernelTableApart
    <3> HIDE DEF word, table, t
    <3> QED
      BY <3>1, WordWritten
  <2>5. after.ram[base] = m[base]
    <3>1. base \in Frames /\ base # table
      BY <2>2, KernelTableApart
    <3> HIDE DEF table, page, t
    <3> QED
      BY <2>4, <3>1
  <2> HIDE DEF page
  <2>6. MappedAt(m, after.ram, base, d, t, table, page)
    <3>1. /\ page # table /\ page # base /\ table # base
          /\ Present(after.ram[base][d]) /\ after.ram[base][d][1] = table
      BY <1>1, <2>2, <2>5
    <3>2. Present(after.ram[table][t]) /\ after.ram[table][t][1] = page
      <4>1. after.ram[table][t] = ReadWrite(page)
        BY <2>4
      <4>2. Present(ReadWrite(page)) /\ ReadWrite(page)[1] = page
        BY EntryFacts, Zenon
      <4> QED
        BY <4>1, <4>2, Zenon
    <3>3. \A s \in Slots : s # d => after.ram[base][s] = m[base][s]
      BY <2>5
    <3>4. table # KernelTable
      BY <2>2, KernelTableApart
    <3> HIDE DEF table, t
    <3> QED
      BY <2>4, <3>1, <3>2, <3>3, <3>4, KernelTableApart DEF MappedAt
  <2>7. /\ \A p \in {page} : ~alloc[p]
        /\ after.owned = Append(owned, page) /\ after.alloc \in [Pages -> BOOLEAN]
        /\ \A p \in Pages : after.alloc[p] = (alloc[p] \/ p \in {page})
        /\ table = before.ram[base][d][1] /\ Present(before.ram[base][d])
        /\ before.alloc = alloc /\ before.owned = owned /\ before.ram = m
    BY <1>1, <2>2, <2>3
  <2>8. Maps(before, after, base, d, t, table, page)
    <3>1. after.ram[table][t] = ReadWrite(page) /\ IsMemory(after.ram)
      BY <2>4
    <3> HIDE DEF table, t
    <3>2. /\ Present(before.ram[base][d]) /\ table = before.ram[base][d][1]
          /\ MappedAt(before.ram, after.ram, base, d, t, table, page)
          /\ before.alloc = alloc /\ before.owned = owned
      BY <2>6, <2>7
    <3> QED
      BY <2>7, <3>1, <3>2 DEF Maps
  <2> QED
    BY <2>2, <2>8
<1>2. CASE ~Present(m[base][d])
  <2> DEFINE table == FirstFree(alloc)
             rest == allocate(alloc)
             page == FirstFree(rest)
             linked == Store(m, base, d, ReadWrite(table))
             with == [alloc |-> rest, ram |-> linked, owned |-> Append(owned, table)]
  <2>1. with = WithTable(before, base, at)
    BY <1>2, Zenon DEF WithTable, Store, ReadWrite
  <2>2. Free(alloc) # {} /\ Free(rest) # {}
    BY <1>2 DEF CanMap
  <2>3. /\ table \in Pages /\ ~alloc[table] /\ rest \in [Pages -> BOOLEAN]
        /\ \A p \in Pages : rest[p] = (alloc[p] \/ p = table)
    BY <2>2, Allocated
  <2>4. /\ page \in Pages /\ ~rest[page]
        /\ allocate(rest) \in [Pages -> BOOLEAN]
        /\ \A p \in Pages : allocate(rest)[p] = (rest[p] \/ p = page)
    <3> HIDE DEF rest
    <3> QED
      BY <2>2, <2>3, Allocated
  <2>5. /\ IsMemory(linked) /\ linked[base][d] = ReadWrite(table)
        /\ \A q \in Frames : q # base => linked[q] = m[q]
        /\ \A s \in Slots : s # d => linked[base][s] = m[base][s]
    BY WordWritten, KernelTableApart
  <2> HIDE DEF table, rest, page, linked
  <2>6. linked[base][d][1] = table
    BY <2>5, EntryFacts
  <2>7. /\ after.alloc = allocate(rest)
        /\ after.owned = Append(Append(owned, table), page)
        /\ after.ram = Store(linked, table, t, ReadWrite(page))
    <3>1. after = [alloc |-> allocate(with.alloc),
                   ram |-> Store(with.ram, with.ram[base][d][1], t,
                                 ReadWrite(FirstFree(with.alloc))),
                   owned |-> Append(with.owned, FirstFree(with.alloc))]
      <4>1. with.ram[base][d][1] \in Pages
        BY <2>3, <2>6
      <4> HIDE DEF with
      <4> QED
        BY <1>0, <2>1, <4>1, Zenon
    <3> QED
      BY <2>6, <3>1 DEF page
  <2>8. /\ IsMemory(after.ram) /\ after.ram[table][t] = ReadWrite(page)
        /\ \A q \in Frames : q # table => after.ram[q] = linked[q]
        /\ \A s \in Slots : s # t => after.ram[table][s] = linked[table][s]
    BY <2>3, <2>5, <2>7, WordWritten, KernelTableApart
  <2>9. table # base /\ page # base /\ page # table /\ ~alloc[page]
    BY <2>3, <2>4
  <2>10. \A p \in Pages : after.alloc[p] = (alloc[p] \/ p \in {table, page})
    BY <2>3, <2>4, <2>7
  <2>11. after.ram[base] = linked[base] /\ linked[table] = m[table]
    BY <2>3, <2>5, <2>8, <2>9, KernelTableApart
  <2>12. Present(after.ram[base][d]) /\ after.ram[base][d][1] = table
    BY <2>5, <2>11, EntryFacts
  <2>13. /\ \A q \in Pages : q \notin {base, table} => after.ram[q] = m[q]
         /\ after.ram[KernelTable] = m[KernelTable]
    BY <2>3, <2>5, <2>8, KernelTableApart
  <2>14. MappedAt(m, after.ram, base, d, t, table, page)
    BY <2>3, <2>4, <2>5, <2>8, <2>9, <2>11, <2>12, <2>13, EntryFacts DEF MappedAt
  <2>15. /\ \A p \in {table, page} : ~alloc[p]
         /\ after.owned = Append(Append(owned, table), page)
         /\ after.alloc \in [Pages -> BOOLEAN]
         /\ ~Present(before.ram[base][d])
         /\ before.alloc = alloc /\ before.owned = owned /\ before.ram = m
    BY <1>2, <2>3, <2>4, <2>7, <2>9
  <2>16. Maps(before, after, base, d, t, table, page)
    BY <2>8, <2>10, <2>14, <2>15 DEF Maps
  <2> QED
    BY <2>3, <2>4, <2>16
<1> QED
  BY <1>1, <1>2

-----------------------------------------------------------------------------
(* The invariant.                                                          *)

Process == [base: Pages, owned: Seq(Pages), file: Files, entry: Nat]
Unfinished ==
  [header: Nat \ {0}, left: Int, file: Files, base: Pages, owned: Seq(Pages),
   vaddr: Nat, source: Nat]

OwnType ==
  /\ s_allocations \in [Pages -> BOOLEAN]
  /\ processes \in Seq(Process)
  /\ loading \in Unfinished \cup {NotLoading}
MemType == OwnType /\ IsMemory(ram)

Mine(p) == Owned(p) \ {p.base}

(* The pages that the kernel's table leads to, but for the one that        *)
(* init_kernel_area maps behind the heap.                                  *)
KernelPages ==
  {p \in Pages : \E s \in Slots :
     /\ Present(ram[KernelTable][s]) /\ ram[KernelTable][s][1] = p
     /\ ~(s = HeapEnd /\ p = 0)}

(* One use of each page, for one process and for the kernel.               *)
OneUse(p) ==
  /\ Cardinality(Owned(p)) = Len(p.owned) + 1
  /\ \A page \in Owned(p) : s_allocations[page] /\ page \notin KernelPages
Disjoint ==
  \A j, k \in DOMAIN Everyone : j # k => Owned(Everyone[j]) \cap Owned(Everyone[k]) = {}
KernelsAllocated == \A page \in KernelPages : page \in Pages /\ s_allocations[page]

(* What the loop over a segment's pages has left lies below the kernel.    *)
LoopBelow ==
  IsLoading /\ loading.left > 0 =>
    PageNumber(loading.vaddr) + loading.left <= KernelDir * PageSize

(* The inductive invariant while all programs lie below the kernel.        *)
(* Tables stay tables because what is written to a process's memory goes   *)
(* to pages that are none of them; a new table is empty, though nobody     *)
(* clears it, because free pages hold nothing; and while a process is      *)
(* created, its directory is the one in use.                               *)
MemInv ==
  /\ MemType
  /\ \A k \in DOMAIN Everyone : OneUse(Everyone[k])
  /\ Disjoint
  /\ KernelsAllocated
  /\ \A k \in DOMAIN Everyone : Tidy(ram, Everyone[k].base, Mine(Everyone[k]))
  /\ \A page \in Pages : ~s_allocations[page] => \A s \in Slots : ram[page][s] = Zero
  /\ IsLoading => cr3 = loading.base
  /\ LoopBelow

(* Who is in Everyone.                                                     *)
LEMMA SequenceOfAll ==
  ASSUME NEW procs \in Seq(Process), NEW l \in Unfinished \cup {NotLoading},
         NEW all, all = IF l # NotLoading THEN Append(procs, l) ELSE procs
  PROVE  /\ Len(procs) \in Nat /\ DOMAIN procs = 1..Len(procs)
         /\ l = NotLoading => all = procs
         /\ l # NotLoading => /\ l \in Unfinished
                              /\ DOMAIN all = 1..(Len(procs) + 1)
                              /\ all[Len(procs) + 1] = l
         /\ \A k \in DOMAIN procs : /\ k \in DOMAIN all
                                    /\ all[k] = procs[k] /\ procs[k] \in Process
         /\ \A k \in DOMAIN all : k \notin DOMAIN procs =>
              l # NotLoading /\ k = Len(procs) + 1
<1>1. procs \in Seq(Process \cup {l})
  OBVIOUS
<1>2. l # NotLoading => l \in Unfinished
  OBVIOUS
<1> HIDE DEF Process, Unfinished, NotLoading
<1>3. CASE l # NotLoading
  <2>1. all = Append(procs, l)
    BY <1>3
  <2> QED
    BY <1>1, <1>2, <1>3, <2>1
<1>4. CASE l = NotLoading
  <2>1. all = procs
    BY <1>4
  <2> QED
    BY <1>1, <1>4, <2>1
<1> QED
  BY <1>3, <1>4

(* The complete processes come first, the one that is created is the last. *)
LEMMA EveryoneIs ==
  ASSUME OwnType
  PROVE  /\ Len(processes) \in Nat /\ DOMAIN processes = 1..Len(processes)
         /\ ~IsLoading => Everyone = processes
         /\ IsLoading => /\ loading \in Unfinished
                         /\ DOMAIN Everyone = 1..(Len(processes) + 1)
                         /\ Everyone[Len(processes) + 1] = loading
         /\ \A k \in DOMAIN processes : /\ k \in DOMAIN Everyone
                                        /\ Everyone[k] = processes[k]
                                        /\ processes[k] \in Process
         /\ \A k \in DOMAIN Everyone : k \notin DOMAIN processes =>
              IsLoading /\ k = Len(processes) + 1
BY SequenceOfAll DEF OwnType, Everyone, IsLoading

(* Whoever is in Everyone owns pages, its directory among them.            *)
LEMMA EveryoneType ==
  ASSUME OwnType, NEW k \in DOMAIN Everyone
  PROVE  /\ Everyone[k].base \in Pages /\ Everyone[k].owned \in Seq(Pages)
         /\ Owned(Everyone[k]) \subseteq Pages /\ Everyone[k].base \in Owned(Everyone[k])
<1>1. Everyone[k] \in Process \/ Everyone[k] \in Unfinished
  BY EveryoneIs
<1>2. Everyone[k].base \in Pages /\ Everyone[k].owned \in Seq(Pages)
  BY <1>1 DEF Process, Unfinished
<1> QED
  BY <1>2 DEF Owned

(* Taking a page that it does not own, a process owns one more.            *)
LEMMA TakesPage ==
  ASSUME NEW p, NEW q, p.base \in Pages, p.owned \in Seq(Pages),
         NEW page \in Pages, page \notin Owned(p),
         Cardinality(Owned(p)) = Len(p.owned) + 1,
         q.base = p.base, q.owned = Append(p.owned, page)
  PROVE  /\ Owned(q) = Owned(p) \cup {page}
         /\ Cardinality(Owned(q)) = Len(q.owned) + 1
         /\ q.owned \in Seq(Pages)
<1>1. Owned(q) = Owned(p) \cup {page}
  <2>1. DOMAIN p.owned = 1..Len(p.owned) /\ Len(p.owned) \in Nat
    OBVIOUS
  <2>2. /\ DOMAIN q.owned = 1..(Len(p.owned) + 1)
        /\ q.owned[Len(p.owned) + 1] = page
        /\ \A k \in DOMAIN p.owned : q.owned[k] = p.owned[k]
    OBVIOUS
  <2> QED
    BY <2>1, <2>2 DEF Owned
<1>2. IsFiniteSet(Owned(p))
  <2>1. 0 \in Int /\ PageCount - 1 \in Int
    BY MemoryAssumption
  <2>2. IsFiniteSet(Pages)
    BY <2>1, FS_Interval DEF Pages
  <2>3. Owned(p) \subseteq Pages
    BY DEF Owned
  <2> QED
    BY <2>2, <2>3, FS_Subset
<1>3. Cardinality(Owned(q)) = Cardinality(Owned(p)) + 1
  BY <1>1, <1>2, FS_AddElement
<1> QED
  BY <1>1, <1>3

(* A process that has only its directory.                                  *)
LEMMA OwnsDirectory ==
  ASSUME NEW p, p.owned = <<>>
  PROVE  Owned(p) = {p.base} /\ Cardinality(Owned(p)) = Len(p.owned) + 1
<1>1. Owned(p) = {p.base}
  BY DEF Owned
<1>2. Len(p.owned) = 0
  OBVIOUS
<1>3. Cardinality({p.base}) = 1
  BY FS_Singleton, Zenon
<1> QED
  BY <1>1, <1>2, <1>3

-----------------------------------------------------------------------------
(* Steps.                                                                  *)

ViewsSame == \A k \in DOMAIN processes :
               View(ram', processes[k]) = View(ram, processes[k])

(* Nothing changes but the directory in use, or why the kernel stopped.    *)
LEMMA SameMemory ==
  ASSUME MemInv, IsLoading => cr3' = cr3,
         UNCHANGED <<s_allocations, ram, processes, loading>>
  PROVE  MemInv' /\ ViewsSame
<1>1. Everyone' = Everyone /\ KernelPages' = KernelPages /\ IsLoading' = IsLoading
  BY DEF Everyone, IsLoading, KernelPages
<1>2. MemType'
  BY DEF MemInv, MemType, OwnType
<1>3. \A k \in DOMAIN Everyone' : OneUse(Everyone[k])'
  BY <1>1 DEF MemInv, OneUse
<1>4. Disjoint' /\ KernelsAllocated'
  BY <1>1 DEF MemInv, Disjoint, KernelsAllocated
<1>5. ViewsSame /\ LoopBelow'
  BY <1>1 DEF ViewsSame, MemInv, LoopBelow
<1> QED
  BY <1>1, <1>2, <1>3, <1>4, <1>5 DEF MemInv

(* What is written to nobody's pages is seen by nobody.                    *)
LEMMA ViewsStay ==
  ASSUME MemInv,
         \A k \in DOMAIN processes : \A page \in Owned(processes[k]) : ram'[page] = ram[page]
  PROVE  ViewsSame
<1> SUFFICES ASSUME NEW k \in DOMAIN processes
             PROVE  View(ram', processes[k]) = View(ram, processes[k])
  BY DEF ViewsSame
<1>1. k \in DOMAIN Everyone /\ Everyone[k] = processes[k]
  BY EveryoneIs DEF MemInv, MemType
<1>2. processes[k].base \in Pages /\ processes[k].base \in Owned(processes[k])
  BY <1>1, EveryoneType DEF MemInv, MemType
<1>3. Tidy(ram, processes[k].base, Mine(processes[k]))
  BY <1>1 DEF MemInv
<1>4. \A page \in Mine(processes[k]) \cup {processes[k].base} : ram'[page] = ram[page]
  BY <1>2 DEF Mine
<1> QED
  BY <1>2, <1>3, <1>4, ViewKept

(* One member of Everyone, who is not complete before, takes pages that    *)
(* were free and writes to its own pages, old and new.                     *)
Grows(n, old, new) ==
  /\ \A page \in new : ~s_allocations[page]
  /\ \A page \in Pages : s_allocations'[page] = (s_allocations[page] \/ page \in new)
  /\ \A k \in DOMAIN Everyone' : k # n =>
       /\ k \in DOMAIN Everyone /\ Everyone'[k].base = Everyone[k].base
       /\ Everyone'[k].owned = Everyone[k].owned
  /\ old = IF n \in DOMAIN Everyone THEN Owned(Everyone[n]) ELSE {}
  /\ n \in DOMAIN Everyone' =>
       /\ Cardinality(Owned(Everyone'[n])) = Len(Everyone'[n].owned) + 1
       /\ Owned(Everyone'[n]) \subseteq old \cup new
       /\ Tidy(ram', Everyone'[n].base, Mine(Everyone'[n]))
  /\ \A page \in Pages : page \notin old \cup new => ram'[page] = ram[page]

(* Then the invariant stays, and no complete process sees a difference.    *)
LEMMA OneGrows ==
  ASSUME MemInv, MemType', LoopBelow', ram'[KernelTable] = ram[KernelTable],
         IsLoading' => cr3' = loading'.base,
         NEW new \in SUBSET Pages, NEW old \in SUBSET Pages,
         NEW n, n \notin DOMAIN processes, Grows(n, old, new)
  PROVE  MemInv' /\ ViewsSame
<1> USE DEF Grows
<1>0. KernelPages' = KernelPages
  BY DEF KernelPages
<1>1. \A k \in DOMAIN Everyone : k # n =>
        \A page \in Owned(Everyone[k]) :
          page \in Pages /\ s_allocations[page] /\ page \notin old \cup new
  BY EveryoneType DEF MemInv, MemType, OneUse, Disjoint
<1>2. \A k \in DOMAIN Everyone' : k # n =>
        /\ k \in DOMAIN Everyone /\ Owned(Everyone'[k]) = Owned(Everyone[k])
        /\ Mine(Everyone'[k]) = Mine(Everyone[k])
  BY DEF Owned, Mine
<1>3. \A page \in old \cup new :
        page \in Pages /\ page \notin KernelPages /\ s_allocations'[page]
  BY DEF MemInv, OneUse, KernelsAllocated
<1>4. ASSUME NEW k \in DOMAIN Everyone' PROVE OneUse(Everyone[k])'
  <2>1. CASE k = n
    BY <1>0, <1>3, <2>1 DEF OneUse
  <2>2. CASE k # n
    BY <1>0, <1>1, <1>2, <2>2 DEF MemInv, OneUse
  <2> QED
    BY <2>1, <2>2
<1>5. Disjoint'
  <2> SUFFICES ASSUME NEW j \in DOMAIN Everyone', NEW k \in DOMAIN Everyone', j # k
               PROVE  Owned(Everyone'[j]) \cap Owned(Everyone'[k]) = {}
    BY DEF Disjoint
  <2>1. CASE j # n /\ k # n
    BY <1>2, <2>1 DEF MemInv, Disjoint
  <2>2. CASE j = n \/ k = n
    BY <1>1, <1>2, <2>2
  <2> QED
    BY <2>1, <2>2
<1>6. KernelsAllocated'
  BY <1>0 DEF MemInv, KernelsAllocated
<1>7. \A k \in DOMAIN Everyone : k # n =>
        \A page \in Mine(Everyone[k]) \cup {Everyone[k].base} : ram'[page] = ram[page]
  BY <1>1, EveryoneType DEF Mine, MemInv, MemType
<1>8. ASSUME NEW k \in DOMAIN Everyone'
      PROVE  Tidy(ram', Everyone'[k].base, Mine(Everyone'[k]))
  <2>1. CASE k = n
    BY <2>1
  <2>2. CASE k # n
    <3>1. Tidy(ram, Everyone[k].base, Mine(Everyone[k]))
      BY <1>2, <2>2 DEF MemInv
    <3>2. Tidy(ram', Everyone[k].base, Mine(Everyone[k]))
      BY <1>2, <1>7, <2>2, <3>1, TidyKept
    <3> QED
      BY <1>2, <2>2, <3>2
  <2> QED
    BY <2>1, <2>2
<1>9. ASSUME NEW page \in Pages, ~s_allocations'[page], NEW s \in Slots
      PROVE  ram'[page][s] = Zero
  <2>1. ~s_allocations[page] /\ page \notin old \cup new
    BY <1>3, <1>9
  <2> QED
    BY <2>1 DEF MemInv
<1>10. ViewsSame
  <2>1. \A k \in DOMAIN processes : k # n /\ k \in DOMAIN Everyone /\ Everyone[k] = processes[k]
    BY EveryoneIs DEF MemInv, MemType
  <2>2. \A k \in DOMAIN processes : \A page \in Owned(processes[k]) : ram'[page] = ram[page]
    BY <1>1, <2>1
  <2> QED
    BY <2>2, ViewsStay
<1> QED
  BY <1>4, <1>5, <1>6, <1>8, <1>9, <1>10 DEF MemInv

(* The owners stay who they are: the process that is created goes on, or   *)
(* becomes one of those that were.                                         *)
GoesOn ==
  \/ /\ processes' = processes /\ loading' \in Unfinished
     /\ loading'.base = loading.base /\ loading'.owned = loading.owned
     /\ loading'.file = loading.file
  \/ \E entry \in Nat : Created(entry)

LEMMA EveryoneGoesOn ==
  ASSUME OwnType, loading # NotLoading, UNCHANGED s_allocations, GoesOn
  PROVE  LET n == Len(processes) + 1
         IN /\ OwnType' /\ DOMAIN Everyone' = 1..n
            /\ Everyone'[n].base = loading.base /\ Everyone'[n].owned = loading.owned
            /\ Everyone'[n].file = loading.file
            /\ \A k \in DOMAIN processes : Everyone'[k] = processes[k]
            /\ IsLoading' => loading'.base = loading.base
<1> DEFINE n == Len(processes) + 1
<1>1. loading \in Unfinished /\ loading.file \in Files /\ Len(processes) \in Nat
  <2>1. loading \in Unfinished /\ Len(processes) \in Nat
    BY EveryoneIs DEF IsLoading
  <2> QED
    BY <2>1 DEF Unfinished
<1>2. CASE /\ processes' = processes /\ loading' \in Unfinished
           /\ loading'.base = loading.base /\ loading'.owned = loading.owned
           /\ loading'.file = loading.file
  <2>1. loading' # NotLoading
    BY <1>2 DEF Unfinished, NotLoading
  <2>2. OwnType'
    BY <1>2 DEF OwnType
  <2>3. /\ DOMAIN Everyone' = 1..n /\ Everyone'[n] = loading'
        /\ \A k \in DOMAIN processes : Everyone'[k] = processes[k]
    BY <1>2, <2>1, <2>2, SequenceOfAll DEF OwnType, Everyone, IsLoading
  <2> QED
    BY <1>2, <2>2, <2>3
<1>3. CASE \E entry \in Nat : Created(entry)
  <2>1. PICK entry \in Nat : Created(entry)
    BY <1>3
  <2> DEFINE done == [base |-> loading.base, owned |-> loading.owned,
                      file |-> loading.file, entry |-> entry]
  <2>2. processes' = Append(processes, done) /\ loading' = NotLoading
    BY <2>1 DEF Created
  <2>3. done \in Process
    BY <1>1 DEF Process, Unfinished
  <2>4. Everyone' = processes' /\ ~IsLoading'
    BY <2>2 DEF Everyone, IsLoading
  <2>5. processes \in Seq(Process)
    BY DEF OwnType
  <2>6. done.base = loading.base /\ done.owned = loading.owned /\ done.file = loading.file
    OBVIOUS
  <2> HIDE DEF done, Process
  <2>7. /\ processes' \in Seq(Process) /\ DOMAIN processes' = 1..n
        /\ processes'[n] = done
        /\ \A k \in DOMAIN processes : processes'[k] = processes[k]
    BY <2>2, <2>3, <2>5
  <2>8. OwnType'
    BY <2>2, <2>7 DEF OwnType
  <2> QED
    BY <2>4, <2>6, <2>7, <2>8
<1> QED
  BY <1>2, <1>3 DEF GoesOn

(* No memory is written but that process's own.                            *)
LEMMA OwnersStay ==
  ASSUME MemInv, IsLoading,
         UNCHANGED <<s_allocations, cr3>>, ram'[KernelTable] = ram[KernelTable], LoopBelow',
         GoesOn,
         IsMemory(ram'),
         Tidy(ram', loading.base, Mine(loading)),
         \A page \in Pages : page \notin Owned(loading) => ram'[page] = ram[page]
  PROVE  MemInv' /\ ViewsSame
<1> DEFINE n == Len(processes) + 1
<1>1. /\ loading \in Unfinished /\ n \notin DOMAIN processes /\ n \in DOMAIN Everyone
      /\ Everyone[n] = loading /\ DOMAIN Everyone = 1..n
      /\ \A k \in DOMAIN processes : Everyone[k] = processes[k]
  BY EveryoneIs DEF MemInv, MemType
<1>2. /\ Owned(loading) \in SUBSET Pages
      /\ Cardinality(Owned(loading)) = Len(loading.owned) + 1
  BY <1>1, EveryoneType DEF MemInv, MemType, OneUse
<1>3. /\ MemType' /\ DOMAIN Everyone' = 1..n
      /\ Everyone'[n].base = loading.base /\ Everyone'[n].owned = loading.owned
      /\ \A k \in DOMAIN processes : Everyone'[k] = processes[k]
      /\ IsLoading' => cr3' = loading'.base
  <2>1. OwnType /\ loading # NotLoading /\ cr3 = loading.base
    BY DEF MemInv, MemType, IsLoading
  <2> QED
    BY <2>1, EveryoneGoesOn DEF MemType
<1>4. \A k \in DOMAIN Everyone' : k # n => k \in DOMAIN processes
  BY <1>3, EveryoneIs DEF MemInv, MemType
<1>5. Owned(Everyone'[n]) = Owned(loading) /\ Mine(Everyone'[n]) = Mine(loading)
  BY <1>3 DEF Owned, Mine
<1> DEFINE new == {}
           old == Owned(loading)
<1>7. /\ new \in SUBSET Pages /\ \A page \in new : ~s_allocations[page]
      /\ \A page \in Pages : s_allocations'[page] = (s_allocations[page] \/ page \in new)
  BY DEF MemInv, MemType, OwnType
<1>8. \A k \in DOMAIN Everyone' : k # n =>
        /\ k \in DOMAIN Everyone /\ Everyone'[k].base = Everyone[k].base
        /\ Everyone'[k].owned = Everyone[k].owned
  BY <1>1, <1>3, <1>4, EveryoneIs DEF MemInv, MemType
<1>9. old = IF n \in DOMAIN Everyone THEN Owned(Everyone[n]) ELSE {}
  BY <1>1
<1>10. /\ Cardinality(Owned(Everyone'[n])) = Len(Everyone'[n].owned) + 1
       /\ Owned(Everyone'[n]) \subseteq old \cup new
       /\ Tidy(ram', Everyone'[n].base, Mine(Everyone'[n]))
  BY <1>2, <1>3, <1>5
<1>11. \A page \in Pages : page \notin old \cup new => ram'[page] = ram[page]
  OBVIOUS
<1>12. Grows(n, old, new)
  BY <1>7, <1>8, <1>9, <1>10, <1>11, Zenon DEF Grows
<1> HIDE DEF n, old, new
<1> QED
  BY <1>1, <1>2, <1>3, <1>7, <1>12, OneGrows DEF old

(* Nobody owns anything at first.                                          *)
LEMMA MemInit == Init => MemInv
<1> SUFFICES ASSUME Init
             PROVE  MemInv
  OBVIOUS
<1>1. MemType
  BY DEF Init, MemType, OwnType, IsMemory, NotLoading
<1>2. Everyone = <<>> /\ ~IsLoading
  BY DEF Init, Everyone, IsLoading
<1>3. KernelPages = {}
  <2>1. \A s \in Slots : ram[KernelTable][s] = LinearEntry(s)
    BY KernelTableApart DEF Init
  <2>2. \A s \in Slots : Present(LinearEntry(s)) =>
          LinearEntry(s)[1] \in {Screen, KernelMemory} \/ (s = HeapEnd /\ LinearEntry(s)[1] = 0)
    <3>1. \A page, w : Entry(page, w)[1] = page
      BY DEF Entry
    <3>2. ~Present(Zero)
      BY EntryFacts
    <3> QED
      BY <3>1, <3>2, Zenon DEF LinearEntry
  <2>3. Screen \notin Pages /\ KernelMemory \notin Pages
    BY MemoryAssumption DEF Screen, KernelMemory, Pages
  <2> QED
    BY <2>1, <2>2, <2>3 DEF KernelPages
<1>4. Disjoint /\ KernelsAllocated
  BY <1>2, <1>3 DEF Disjoint, KernelsAllocated
<1>5. \A page \in Pages, s \in Slots : ram[page][s] = Zero
  BY KernelTableApart DEF Init
<1> QED
  BY <1>1, <1>2, <1>4, <1>5 DEF MemInv, LoopBelow

(* A step that stops the kernel changes no memory.                         *)
LEMMA StopStep ==
  ASSUME MemInv, NEW why, Stop(why)
  PROVE  MemInv' /\ ViewsSame
BY SameMemory DEF Stop

(* A new process owns the directory that it was given, and nothing else.   *)
LEMMA NewProcessStep ==
  ASSUME MemInv, NEW file \in Files, NewProcess(file)
  PROVE  MemInv' /\ ViewsSame
<1>1. CASE Free(s_allocations) = {}
  BY <1>1, StopStep DEF NewProcess
<1>2. CASE Free(s_allocations) # {}
  <2> DEFINE base == FirstFree(s_allocations)
             begun == [header |-> 1, left |-> -1, file |-> file, base |-> base,
                       owned |-> <<>>, vaddr |-> 0, source |-> 0]
             n == Len(processes) + 1
             new == {base}
             old == {}
  <2>1. /\ s_allocations' = allocate(s_allocations)
        /\ ram' = StorePage(ram, base, KernelDirectory)
        /\ cr3' = base /\ loading' = begun /\ ~IsLoading
        /\ UNCHANGED processes
    BY <1>2 DEF NewProcess, IsLoading, StorePage
  <2>2. /\ base \in Pages /\ ~s_allocations[base]
        /\ allocate(s_allocations) \in [Pages -> BOOLEAN]
        /\ \A p \in Pages :
             allocate(s_allocations)[p] = (s_allocations[p] \/ p = base)
    BY <1>2, Allocated DEF MemInv, MemType, OwnType
  <2> HIDE DEF base
  <2>3. IsPage(KernelDirectory)
    BY DEF KernelDirectory, IsPage
  <2>4. /\ IsMemory(ram') /\ ram'[base] = KernelDirectory
        /\ \A q \in Frames : q # base => ram'[q] = ram[q]
    <3> HIDE DEF KernelDirectory
    <3> QED
      BY <2>1, <2>2, <2>3, PageWritten, KernelTableApart DEF MemInv, MemType, OwnType
  <2>5. begun \in Unfinished /\ begun # NotLoading
    BY <2>2 DEF Unfinished, NotLoading
  <2>6. begun.base = base /\ begun.owned = <<>> /\ ~(begun.left > 0)
    OBVIOUS
  <2> HIDE DEF begun
  <2>7. MemType'
    BY <2>1, <2>2, <2>4, <2>5 DEF MemInv, MemType, OwnType
  <2>8. /\ DOMAIN Everyone' = 1..n /\ Everyone'[n] = begun
        /\ \A k \in DOMAIN processes : Everyone'[k] = processes[k]
    BY <2>1, <2>5, SequenceOfAll DEF MemInv, MemType, OwnType, Everyone, IsLoading
  <2>9. /\ Owned(begun) = {base} /\ Mine(begun) = {}
        /\ Cardinality(Owned(begun)) = Len(begun.owned) + 1
    BY <2>6, OwnsDirectory DEF Mine
  <2>10. Tidy(ram', base, {})
    BY <2>4, MemoryAssumption DEF Tidy, KernelDirectory, UserDirs, Slots
  <2>11. /\ n \notin DOMAIN processes /\ n \notin DOMAIN Everyone
         /\ DOMAIN Everyone = DOMAIN processes /\ Everyone = processes
         /\ DOMAIN processes = 1..Len(processes) /\ Len(processes) \in Nat
    <3>1. /\ Everyone = processes /\ DOMAIN processes = 1..Len(processes)
          /\ Len(processes) \in Nat
      BY <2>1, EveryoneIs DEF MemInv, MemType
    <3> QED
      BY <3>1
  <2>12. \A k \in DOMAIN Everyone' : k # n =>
           /\ k \in DOMAIN Everyone /\ Everyone'[k].base = Everyone[k].base
           /\ Everyone'[k].owned = Everyone[k].owned
    BY <2>8, <2>11
  <2>13. /\ new \in SUBSET Pages /\ old \in SUBSET Pages
         /\ \A page \in new : ~s_allocations[page]
         /\ \A page \in Pages : s_allocations'[page] = (s_allocations[page] \/ page \in new)
         /\ \A page \in Pages : page \notin old \cup new => ram'[page] = ram[page]
    BY <2>1, <2>2, <2>4, KernelTableApart
  <2>14. old = IF n \in DOMAIN Everyone THEN Owned(Everyone[n]) ELSE {}
    BY <2>11
  <2>15. /\ Cardinality(Owned(Everyone'[n])) = Len(Everyone'[n].owned) + 1
         /\ Owned(Everyone'[n]) \subseteq old \cup new
         /\ Tidy(ram', Everyone'[n].base, Mine(Everyone'[n]))
    BY <2>6, <2>8, <2>9, <2>10
  <2>16. Grows(n, old, new)
    BY <2>12, <2>13, <2>14, <2>15, Zenon DEF Grows
  <2>17. ram'[KernelTable] = ram[KernelTable] /\ cr3' = loading'.base /\ LoopBelow'
    BY <2>1, <2>2, <2>4, <2>6, KernelTableApart DEF LoopBelow
  <2> HIDE DEF n, old, new
  <2> QED
    BY <2>7, <2>11, <2>13, <2>16, <2>17, OneGrows
<1> QED
  BY <1>1, <1>2

(* The process that is created, as the invariant has it.                   *)
LEMMA LoadingIs ==
  ASSUME MemInv, loading # NotLoading
  PROVE  /\ IsLoading /\ loading \in Unfinished /\ loading.file \in Files
         /\ loading.base \in Pages /\ loading.owned \in Seq(Pages)
         /\ cr3 = loading.base /\ IsMemory(ram) /\ s_allocations \in [Pages -> BOOLEAN]
         /\ Owned(loading) \subseteq Pages /\ loading.base \in Owned(loading)
         /\ Tidy(ram, loading.base, Mine(loading)) /\ OneUse(loading)
<1>1. /\ IsLoading /\ loading \in Unfinished
      /\ Len(processes) + 1 \in DOMAIN Everyone
      /\ Everyone[Len(processes) + 1] = loading
  BY EveryoneIs DEF MemInv, MemType, IsLoading
<1>2. loading.file \in Files
  BY <1>1 DEF Unfinished
<1> QED
  BY <1>1, <1>2, EveryoneType DEF MemInv, MemType, OwnType

(* It lies below the kernel if all programs do.                            *)
LEMMA LoadingBelow ==
  ASSUME OwnType, AllBelowKernel, loading # NotLoading
  PROVE  BelowKernel(loading.file)
<1>1. Len(processes) + 1 \in DOMAIN Everyone /\ Everyone[Len(processes) + 1] = loading
  BY EveryoneIs DEF IsLoading
<1> QED
  BY <1>1, Zenon DEF AllBelowKernel

(* Steps of the loader that write no memory.                               *)
LEMMA ControlStep ==
  ASSUME MemInv, loading # NotLoading, LoopBelow',
         UNCHANGED <<s_allocations, ram, cr3>>, GoesOn
  PROVE  MemInv' /\ ViewsSame
BY LoadingIs, OwnersStay

(* Going on to the next header changes no page that is owned.              *)
LEMMA NextHeaderIs ==
  ASSUME NEW l \in Unfinished
  PROVE  /\ NextHeader(l) \in Unfinished /\ ~(NextHeader(l).left > 0)
         /\ NextHeader(l).base = l.base /\ NextHeader(l).owned = l.owned
         /\ NextHeader(l).file = l.file
<1>1. l.header + 1 \in Nat \ {0} /\ -1 \in Int
  BY DEF Unfinished
<1>2. NextHeader(l) = [l EXCEPT !.header = l.header + 1, !.left = -1]
  BY DEF NextHeader, Unfinished
<1>3. NextHeader(l).left = -1
  BY <1>2 DEF Unfinished
<1>4. ~(-1 > 0)
  OBVIOUS
<1>5. ~(NextHeader(l).left > 0)
  BY <1>3, <1>4, Zenon
<1> QED
  BY <1>1, <1>2, <1>5 DEF Unfinished

(* What is counted for a segment is a number of pages.                     *)
LEMMA PagesCounted ==
  ASSUME NEW g \in SegmentHeader
  PROVE  /\ g.vaddr \in Nat /\ g.offset \in Nat /\ g.filesz \in Nat /\ g.memsz \in Nat
         /\ DivideCeil(g.memsz, PageSize) \in Nat /\ PageNumber(g.vaddr) \in Nat
<1>1. PageSize \in Nat \ {0} /\ AddressSpace \in Nat
  BY MemoryAssumption DEF AddressSpace
<1>2. g.vaddr \in Nat /\ g.offset \in Nat /\ g.filesz \in Nat /\ g.memsz \in Nat
  BY <1>1 DEF SegmentHeader
<1>3. DivideCeil(g.memsz, PageSize) \in Nat /\ PageNumber(g.vaddr) \in Nat
  BY <1>1, <1>2 DEF DivideCeil, PageNumber
<1> QED
  BY <1>2, <1>3

(* The segment at hand is one of the file's.                               *)
LEMMA HeaderIs ==
  ASSUME OwnType, loading # NotLoading, MoreHeaders
  PROVE  /\ loading.header \in DOMAIN loading.file.segments
         /\ Header(loading) \in SegmentHeader
<1>1. loading.header \in DOMAIN loading.file.segments
  BY DEF MoreHeaders
<1>2. loading.file \in Files
  BY EveryoneIs DEF Unfinished, IsLoading
<1>3. loading.file.segments \in Seq(SegmentHeader)
  BY <1>2, FilesAssumption
<1> QED
  BY <1>1, <1>3 DEF Header

(* The next program header: what it says is where the pages are to go.     *)
HeaderTaken ==
  LET segment == Header(loading)
  IN /\ loading.header \in DOMAIN loading.file.segments /\ segment \in SegmentHeader
     /\ segment.type = "load" /\ processes' = processes
     /\ loading' = [loading EXCEPT !.vaddr = segment.vaddr, !.source = segment.offset,
                                   !.left = DivideCeil(segment.memsz, PageSize)]
     /\ loading' \in Unfinished /\ loading'.base = loading.base
     /\ loading'.owned = loading.owned /\ loading'.file = loading.file
     /\ loading'.vaddr = segment.vaddr
     /\ loading'.left = DivideCeil(segment.memsz, PageSize)

LEMMA ProgramHeaderIs ==
  ASSUME OwnType, ProgramHeader
  PROVE  /\ loading # NotLoading /\ UNCHANGED <<s_allocations, ram, cr3>>
         /\ \/ /\ Header(loading).type = "ignored"
               /\ loading' = NextHeader(loading) /\ processes' = processes
            \/ Created(0)
            \/ UNCHANGED <<processes, loading>>
            \/ HeaderTaken
<1> DEFINE segment == Header(loading)
           l == [loading EXCEPT !.vaddr = segment.vaddr, !.source = segment.offset,
                                !.left = DivideCeil(segment.memsz, PageSize)]
<1>1. loading # NotLoading /\ UNCHANGED <<s_allocations, ram, cr3>> /\ MoreHeaders
  BY DEF ProgramHeader, LoadsSegments
<1>2. \/ segment.type = "ignored" /\ loading' = NextHeader(loading) /\ processes' = processes
      \/ Created(0)
      \/ UNCHANGED <<processes, loading>>
      \/ segment.type = "load" /\ processes' = processes /\ loading' = l
  BY Zenon DEF ProgramHeader
<1>3. segment \in SegmentHeader /\ loading.header \in DOMAIN loading.file.segments
  BY <1>1, HeaderIs
<1>4. /\ l \in Unfinished /\ l.base = loading.base /\ l.owned = loading.owned
      /\ l.file = loading.file
      /\ l.vaddr = segment.vaddr /\ l.left = DivideCeil(segment.memsz, PageSize)
  <2>1. DivideCeil(segment.memsz, PageSize) \in Int
    BY <1>3, PagesCounted
  <2>2. segment.vaddr \in Nat /\ segment.offset \in Nat
    BY <1>3, PagesCounted
  <2>3. loading \in Unfinished
    BY <1>1, EveryoneIs DEF IsLoading
  <2> HIDE DEF segment
  <2> QED
    BY <2>1, <2>2, <2>3 DEF Unfinished
<1>5. segment.type = "load" /\ processes' = processes /\ loading' = l => HeaderTaken
  <2>1. SUFFICES ASSUME segment.type = "load", processes' = processes, loading' = l
                 PROVE  HeaderTaken
    OBVIOUS
  <2> HIDE DEF l
  <2>2. /\ loading' \in Unfinished /\ loading'.base = loading.base
        /\ loading'.owned = loading.owned /\ loading'.file = loading.file
        /\ loading'.vaddr = segment.vaddr
        /\ loading'.left = DivideCeil(segment.memsz, PageSize)
    BY <1>4, <2>1, Zenon
  <2>3. loading' = [loading EXCEPT !.vaddr = Header(loading).vaddr,
                                   !.source = Header(loading).offset,
                                   !.left = DivideCeil(Header(loading).memsz, PageSize)]
    BY <2>1, Zenon DEF l
  <2> QED
    BY <1>3, <2>1, <2>2, <2>3, Zenon DEF HeaderTaken
<1> QED
  BY <1>1, <1>2, <1>5, Zenon

(* The pages that are to be loaded lie below the kernel.                   *)
LEMMA ProgramHeaderStep ==
  ASSUME MemInv, AllBelowKernel, ProgramHeader
  PROVE  MemInv' /\ ViewsSame
<1> DEFINE segment == Header(loading)
<1>1. loading # NotLoading /\ UNCHANGED <<s_allocations, ram, cr3>>
  BY ProgramHeaderIs DEF MemInv, MemType
<1>2. \/ processes' = processes /\ loading' = NextHeader(loading)
      \/ Created(0)
      \/ UNCHANGED <<processes, loading>>
      \/ HeaderTaken
  BY ProgramHeaderIs DEF MemInv, MemType
<1>5. CASE HeaderTaken
  <2> DEFINE first == PageNumber(segment.vaddr)
             count == DivideCeil(segment.memsz, PageSize)
             bound == KernelDir * PageSize
  <2>1. first \in Nat /\ count \in Nat /\ bound \in Nat
    BY <1>5, PagesCounted, MemoryAssumption DEF HeaderTaken
  <2>2. PagesOf(segment) = first..(first + count - 1)
    BY DEF PagesOf
  <2>3. PagesOf(segment) \subseteq 0..(bound - 1)
    <3>1. BelowKernel(loading.file)
      BY <1>1, LoadingBelow DEF MemInv, MemType
    <3>2. loading.header \in Loads(loading.file)
      BY <1>5 DEF Loads, Header, HeaderTaken
    <3> QED
      BY <3>1, <3>2 DEF BelowKernel, Header
  <2>4. count > 0 => first + count <= bound
    <3> HIDE DEF first, count, bound
    <3>1. count > 0 => first + count - 1 \in 0..(bound - 1)
      BY <2>1, <2>2, <2>3
    <3> QED
      BY <2>1, <3>1
  <2>5. LoopBelow'
    BY <1>5, <2>4 DEF LoopBelow, HeaderTaken
  <2>6. GoesOn
    BY <1>5 DEF GoesOn, HeaderTaken
  <2> QED
    BY <1>1, <2>5, <2>6, ControlStep
<1>6. CASE \/ processes' = processes /\ loading' = NextHeader(loading)
           \/ Created(0)
           \/ UNCHANGED <<processes, loading>>
  <2>1. LoopBelow'
    BY <1>1, <1>6, LoadingIs, NextHeaderIs DEF LoopBelow, IsLoading, Created, MemInv
  <2>2. GoesOn
    BY <1>1, <1>6, LoadingIs, NextHeaderIs DEF GoesOn
  <2> QED
    BY <1>1, <2>1, <2>2, ControlStep
<1> QED
  BY <1>2, <1>5, <1>6

(* What .bss covers below the kernel the program may write: it lies on its *)
(* data pages.                                                             *)
LEMMA ZeroedIsMine ==
  ASSUME NEW m, NEW base \in Pages, NEW mine, Tidy(m, base, mine),
         NEW v \in UserAddresses, Writable(m, base, v)
  PROVE  LET page == Walk(m, base, v)[1]
         IN /\ page \in mine
            /\ \A d \in UserDirs : m[base][d] # Zero => page # m[base][d][1]
            /\ v \in Nat /\ DirIndex(v) \in UserDirs /\ TableIndex(v) \in Slots
            /\ m[base][DirIndex(v)] # Zero /\ Walk(m, base, v) # Zero
            /\ Walk(m, base, v) = m[m[base][DirIndex(v)][1]][TableIndex(v)]
<1>1. v \in Nat /\ DirIndex(v) \in UserDirs /\ TableIndex(v) \in Slots
  BY UserIndices
<1>2. Present(Walk(m, base, v))
  BY Zenon DEF Writable
<1>3. base # Boot
  BY MemoryAssumption DEF Pages, Boot
<1>4. Present(m[base][DirIndex(v)])
  BY <1>2, <1>3, EntryFacts DEF Walk
<1>5. m[base][DirIndex(v)] # Zero
  BY <1>4, EntryFacts
<1>6. Walk(m, base, v) = m[m[base][DirIndex(v)][1]][TableIndex(v)]
  BY <1>3, <1>4 DEF Walk
<1>7. Walk(m, base, v) # Zero
  BY <1>2, EntryFacts
<1> QED
  BY <1>1, <1>5, <1>6, <1>7 DEF Tidy

(* handle_section_headers stops the kernel, or does this.                  *)
LEMMA SectionHeadersIs ==
  ASSUME SectionHeaders
  PROVE  \/ \E why : Stop(why)
         \/ /\ \A v \in Bss(loading.file) : Writable(ram, cr3, v)
            /\ ram' = Zeroed(ram, cr3, Bss(loading.file)) /\ Created(loading.file.entry)
            /\ UNCHANGED <<s_allocations, cr3, panic>>
BY Zenon DEF SectionHeaders

(* Clearing .bss writes to the pages that the program may write, and these *)
(* are its data and none of its tables.                                    *)
LEMMA SectionHeadersStep ==
  ASSUME MemInv, AllBelowKernel, SectionHeaders
  PROVE  MemInv' /\ ViewsSame
<1>1. loading # NotLoading
  BY DEF SectionHeaders, LoadsSegments
<1> DEFINE base == loading.base
           mine == Mine(loading)
           bss == Bss(loading.file)
<1>2. CASE \E why : Stop(why)
  BY <1>2, StopStep
<1>3. CASE /\ \A v \in bss : Writable(ram, cr3, v)
           /\ ram' = Zeroed(ram, cr3, bss) /\ Created(loading.file.entry)
           /\ UNCHANGED <<s_allocations, cr3, panic>>
  <2>1. /\ \A v \in bss : Writable(ram, cr3, v)
        /\ ram' = Zeroed(ram, cr3, bss) /\ Created(loading.file.entry)
        /\ UNCHANGED <<s_allocations, cr3>>
    BY <1>3
  <2>2. \A v \in bss : /\ Walk(ram, base, v)[1] \in mine
                       /\ \A d \in UserDirs : ram[base][d] # Zero =>
                            Walk(ram, base, v)[1] # ram[base][d][1]
    <3> SUFFICES ASSUME NEW v \in bss
                 PROVE  /\ Walk(ram, base, v)[1] \in mine
                        /\ \A d \in UserDirs : ram[base][d] # Zero =>
                             Walk(ram, base, v)[1] # ram[base][d][1]
      OBVIOUS
    <3>1. base \in Pages /\ Tidy(ram, base, mine)
      BY <1>1, LoadingIs
    <3>2. Writable(ram, base, v)
      BY <1>1, <2>1, LoadingIs
    <3>3. v \in UserAddresses
      BY <1>1, LoadingBelow DEF MemInv, MemType, BelowKernel
    <3> QED
      BY <3>1, <3>2, <3>3, ZeroedIsMine
  <2> DEFINE Hit(p) == \E v \in bss : Walk(ram, base, v)[1] = p
  <2>3. ram' = [p \in Frames |-> [s \in Slots |->
                  IF \E v \in bss : v % PageSize = s /\ Walk(ram, base, v)[1] = p
                  THEN Zero ELSE ram[p][s]]]
    BY <1>1, <2>1, LoadingIs DEF Zeroed
  <2>4. \A p \in Frames : ram'[p] = [s \in Slots |-> ram'[p][s]]
    BY <2>3
  <2>5. IsMemory(ram')
    BY <2>3, <2>4 DEF IsMemory
  <2>6. ASSUME NEW p \in Frames, \A v \in bss : Walk(ram, base, v)[1] # p
        PROVE  ram'[p] = ram[p]
    <3>1. ram'[p] = [s \in Slots |-> ram[p][s]]
      BY <2>3, <2>6
    <3>2. ram[p] = [s \in Slots |-> ram[p][s]]
      BY <1>1, LoadingIs DEF IsMemory
    <3> QED
      BY <3>1, <3>2
  <2>7. \A p \in Frames : p \notin mine => ram'[p] = ram[p]
    BY <2>2, <2>6
  <2>8. ram'[base] = ram[base]
    BY <1>1, <2>7, LoadingIs, KernelTableApart DEF Mine
  <2>9. \A d \in UserDirs : ram[base][d] # Zero =>
          ram[base][d][1] \in mine /\ ram'[ram[base][d][1]] = ram[ram[base][d][1]]
    <3> SUFFICES ASSUME NEW d \in UserDirs, ram[base][d] # Zero
                 PROVE  /\ ram[base][d][1] \in mine
                        /\ ram'[ram[base][d][1]] = ram[ram[base][d][1]]
      OBVIOUS
    <3>1. Tidy(ram, base, mine) /\ mine \subseteq Pages
      BY <1>1, LoadingIs DEF Mine
    <3>2. ram[base][d][1] \in mine /\ ram[base][d][1] \in Frames
      BY <3>1, KernelTableApart DEF Tidy
    <3>3. \A v \in bss : Walk(ram, base, v)[1] # ram[base][d][1]
      BY <2>2
    <3> QED
      BY <2>6, <3>2, <3>3
  <2>10. Tidy(ram', base, mine)
    <3>1. Tidy(ram, base, mine)
      BY <1>1, LoadingIs
    <3>2. \A d \in UserDirs, s \in Slots : ram[base][d] # Zero =>
            ram'[ram'[base][d][1]][s] = ram[ram[base][d][1]][s]
      BY <2>8, <2>9
    <3> HIDE DEF base, mine
    <3> QED
      BY <2>8, <3>1, <3>2 DEF Tidy
  <2>11. loading.file.entry \in Nat
    <3>1. AddressSpace \in Nat
      BY MemoryAssumption DEF AddressSpace
    <3> QED
      BY <1>1, <3>1, LoadingIs, FilesAssumption
  <2>12. /\ \A p \in Pages : p \notin Owned(loading) => ram'[p] = ram[p]
         /\ ram'[KernelTable] = ram[KernelTable]
    BY <1>1, <2>7, LoadingIs, KernelTableApart DEF Mine
  <2>13. LoopBelow'
    BY <2>1 DEF LoopBelow, Created, IsLoading
  <2> QED
    BY <1>1, <2>1, <2>5, <2>10, <2>11, <2>12, <2>13, LoadingIs, OwnersStay DEF GoesOn
<1> QED
  BY <1>2, <1>3, SectionHeadersIs, Zenon

(* One page of a segment: its table, which may be new, leads to a page     *)
(* that was free, and the page holds what the file has for it.             *)
PageAt == loading.vaddr - (loading.vaddr % PageSize)

PageLoaded(table, page) ==
  LET base == loading.base
      d == DirIndex(PageAt)
      t == TableIndex(PageAt)
      there == Present(ram[base][d])
      new == IF there THEN {page} ELSE {table, page}
  IN /\ loading.vaddr \in Nat /\ PageAt \in Nat
     /\ d \in UserDirs /\ d < KernelDir /\ t \in Slots
     /\ \A p \in new : ~s_allocations[p]
     /\ there => table = ram[base][d][1]
     /\ loading' = [Advance(loading) EXCEPT !.owned =
                      IF there THEN Append(loading.owned, page)
                      ELSE Append(Append(loading.owned, table), page)]
     /\ s_allocations' \in [Pages -> BOOLEAN]
     /\ \A p \in Pages : s_allocations'[p] = (s_allocations[p] \/ p \in new)
     /\ IsMemory(ram') /\ MappedAt(ram, ram', base, d, t, table, page)
     /\ ram'[page] = PageImage(loading.file, loading.vaddr, loading.source)
     /\ ram'[table][t] = IF Header(loading).write THEN ReadWrite(page) ELSE ReadOnly(page)
     /\ UNCHANGED <<cr3, processes>>

(* A page whose number is below the kernel's lies below the kernel.        *)
LEMMA NumberBelow ==
  ASSUME NEW v \in Nat, PageNumber(v) < KernelDir * PageSize
  PROVE  v \in UserAddresses /\ v - (v % PageSize) \in UserAddresses
<1> DEFINE q == v \div PageSize
           r == v % PageSize
           k == KernelDir * PageSize
<1>1. PageSize \in Nat \ {0} /\ KernelDir \in Nat /\ k \in Nat
  BY MemoryAssumption
<1>2. q \in Nat /\ r \in 0..(PageSize - 1) /\ v = PageSize * q + r
  BY <1>1
<1>3. KernelDir * PageSize * PageSize = PageSize * k /\ q < k
  BY <1>1 DEF PageNumber
<1> HIDE DEF q, r, k
<1>4. PICK j \in Nat : k = q + 1 + j
  <2>1. k - (q + 1) \in Nat /\ k = q + 1 + (k - (q + 1))
    BY <1>1, <1>2, <1>3
  <2> QED
    BY <2>1
<1>5. PageSize * k = PageSize * q + PageSize + PageSize * j /\ PageSize * j \in Nat
  BY <1>1, <1>2, <1>4
<1>6. v < PageSize * k /\ v - r \in Nat /\ v - r < PageSize * k /\ PageSize * k \in Nat
  <2>1. PageSize * q \in Nat /\ PageSize * k \in Nat
    BY <1>1, <1>2
  <2> QED
    BY <1>1, <1>2, <1>5, <2>1
<1> QED
  BY <1>3, <1>6 DEF UserAddresses, r

(* An iteration of the loop stops the kernel, or does this.                *)
LEMMA LoadPageIs ==
  ASSUME MemInv, LoadPage
  PROVE  \/ \E why : Stop(why)
         \/ \E table, page \in Pages : PageLoaded(table, page)
<1>1. loading # NotLoading
  BY DEF LoadPage, LoadsSegments
<1> DEFINE base == loading.base
           at == PageAt
           d == DirIndex(at)
           t == TableIndex(at)
           before == [alloc |-> s_allocations, ram |-> ram, owned |-> loading.owned]
           mapped == map_user_memory(before, base, at)
           target == Walk(mapped.ram, cr3, at)[1]
           image == PageImage(loading.file, loading.vaddr, loading.source)
           copied == StorePage(mapped.ram, target, image)
<1>2. \/ \E why : Stop(why)
      \/ /\ CanMap(before, base, at) /\ Writable(mapped.ram, cr3, at)
         /\ s_allocations' = mapped.alloc
         /\ ram' = IF Header(loading).write THEN copied
                   ELSE set_user_mem_no_write(copied, base, at)
         /\ loading' = [Advance(loading) EXCEPT !.owned = mapped.owned]
         /\ UNCHANGED <<cr3, processes>>
  BY Zenon DEF LoadPage, StorePage, PageAt
<1>3. CASE /\ CanMap(before, base, at) /\ Writable(mapped.ram, cr3, at)
           /\ s_allocations' = mapped.alloc
           /\ ram' = IF Header(loading).write THEN copied
                     ELSE set_user_mem_no_write(copied, base, at)
           /\ loading' = [Advance(loading) EXCEPT !.owned = mapped.owned]
           /\ UNCHANGED <<cr3, processes>>
  <2>1. /\ s_allocations' = mapped.alloc
        /\ ram' = IF Header(loading).write THEN copied
                  ELSE set_user_mem_no_write(copied, base, at)
        /\ loading' = [Advance(loading) EXCEPT !.owned = mapped.owned]
        /\ UNCHANGED <<cr3, processes>>
    BY <1>3
  <2>2. /\ loading.vaddr \in Nat /\ at \in Nat /\ d \in UserDirs /\ t \in Slots
        /\ d \in Slots /\ cr3 = base /\ base # Boot /\ d < KernelDir
    <3>1. loading.vaddr \in Nat /\ loading.left \in Int /\ cr3 = base /\ IsLoading
      BY <1>1, LoadingIs DEF Unfinished
    <3>2. PageNumber(loading.vaddr) < KernelDir * PageSize
      <4> DEFINE first == PageNumber(loading.vaddr)
                 bound == KernelDir * PageSize
      <4>1. first \in Nat /\ bound \in Nat
        BY <3>1, MemoryAssumption DEF PageNumber
      <4>2. loading.left > 0 /\ first + loading.left <= bound
        BY <3>1 DEF MemInv, LoopBelow, LoadPage
      <4> HIDE DEF first, bound
      <4>3. first < bound
        BY <3>1, <4>1, <4>2
      <4> QED
        BY <4>3 DEF first, bound
    <3>3. at \in UserAddresses
      BY <3>1, <3>2, NumberBelow DEF PageAt
    <3>4. base # Boot
      BY <1>1, LoadingIs, MemoryAssumption DEF Pages, Boot
    <3> HIDE DEF at
    <3>5. /\ at \in Nat /\ d \in 0..(KernelDir - 1) /\ d \in UserDirs /\ t \in Slots
      BY <3>3, UserIndices
    <3> QED
      BY <3>1, <3>4, <3>5, MemoryAssumption DEF UserDirs
  <2> HIDE DEF at, mapped
  <2>0. PICK table, page \in Pages : Maps(before, mapped, base, d, t, table, page)
    <3>1. /\ base \in Pages /\ s_allocations[base] /\ loading.owned \in Seq(Pages)
          /\ s_allocations \in [Pages -> BOOLEAN] /\ IsMemory(ram)
      BY <1>1, LoadingIs DEF OneUse
    <3>2. Present(ram[base][d]) => /\ ram[base][d][1] \in Pages \ {base}
                                   /\ s_allocations[ram[base][d][1]]
      BY <1>1, <2>2, LoadingIs, EntryFacts DEF Tidy, OneUse, Mine
    <3>3. /\ before = [alloc |-> s_allocations, ram |-> ram, owned |-> loading.owned]
          /\ mapped = map_user_memory(before, base, at) /\ CanMap(before, base, at)
      BY <1>3 DEF mapped
    <3> HIDE DEF before, base
    <3> QED
      BY <2>2, <3>1, <3>2, <3>3, MapUserMemory
  <2> DEFINE new == IF Present(ram[base][d]) THEN {page} ELSE {table, page}
  <2>3. /\ \A p \in new : ~s_allocations[p]
        /\ Present(ram[base][d]) => table = ram[base][d][1]
        /\ mapped.owned = IF Present(ram[base][d]) THEN Append(loading.owned, page)
                          ELSE Append(Append(loading.owned, table), page)
        /\ mapped.alloc \in [Pages -> BOOLEAN]
        /\ \A p \in Pages : mapped.alloc[p] = (s_allocations[p] \/ p \in new)
        /\ IsMemory(mapped.ram)
        /\ MappedAt(ram, mapped.ram, base, d, t, table, page)
        /\ mapped.ram[table][t] = ReadWrite(page)
    BY <2>0 DEF Maps
  <2>4. target = page
    BY <2>2, <2>3, EntryFacts DEF Walk, MappedAt
  <2>5. /\ IsMemory(copied) /\ copied[page] = image
        /\ \A q \in Frames : q # page => copied[q] = mapped.ram[q]
    <3>1. IsPage(image)
      BY DEF PageImage, IsPage
    <3>2. IsMemory(mapped.ram) /\ target \in Frames
      BY <2>3, <2>4, KernelTableApart
    <3> HIDE DEF image, target
    <3>3. /\ IsMemory(copied) /\ copied[target] = image
          /\ \A q \in Frames : q # target => copied[q] = mapped.ram[q]
      BY <3>1, <3>2, PageWritten
    <3> QED
      BY <2>4, <3>3
  <2> HIDE DEF target, copied, image
  <2>6. /\ base \in Pages /\ base # page /\ table # page /\ base # table
        /\ IsMemory(mapped.ram)
    BY <1>1, <2>3, LoadingIs DEF MappedAt
  <2>7. /\ copied[base] = mapped.ram[base] /\ copied[table] = mapped.ram[table]
        /\ \A q \in Pages : q # page => copied[q] = mapped.ram[q]
        /\ copied[KernelTable] = mapped.ram[KernelTable]
    BY <2>5, <2>6, KernelTableApart
  <2>8. MappedAt(ram, copied, base, d, t, table, page)
    BY <2>3, <2>5, <2>6, <2>7 DEF MappedAt
  <2>9. /\ IsMemory(ram') /\ MappedAt(ram, ram', base, d, t, table, page)
        /\ ram'[page] = image
        /\ ram'[table][t] = IF Header(loading).write THEN ReadWrite(page) ELSE ReadOnly(page)
    <3>1. CASE Header(loading).write
      <4>1. ram' = copied
        BY <2>1, <3>1
      <4> QED
        BY <2>3, <2>5, <2>7, <2>8, <3>1, <4>1
    <3>2. CASE ~Header(loading).write
      <4>1. copied[base][d][1] = table /\ copied[table][t][1] = page
        BY <2>8 DEF MappedAt
      <4>2. ram' = Store(copied, table, t, ReadOnly(page))
        <5>1. ram' = set_user_mem_no_write(copied, base, at)
          BY <2>1, <3>2
        <5>2. set_user_mem_no_write(copied, base, at)
                = Store(copied, copied[base][d][1], t,
                        ReadOnly(copied[copied[base][d][1]][t][1]))
          BY Zenon DEF set_user_mem_no_write, Store, ReadOnly
        <5> QED
          BY <4>1, <5>1, <5>2
      <4>3. /\ IsMemory(ram') /\ ram'[table][t] = ReadOnly(page)
            /\ \A q \in Frames : q # table => ram'[q] = copied[q]
            /\ \A s \in Slots : s # t => ram'[table][s] = copied[table][s]
        <5>1. IsMemory(copied) /\ t \in Slots /\ table \in Frames
          BY <2>2, <2>5, KernelTableApart
        <5> HIDE DEF t
        <5> QED
          BY <4>2, <5>1, WordWritten
      <4>4. MappedAt(ram, ram', base, d, t, table, page)
        BY <2>6, <2>8, <4>3, EntryFacts, KernelTableApart DEF MappedAt
      <4> QED
        BY <2>5, <2>6, <3>2, <4>3, <4>4, KernelTableApart
    <3> QED
      BY <3>1, <3>2
  <2>11. PageLoaded(table, page)
    <3>1. /\ s_allocations' \in [Pages -> BOOLEAN]
          /\ \A p \in Pages : s_allocations'[p] = (s_allocations[p] \/ p \in new)
      BY <2>1, <2>3
    <3>2. loading' = [Advance(loading) EXCEPT !.owned =
                        IF Present(ram[base][d]) THEN Append(loading.owned, page)
                        ELSE Append(Append(loading.owned, table), page)]
      BY <2>1, <2>3
    <3> HIDE DEF new, d, t, base
    <3> QED
      BY <2>1, <2>2, <2>3, <2>9, <3>1, <3>2 DEF PageLoaded, new, d, t, base, at, image
  <2> QED
    BY <2>11
<1> QED
  BY <1>2, <1>3

(* The loop goes on to the beginning of the next page.                     *)
LEMMA NextNumber ==
  ASSUME NEW v \in Nat
  PROVE  PageNumber(v + (PageSize - (v % PageSize))) = PageNumber(v) + 1
<1> DEFINE q == v \div PageSize
           next == v + (PageSize - (v % PageSize))
<1>1. PageSize \in Nat \ {0}
  BY MemoryAssumption
<1>2. q \in Nat /\ next = PageSize * q + PageSize
  BY <1>1
<1> HIDE DEF q, next
<1>3. next = PageSize * (q + 1) /\ q + 1 \in Nat
  BY <1>1, <1>2
<1>4. next \div PageSize = q + 1
  BY <1>1, <1>3
<1> QED
  BY <1>4 DEF PageNumber, next, q

LEMMA AdvancedIs ==
  ASSUME NEW l \in Unfinished, NEW owned
  PROVE  LET diff == PageSize - (l.vaddr % PageSize)
         IN /\ diff \in Nat
            /\ [Advance(l) EXCEPT !.owned = owned]
                 = [header |-> l.header, left |-> l.left - 1, file |-> l.file,
                    base |-> l.base, owned |-> owned,
                    vaddr |-> l.vaddr + diff, source |-> l.source + diff]
<1> DEFINE diff == PageSize - (l.vaddr % PageSize)
<1>1. diff \in Nat
  BY MemoryAssumption DEF Unfinished
<1>2. Advance(l) = [l EXCEPT !.vaddr = @ + diff, !.source = @ + diff, !.left = @ - 1]
  BY DEF Advance
<1> HIDE DEF diff
<1>3. Advance(l) = [header |-> l.header, left |-> l.left - 1, file |-> l.file,
                    base |-> l.base, owned |-> l.owned,
                    vaddr |-> l.vaddr + diff, source |-> l.source + diff]
  BY <1>2 DEF Unfinished
<1> QED
  BY <1>1, <1>3 DEF diff

(* The table and the page are the process's, and nothing else is written.  *)
LEMMA LoadPageStep ==
  ASSUME MemInv, LoadPage
  PROVE  MemInv' /\ ViewsSame
<1>1. loading # NotLoading
  BY DEF LoadPage, LoadsSegments
<1>2. CASE \E why : Stop(why)
  BY <1>2, StopStep
<1>3. ASSUME NEW table \in Pages, NEW page \in Pages, PageLoaded(table, page)
      PROVE  MemInv' /\ ViewsSame
  <2> DEFINE base == loading.base
             mine == Mine(loading)
             d == DirIndex(PageAt)
             t == TableIndex(PageAt)
             new == IF Present(ram[base][d]) THEN {page} ELSE {table, page}
             owned == IF Present(ram[base][d]) THEN Append(loading.owned, page)
                      ELSE Append(Append(loading.owned, table), page)
  <2>1. /\ loading.vaddr \in Nat /\ d \in UserDirs /\ t \in Slots
        /\ \A p \in new : ~s_allocations[p]
        /\ Present(ram[base][d]) => table = ram[base][d][1]
        /\ loading' = [Advance(loading) EXCEPT !.owned = owned]
        /\ s_allocations' \in [Pages -> BOOLEAN]
        /\ \A p \in Pages : s_allocations'[p] = (s_allocations[p] \/ p \in new)
        /\ IsMemory(ram') /\ MappedAt(ram, ram', base, d, t, table, page)
        /\ UNCHANGED <<cr3, processes>>
    BY <1>3 DEF PageLoaded
  <2>2. /\ d \in Slots /\ cr3 = base /\ loading \in Unfinished
    BY <1>1, <2>1, LoadingIs DEF UserDirs
  <2>8. Tidy(ram', base, mine \cup {table, page})
    <3>1. /\ mine \in SUBSET Pages /\ base \notin mine /\ Tidy(ram, base, mine)
          /\ IsMemory(ram) /\ base \in Pages
      BY <1>1, LoadingIs DEF Mine
    <3>2. \A p \in mine : s_allocations[p]
      BY <1>1, LoadingIs DEF Mine, OneUse
    <3>3. page \notin mine
      BY <2>1, <3>2
    <3>4. ram[base][d] # Zero => ram[base][d][1] = table
      BY <2>2, <2>1, <3>1 DEF Tidy
    <3>5. ram[base][d] = Zero =>
            table \notin mine /\ \A s \in Slots : ram[table][s] = Zero
      BY <2>1, <3>2, EntryFacts DEF MemInv
    <3> HIDE DEF base, mine, d, t
    <3> QED
      BY <2>2, <2>1, <3>1, <3>3, <3>4, <3>5, TidyGrows
  <2>9. /\ loading \in Unfinished /\ base \in Pages /\ loading.owned \in Seq(Pages)
        /\ Owned(loading) \subseteq Pages /\ base \in Owned(loading)
        /\ Cardinality(Owned(loading)) = Len(loading.owned) + 1
        /\ page \notin Owned(loading) /\ page # table
        /\ Present(ram[base][d]) => table \in Owned(loading) \ {base}
        /\ ~Present(ram[base][d]) => table \notin Owned(loading)
    <3>1. Present(ram[base][d]) => ram[base][d][1] \in Owned(loading) \ {base}
      BY <1>1, <2>1, LoadingIs, EntryFacts DEF Tidy, Mine
    <3> QED
      BY <1>1, <2>1, <3>1, LoadingIs DEF OneUse, MappedAt
  <2>10. /\ loading' \in Unfinished /\ loading'.base = base
         /\ loading'.owned = owned
    <3>1. owned \in Seq(Pages)
      BY <2>1, <2>9
    <3> DEFINE diff == PageSize - (loading.vaddr % PageSize)
    <3> HIDE DEF owned
    <3>2. /\ diff \in Nat
          /\ loading' = [header |-> loading.header, left |-> loading.left - 1,
                          file |-> loading.file, base |-> loading.base, owned |-> owned,
                          vaddr |-> loading.vaddr + diff, source |-> loading.source + diff]
      BY <2>1, <2>9, AdvancedIs
    <3> HIDE DEF diff
    <3> QED
      BY <2>9, <3>1, <3>2 DEF Unfinished
  <2> DEFINE old == Owned(loading)
             n == Len(processes) + 1
  <2>11. /\ Owned(loading') = old \cup new
         /\ Cardinality(Owned(loading')) = Len(loading'.owned) + 1
    <3>1. CASE Present(ram[base][d])
      <4>1. loading'.owned = Append(loading.owned, page) /\ new = {page}
        BY <2>1, <2>10, <3>1
      <4> QED
        BY <2>9, <2>10, <4>1, TakesPage
    <3>2. CASE ~Present(ram[base][d])
      <4> DEFINE mid == [base |-> base, owned |-> Append(loading.owned, table)]
      <4>1. /\ mid.base = base /\ mid.owned = Append(loading.owned, table)
            /\ loading'.owned = Append(mid.owned, page) /\ new = {table, page}
        BY <2>1, <2>10, <3>2
      <4> HIDE DEF mid
      <4>2. /\ Owned(mid) = old \cup {table} /\ mid.owned \in Seq(Pages)
            /\ Cardinality(Owned(mid)) = Len(mid.owned) + 1
        BY <2>9, <3>2, <4>1, TakesPage
      <4>3. page \notin Owned(mid) /\ mid.base \in Pages /\ loading'.base = mid.base
        BY <2>9, <2>10, <4>1, <4>2
      <4>4. /\ Owned(loading') = Owned(mid) \cup {page}
            /\ Cardinality(Owned(loading')) = Len(loading'.owned) + 1
        <5>1. /\ mid.base \in Pages /\ mid.owned \in Seq(Pages) /\ page \in Pages
              /\ Cardinality(Owned(mid)) = Len(mid.owned) + 1 /\ page \notin Owned(mid)
              /\ loading'.base = mid.base /\ loading'.owned = Append(mid.owned, page)
          BY <2>9, <4>1, <4>2, <4>3
        <5> QED
          BY <5>1, TakesPage, Zenon
      <4> QED
        BY <4>1, <4>2, <4>4
    <3> QED
      BY <3>1, <3>2
  <2>12. Mine(loading') = mine \cup {table, page}
    <3>1. base # table /\ base # page /\ loading'.base = base /\ base \in Owned(loading)
      BY <2>1, <2>9, <2>10 DEF MappedAt
    <3>2. Present(ram[base][d]) => table \in Owned(loading)
      BY <2>9
    <3> QED
      BY <2>11, <3>1, <3>2 DEF Mine
  <2>13. loading' # NotLoading
    BY <2>10 DEF Unfinished, NotLoading
  <2>14. MemType'
    BY <2>1, <2>10 DEF MemInv, MemType, OwnType
  <2>15. /\ DOMAIN Everyone' = 1..n /\ Everyone'[n] = loading'
         /\ \A k \in DOMAIN processes : Everyone'[k] = processes[k]
    BY <2>1, <2>13, <2>14, SequenceOfAll DEF MemType, OwnType, Everyone, IsLoading
  <2>16. /\ n \notin DOMAIN processes /\ n \in DOMAIN Everyone /\ Everyone[n] = loading
         /\ DOMAIN processes = 1..Len(processes) /\ Len(processes) \in Nat
         /\ \A k \in DOMAIN processes : k \in DOMAIN Everyone /\ Everyone[k] = processes[k]
    BY <1>1, LoadingIs, EveryoneIs DEF MemInv, MemType
  <2>17. \A k \in DOMAIN Everyone' : k # n =>
           /\ k \in DOMAIN Everyone /\ Everyone'[k].base = Everyone[k].base
           /\ Everyone'[k].owned = Everyone[k].owned
    BY <2>15, <2>16
  <2>18. /\ new \in SUBSET Pages /\ old \in SUBSET Pages
         /\ \A p \in new : ~s_allocations[p]
         /\ \A p \in Pages : s_allocations'[p] = (s_allocations[p] \/ p \in new)
    BY <2>1, <2>9
  <2>19. \A p \in Pages : p \notin old \cup new => ram'[p] = ram[p]
    BY <2>1, <2>9 DEF MappedAt
  <2>20. old = IF n \in DOMAIN Everyone THEN Owned(Everyone[n]) ELSE {}
    BY <2>16
  <2>21. Tidy(ram', Everyone'[n].base, Mine(Everyone'[n]))
    BY <2>8, <2>10, <2>12, <2>15
  <2>22. /\ Cardinality(Owned(Everyone'[n])) = Len(Everyone'[n].owned) + 1
         /\ Owned(Everyone'[n]) \subseteq old \cup new
    BY <2>11, <2>15
  <2>23. ram'[KernelTable] = ram[KernelTable] /\ cr3' = loading'.base
    BY <2>1, <2>2, <2>10 DEF MappedAt
  <2>25. LoopBelow'
    <3> DEFINE first == PageNumber(loading.vaddr)
               bound == KernelDir * PageSize
    <3>1. /\ PageNumber(loading'.vaddr) = first + 1 /\ loading'.left = loading.left - 1
      <4>1. PageNumber(loading.vaddr + (PageSize - (loading.vaddr % PageSize))) = first + 1
        BY <2>1, NextNumber
      <4> DEFINE diff == PageSize - (loading.vaddr % PageSize)
      <4>2. loading' = [header |-> loading.header, left |-> loading.left - 1,
                        file |-> loading.file, base |-> loading.base, owned |-> owned,
                        vaddr |-> loading.vaddr + diff, source |-> loading.source + diff]
        <5> HIDE DEF owned, diff
        <5> QED
          BY <2>1, <2>9, AdvancedIs DEF diff
      <4>3. loading'.vaddr = loading.vaddr + diff /\ loading'.left = loading.left - 1
        <5> HIDE DEF owned, diff
        <5> QED
          BY <4>2
      <4> QED
        BY <4>1, <4>3
    <3>2. loading.left > 0 /\ first + loading.left <= bound
      <4>1. loading.left > 0 /\ IsLoading /\ LoopBelow
        BY <1>1, Zenon DEF LoadPage, MemInv, IsLoading
      <4> QED
        BY <4>1 DEF LoopBelow
    <3>3. first \in Nat /\ bound \in Nat /\ loading.left \in Int
      <4>1. loading.vaddr \in Nat /\ loading.left \in Int
        BY <2>9, Zenon DEF Unfinished
      <4>2. bound \in Nat
        BY MemoryAssumption
      <4>3. PageSize \in Nat \ {0}
        BY MemoryAssumption
      <4>4. first \in Nat
        BY <4>1, <4>3 DEF PageNumber
      <4> QED
        BY <4>1, <4>2, <4>4
    <3>4. first + 1 + (loading.left - 1) <= bound
      <4> HIDE DEF first, bound
      <4> QED
        BY <3>2, <3>3
    <3> QED
      BY <3>1, <3>4 DEF LoopBelow
  <2> HIDE DEF n, old, new, base, mine, d, t
  <2>24. Grows(n, old, new)
    BY <2>17, <2>18, <2>19, <2>20, <2>21, <2>22, Zenon DEF Grows
  <2> QED
    BY <2>14, <2>16, <2>18, <2>23, <2>24, <2>25, OneGrows
<1> QED
  BY <1>2, <1>3, LoadPageIs

(* The page after the last, by its number among the free ones.             *)
LEMMA NthFreeIsFree ==
  ASSUME NEW alloc, NEW n \in 1..Cardinality(Free(alloc))
  PROVE  NthFree(alloc, n) \in Pages /\ ~alloc[NthFree(alloc, n)]
<1> DEFINE P(p) == Cardinality({q \in Free(alloc) : q < p}) = n - 1
<1>1. Free(alloc) \in SUBSET Pages
  BY DEF Free
<1>2. \E p \in Free(alloc) : P(p)
  BY <1>1, CountReaches
<1>3. NthFree(alloc, n) \in Free(alloc)
  BY <1>2 DEF NthFree
<1> QED
  BY <1>3 DEF Free

(* map_kernel_memory writes to the kernel's table only.                    *)
LEMMA MapKernelIs ==
  ASSUME MemInv, NEW count \in 1..MaxKernelPages, map_kernel_memory(count)
  PROVE  \/ \E why : Stop(why)
         \/ /\ UNCHANGED <<cr3, processes, loading>> /\ ~IsLoading /\ MemType'
            /\ \A q \in Pages : ram'[q] = ram[q]
            /\ \E pages, first :
                 /\ \A n \in 1..count : pages[n] \in Pages /\ ~s_allocations[pages[n]]
                 /\ \A p \in Pages : s_allocations'[p] =
                      (s_allocations[p] \/ \E n \in 1..count : pages[n] = p)
                 /\ \A k \in Slots :
                      \/ ram'[KernelTable][k] = ram[KernelTable][k]
                      \/ \E n \in 1..count : ram'[KernelTable][k] = ReadWrite(pages[n])
<1> DEFINE least == CHOOSE k \in RunEnds(count) : \A j \in RunEnds(count) : k <= j
           first == least - count
           pages == [n \in 1..count |-> NthFree(s_allocations, n)]
           table == [k \in Slots |-> IF k \in first..(first + count - 1)
                                     THEN Entry(pages[k - first + 1], TRUE)
                                     ELSE ram[KernelTable][k]]
<1>1. \/ \E why : Stop(why)
      \/ /\ RunEnds(count) # {} /\ ~(Cardinality(Free(s_allocations)) < count)
         /\ s_allocations' = [p \in Pages |->
              s_allocations[p] \/ \E n \in 1..count : pages[n] = p]
         /\ ram' = StorePage(ram, KernelTable, table)
         /\ UNCHANGED <<cr3, processes, loading>> /\ ~IsLoading
  BY Zenon DEF map_kernel_memory, IsLoading, StorePage
<1>2. CASE /\ RunEnds(count) # {} /\ ~(Cardinality(Free(s_allocations)) < count)
           /\ s_allocations' = [p \in Pages |->
                s_allocations[p] \/ \E n \in 1..count : pages[n] = p]
           /\ ram' = StorePage(ram, KernelTable, table)
           /\ UNCHANGED <<cr3, processes, loading>> /\ ~IsLoading
  <2>1. count \in Nat /\ count >= 1
    BY MemoryAssumption
  <2>2. first \in Int
    <3>1. RunEnds(count) \subseteq Nat
      BY <2>1, MemoryAssumption DEF RunEnds
    <3>2. least \in RunEnds(count)
      BY <1>2, <3>1, LeastMember
    <3> HIDE DEF least
    <3> QED
      BY <2>1, <3>1, <3>2
  <2>3. Cardinality(Free(s_allocations)) \in Nat
    <3>1. 0 \in Int /\ PageCount - 1 \in Int
      BY MemoryAssumption
    <3>2. IsFiniteSet(Free(s_allocations))
      BY <3>1, FS_Interval, FS_Subset DEF Free, Pages
    <3> QED
      BY <3>2, FS_CardinalityType
  <2>4. \A n \in 1..count : pages[n] \in Pages /\ ~s_allocations[pages[n]]
    BY <1>2, <2>1, <2>3, NthFreeIsFree
  <2> HIDE DEF first, pages
  <2>5. /\ IsMemory(ram') /\ ram'[KernelTable] = table
        /\ \A q \in Pages : ram'[q] = ram[q]
    <3>1. IsPage(table)
      BY DEF IsPage
    <3> HIDE DEF table
    <3> QED
      BY <1>2, <3>1, PageWritten, KernelTableApart DEF MemInv, MemType
  <2>6. ASSUME NEW k \in Slots
        PROVE  \/ ram'[KernelTable][k] = ram[KernelTable][k]
               \/ \E n \in 1..count : ram'[KernelTable][k] = ReadWrite(pages[n])
    <3>1. CASE k \in first..(first + count - 1)
      <4>1. k - first + 1 \in 1..count
        BY <2>1, <2>2, <3>1
      <4>2. ram'[KernelTable][k] = ReadWrite(pages[k - first + 1])
        BY <2>5, <3>1, Zenon DEF ReadWrite
      <4> QED
        BY <4>1, <4>2, Zenon
    <3>2. CASE k \notin first..(first + count - 1)
      BY <2>5, <3>2, Zenon
    <3> QED
      BY <3>1, <3>2
  <2>7. /\ s_allocations' \in [Pages -> BOOLEAN]
        /\ \A p \in Pages : s_allocations'[p] =
              (s_allocations[p] \/ \E n \in 1..count : pages[n] = p)
    BY <1>2
  <2>8. MemType'
    BY <1>2, <2>5, <2>7 DEF MemInv, MemType, OwnType
  <2> HIDE DEF table
  <2> QED
    BY <1>2, <2>4, <2>5, <2>6, <2>7, <2>8
<1> QED
  BY <1>1, <1>2

(* What the kernel maps for itself were free pages.                        *)
LEMMA MapKernelStep ==
  ASSUME MemInv, NEW count \in 1..MaxKernelPages, map_kernel_memory(count)
  PROVE  MemInv' /\ ViewsSame
<1>1. CASE \E why : Stop(why)
  BY <1>1, StopStep
<1>2. ASSUME UNCHANGED <<cr3, processes, loading>>, ~IsLoading, MemType',
             \A q \in Pages : ram'[q] = ram[q],
             NEW pages,
             \A n \in 1..count : pages[n] \in Pages /\ ~s_allocations[pages[n]],
             \A p \in Pages : s_allocations'[p] =
               (s_allocations[p] \/ \E n \in 1..count : pages[n] = p),
             \A k \in Slots :
               \/ ram'[KernelTable][k] = ram[KernelTable][k]
               \/ \E n \in 1..count : ram'[KernelTable][k] = ReadWrite(pages[n])
      PROVE  MemInv' /\ ViewsSame
  <2>1. ASSUME NEW page \in KernelPages'
        PROVE  page \in KernelPages \/ \E n \in 1..count : pages[n] = page
    <3>1. PICK k \in Slots : /\ Present(ram'[KernelTable][k])
                             /\ ram'[KernelTable][k][1] = page
                             /\ ~(k = HeapEnd /\ page = 0)
      BY <2>1 DEF KernelPages
    <3>2. CASE ram'[KernelTable][k] = ram[KernelTable][k]
      BY <2>1, <3>1, <3>2 DEF KernelPages
    <3>3. CASE \E n \in 1..count : ram'[KernelTable][k] = ReadWrite(pages[n])
      <4>1. PICK n \in 1..count : ram'[KernelTable][k] = ReadWrite(pages[n])
        BY <3>3
      <4>2. ReadWrite(pages[n])[1] = pages[n]
        BY EntryFacts, Zenon
      <4> QED
        BY <3>1, <4>1, <4>2
    <3> QED
      BY <1>2, <3>2, <3>3
  <2>2. KernelPages' \subseteq Pages
    BY DEF KernelPages
  <2>3. Everyone' = Everyone /\ ~IsLoading'
    BY <1>2 DEF Everyone, IsLoading
  <2>4. \A k \in DOMAIN Everyone : Owned(Everyone[k]) \subseteq Pages
                                   /\ Everyone[k].base \in Owned(Everyone[k])
    BY EveryoneType DEF MemInv, MemType
  <2>5. ASSUME NEW k \in DOMAIN Everyone PROVE OneUse(Everyone[k])'
    <3>1. OneUse(Everyone[k]) /\ Owned(Everyone[k]) \subseteq Pages
      BY <2>4 DEF MemInv
    <3>2. ASSUME NEW page \in Owned(Everyone[k])
          PROVE  s_allocations'[page] /\ page \notin KernelPages'
      <4>1. page \in Pages /\ s_allocations[page] /\ page \notin KernelPages
        BY <3>1 DEF OneUse
      <4>2. \A n \in 1..count : pages[n] # page
        BY <1>2, <4>1
      <4>3. s_allocations'[page]
        BY <1>2, <4>1
      <4> QED
        BY <2>1, <4>1, <4>2, <4>3
    <3> QED
      BY <2>3, <3>1, <3>2 DEF OneUse
  <2>6. Disjoint' /\ LoopBelow'
    BY <2>3 DEF MemInv, Disjoint, LoopBelow
  <2>7. KernelsAllocated'
    BY <1>2, <2>1, <2>2 DEF MemInv, KernelsAllocated
  <2>8. ASSUME NEW k \in DOMAIN Everyone
        PROVE  Tidy(ram', Everyone[k].base, Mine(Everyone[k]))
    <3>1. Tidy(ram, Everyone[k].base, Mine(Everyone[k]))
      BY DEF MemInv
    <3>2. \A page \in Mine(Everyone[k]) \cup {Everyone[k].base} : ram'[page] = ram[page]
      BY <1>2, <2>4 DEF Mine
    <3> QED
      BY <3>1, <3>2, TidyKept
  <2>9. \A page \in Pages : ~s_allocations'[page] => \A s \in Slots : ram'[page][s] = Zero
    BY <1>2 DEF MemInv
  <2>10. MemInv'
    BY <1>2, <2>3, <2>5, <2>6, <2>7, <2>8, <2>9 DEF MemInv
  <2>11. \A k \in DOMAIN processes : \A page \in Owned(processes[k]) : ram'[page] = ram[page]
    BY <1>2, <2>4, EveryoneIs DEF MemInv, MemType
  <2> QED
    BY <2>10, <2>11, ViewsStay
<1> QED
  BY <1>1, <1>2, MapKernelIs

(* A file that is refused leaves a process with its directory only.        *)
LEMMA RejectFileStep ==
  ASSUME MemInv, RejectFile
  PROVE  MemInv' /\ ViewsSame
<1>1. loading # NotLoading /\ Created(0) /\ UNCHANGED <<s_allocations, ram, cr3>>
  BY DEF RejectFile
<1>2. LoopBelow'
  BY <1>1 DEF LoopBelow, Created, IsLoading
<1> QED
  BY <1>1, <1>2, ControlStep DEF GoesOn

(* A segment is complete.                                                  *)
LEMMA SegmentLoadedStep ==
  ASSUME MemInv, SegmentLoaded
  PROVE  MemInv' /\ ViewsSame
<1>1. /\ loading # NotLoading /\ loading' = NextHeader(loading)
      /\ UNCHANGED <<s_allocations, ram, cr3, processes>>
  BY DEF SegmentLoaded, LoadsSegments
<1>2. LoopBelow'
  BY <1>1, LoadingIs, NextHeaderIs DEF LoopBelow
<1> QED
  BY <1>1, <1>2, LoadingIs, NextHeaderIs, ControlStep DEF GoesOn

(* Every step of Memory that leaves all programs below the kernel keeps    *)
(* the invariant, and what each process that was created sees.             *)
LEMMA MemStep ==
  ASSUME MemInv, AllBelowKernel, [Next]_vars
  PROVE  MemInv' /\ ViewsSame
<1>1. CASE Next
  BY <1>1, NewProcessStep, RejectFileStep, ProgramHeaderStep, LoadPageStep,
     SegmentLoadedStep, SectionHeadersStep, MapKernelStep, SameMemory
     DEF Next, Halted, vars
<1>2. CASE UNCHANGED vars
  BY <1>2, SameMemory DEF vars
<1> QED
  BY <1>1, <1>2

-----------------------------------------------------------------------------
(* Owners, wherever the programs lie.                                      *)

(* A page is one process's, once, and allocated.                           *)
Counted(p) ==
  /\ Cardinality(Owned(p)) = Len(p.owned) + 1
  /\ \A page \in Owned(p) : s_allocations[page]

OwnInv ==
  /\ OwnType
  /\ \A k \in DOMAIN Everyone : Counted(Everyone[k])
  /\ Disjoint

(* Nobody owns anything at first.                                          *)
LEMMA OwnInit == Init => OwnInv
<1> SUFFICES ASSUME Init PROVE OwnInv
  OBVIOUS
<1>1. OwnType
  BY DEF Init, OwnType, NotLoading
<1>2. Everyone = <<>>
  BY DEF Init, Everyone, IsLoading
<1> QED
  BY <1>1, <1>2 DEF OwnInv, Disjoint

(* Whose program a process is stays so.                                    *)
FilesStay ==
  \A k \in DOMAIN Everyone : k \in DOMAIN Everyone' /\ Everyone'[k].file = Everyone[k].file

(* One member of Everyone may take pages that were free.                   *)
Takes(n, new) ==
  /\ \A page \in new : page \in Pages /\ ~s_allocations[page] /\ s_allocations'[page]
  /\ \A page \in Pages : s_allocations[page] => s_allocations'[page]
  /\ \A k \in DOMAIN Everyone' : k # n =>
       /\ k \in DOMAIN Everyone /\ Everyone'[k].base = Everyone[k].base
       /\ Everyone'[k].owned = Everyone[k].owned
  /\ n \in DOMAIN Everyone' =>
       /\ Cardinality(Owned(Everyone'[n])) = Len(Everyone'[n].owned) + 1
       /\ Owned(Everyone'[n]) \subseteq
            (IF n \in DOMAIN Everyone THEN Owned(Everyone[n]) ELSE {}) \cup new

(* Then nobody shares a page.                                              *)
LEMMA OneTakes ==
  ASSUME OwnInv, OwnType', NEW n, NEW new, Takes(n, new)
  PROVE  OwnInv'
<1>1. \A k \in DOMAIN Everyone : \A page \in Owned(Everyone[k]) :
        page \in Pages /\ s_allocations[page] /\ s_allocations'[page] /\ page \notin new
  BY EveryoneType DEF OwnInv, Counted, Takes
<1>2. \A k \in DOMAIN Everyone' : k # n =>
        k \in DOMAIN Everyone /\ Owned(Everyone'[k]) = Owned(Everyone[k])
  BY DEF Takes, Owned
<1>3. ASSUME NEW k \in DOMAIN Everyone' PROVE Counted(Everyone[k])'
  <2>1. CASE k = n
    <3>1. \A page \in Owned(Everyone'[n]) : s_allocations'[page]
      BY <1>1, <1>3, <2>1 DEF Takes
    <3> QED
      BY <1>3, <2>1, <3>1 DEF Counted, Takes
  <2>2. CASE k # n
    BY <1>1, <1>2, <1>3, <2>2 DEF OwnInv, Counted, Takes
  <2> QED
    BY <2>1, <2>2
<1>4. Disjoint'
  <2> SUFFICES ASSUME NEW j \in DOMAIN Everyone', NEW k \in DOMAIN Everyone', j # k
               PROVE  Owned(Everyone'[j]) \cap Owned(Everyone'[k]) = {}
    BY DEF Disjoint
  <2>1. CASE j # n /\ k # n
    BY <1>2, <2>1 DEF OwnInv, Disjoint
  <2>2. ASSUME NEW i \in DOMAIN Everyone', i # n, n \in DOMAIN Everyone'
        PROVE  Owned(Everyone'[n]) \cap Owned(Everyone'[i]) = {}
    <3>1. i \in DOMAIN Everyone /\ Owned(Everyone'[i]) = Owned(Everyone[i])
      BY <1>2, <2>2
    <3>2. n \in DOMAIN Everyone => Owned(Everyone[n]) \cap Owned(Everyone[i]) = {}
      BY <2>2, <3>1 DEF OwnInv, Disjoint
    <3>3. \A page \in Owned(Everyone[i]) : page \notin new
      BY <1>1, <3>1
    <3>4. Owned(Everyone'[n]) \subseteq
            (IF n \in DOMAIN Everyone THEN Owned(Everyone[n]) ELSE {}) \cup new
      BY <2>2 DEF Takes
    <3> QED
      BY <3>1, <3>2, <3>3, <3>4
  <2> QED
    BY <2>1, <2>2
<1> QED
  BY <1>3, <1>4 DEF OwnInv

(* Who is there stays, if nobody takes a page.                             *)
LEMMA OwnGoesOn ==
  ASSUME OwnInv, loading # NotLoading, UNCHANGED s_allocations, GoesOn
  PROVE  OwnInv' /\ FilesStay
<1> DEFINE n == Len(processes) + 1
<1>1. /\ OwnType' /\ DOMAIN Everyone' = 1..n
      /\ Everyone'[n].base = loading.base /\ Everyone'[n].owned = loading.owned
      /\ Everyone'[n].file = loading.file
      /\ \A k \in DOMAIN processes : Everyone'[k] = processes[k]
  BY EveryoneGoesOn DEF OwnInv
<1>2. /\ DOMAIN Everyone = 1..n /\ Everyone[n] = loading
      /\ \A k \in DOMAIN processes : k \in DOMAIN Everyone /\ Everyone[k] = processes[k]
      /\ \A k \in DOMAIN Everyone : k \notin DOMAIN processes => k = n
  BY EveryoneIs DEF OwnInv, IsLoading
<1> HIDE DEF n
<1>3. \A k \in DOMAIN Everyone : /\ Everyone'[k].base = Everyone[k].base
                                 /\ Everyone'[k].owned = Everyone[k].owned
                                 /\ Everyone'[k].file = Everyone[k].file
  BY <1>1, <1>2
<1>4. FilesStay
  BY <1>1, <1>2, <1>3 DEF FilesStay
<1>5. Takes(0, {})
  BY <1>1, <1>2, <1>3 DEF Takes, OwnInv, Counted, Owned
<1> QED
  BY <1>1, <1>4, <1>5, OneTakes

(* Who is there stays, if nothing happens to them.                         *)
LEMMA OwnSame ==
  ASSUME OwnInv, UNCHANGED <<processes, loading>>,
         s_allocations' \in [Pages -> BOOLEAN],
         \A page \in Pages : s_allocations[page] => s_allocations'[page]
  PROVE  OwnInv' /\ FilesStay
<1>1. Everyone' = Everyone
  BY DEF Everyone, IsLoading
<1>2. FilesStay
  BY <1>1 DEF FilesStay
<1>3. OwnType'
  BY DEF OwnInv, OwnType
<1>4. \A k \in DOMAIN Everyone : Owned(Everyone[k]) \subseteq Pages
  BY EveryoneType DEF OwnInv
<1>5. \A k \in DOMAIN Everyone : Counted(Everyone[k])'
  BY <1>1, <1>4 DEF OwnInv, Counted
<1> QED
  BY <1>1, <1>2, <1>3, <1>5 DEF OwnInv, Disjoint

(* A step that stops the kernel changes no owner.                          *)
LEMMA StopOwn ==
  ASSUME OwnInv, NEW why, Stop(why)
  PROVE  OwnInv' /\ FilesStay
BY OwnSame DEF Stop, OwnInv, OwnType

(* A new process has one free page.                                        *)
LEMMA NewProcessOwn ==
  ASSUME OwnInv, NEW file \in Files, NewProcess(file)
  PROVE  OwnInv' /\ FilesStay
<1>1. CASE Free(s_allocations) = {}
  BY <1>1, StopOwn DEF NewProcess
<1>2. CASE Free(s_allocations) # {}
  <2> DEFINE base == FirstFree(s_allocations)
             begun == [header |-> 1, left |-> -1, file |-> file, base |-> base,
                       owned |-> <<>>, vaddr |-> 0, source |-> 0]
             n == Len(processes) + 1
  <2>1. /\ s_allocations' = allocate(s_allocations)
        /\ loading' = begun /\ loading = NotLoading /\ ~IsLoading
        /\ UNCHANGED processes
    BY <1>2 DEF NewProcess, IsLoading
  <2>2. /\ base \in Pages /\ ~s_allocations[base]
        /\ allocate(s_allocations) \in [Pages -> BOOLEAN]
        /\ \A p \in Pages :
             allocate(s_allocations)[p] = (s_allocations[p] \/ p = base)
    BY <1>2, Allocated DEF OwnInv, OwnType
  <2> HIDE DEF base
  <2>3. begun \in Unfinished /\ begun # NotLoading
    BY <2>2 DEF Unfinished, NotLoading
  <2>4. begun.base = base /\ begun.owned = <<>>
    OBVIOUS
  <2> HIDE DEF begun
  <2>5. OwnType'
    BY <2>1, <2>2, <2>3 DEF OwnInv, OwnType
  <2>6. /\ DOMAIN Everyone' = 1..n /\ Everyone'[n] = begun
        /\ \A k \in DOMAIN processes : Everyone'[k] = processes[k]
    BY <2>1, <2>3, SequenceOfAll DEF OwnInv, OwnType, Everyone, IsLoading
  <2>7. Owned(begun) = {base} /\ Cardinality(Owned(begun)) = Len(begun.owned) + 1
    BY <2>4, OwnsDirectory
  <2>8. /\ Everyone = processes /\ DOMAIN processes = 1..Len(processes)
        /\ Len(processes) \in Nat
    BY <2>1, EveryoneIs DEF OwnInv
  <2>9. /\ n \notin DOMAIN Everyone /\ DOMAIN Everyone \subseteq DOMAIN Everyone'
        /\ \A k \in DOMAIN Everyone' : k # n => k \in DOMAIN Everyone
        /\ \A k \in DOMAIN Everyone : Everyone'[k] = Everyone[k]
    BY <2>6, <2>8
  <2> HIDE DEF n
  <2>10. FilesStay
    BY <2>9 DEF FilesStay
  <2>11. Takes(n, {base})
    BY <2>1, <2>2, <2>6, <2>7, <2>9 DEF Takes
  <2> QED
    BY <2>5, <2>10, <2>11, OneTakes
<1> QED
  BY <1>1, <1>2

(* map_user_memory takes one page or two, which were free.                 *)
LEMMA MapTakes ==
  ASSUME NEW alloc \in [Pages -> BOOLEAN], NEW m, NEW owned, NEW base, NEW at,
         NEW before, before = [alloc |-> alloc, ram |-> m, owned |-> owned],
         CanMap(before, base, at),
         NEW after, after = map_user_memory(before, base, at)
  PROVE  \E table, page \in Pages :
           /\ ~alloc[table] /\ ~alloc[page]
           /\ \/ after.owned = Append(owned, page) /\ table = page
              \/ after.owned = Append(Append(owned, table), page) /\ table # page
           /\ after.alloc \in [Pages -> BOOLEAN]
           /\ \A p \in Pages : after.alloc[p] = (alloc[p] \/ p \in {table, page})
<1> DEFINE with == WithTable(before, base, at)
<1>1. /\ after.alloc = allocate(with.alloc)
      /\ after.owned = Append(with.owned, FirstFree(with.alloc))
  <2>1. \A ram2 : after = [alloc |-> allocate(with.alloc), ram |-> ram2,
                           owned |-> Append(with.owned, FirstFree(with.alloc))]
                  => /\ after.alloc = allocate(with.alloc)
                     /\ after.owned = Append(with.owned, FirstFree(with.alloc))
    OBVIOUS
  <2>2. \E ram2 : after = [alloc |-> allocate(with.alloc), ram |-> ram2,
                           owned |-> Append(with.owned, FirstFree(with.alloc))]
    BY Zenon DEF map_user_memory
  <2> QED
    BY <2>1, <2>2, Zenon
<1>2. CASE Present(m[base][DirIndex(at)])
  <2> DEFINE page == FirstFree(alloc)
  <2>1. with = before /\ Free(alloc) # {}
    BY <1>2 DEF WithTable, CanMap
  <2>2. with.alloc = alloc /\ with.owned = owned
    BY <2>1
  <2>3. /\ page \in Pages /\ ~alloc[page] /\ allocate(alloc) \in [Pages -> BOOLEAN]
        /\ \A p \in Pages : allocate(alloc)[p] = (alloc[p] \/ p = page)
    BY <2>1, Allocated
  <2> HIDE DEF page, with
  <2>4. after.alloc = allocate(alloc) /\ after.owned = Append(owned, page)
    BY <1>1, <2>2 DEF page
  <2> QED
    BY <2>3, <2>4
<1>3. CASE ~Present(m[base][DirIndex(at)])
  <2> DEFINE table == FirstFree(alloc)
             rest == allocate(alloc)
             page == FirstFree(rest)
  <2>1. Free(alloc) # {} /\ Free(rest) # {}
    BY <1>3 DEF CanMap
  <2>2. with.alloc = rest /\ with.owned = Append(owned, table)
    <3>1. \E ram2 : with = [alloc |-> rest, ram |-> ram2, owned |-> Append(owned, table)]
      <4>1. before.ram = m /\ before.alloc = alloc /\ before.owned = owned
        OBVIOUS
      <4> QED
        BY <1>3, <4>1, Zenon DEF WithTable
    <3> HIDE DEF with, rest, table
    <3> QED
      BY <3>1
  <2>3. /\ table \in Pages /\ ~alloc[table] /\ rest \in [Pages -> BOOLEAN]
        /\ \A p \in Pages : rest[p] = (alloc[p] \/ p = table)
    BY <2>1, Allocated
  <2>4. /\ page \in Pages /\ ~rest[page] /\ allocate(rest) \in [Pages -> BOOLEAN]
        /\ \A p \in Pages : allocate(rest)[p] = (rest[p] \/ p = page)
    <3> HIDE DEF rest
    <3> QED
      BY <2>1, <2>3, Allocated
  <2> HIDE DEF page, with, rest, table
  <2>5. after.alloc = allocate(rest) /\ after.owned = Append(Append(owned, table), page)
    BY <1>1, <2>2 DEF page
  <2>6. table # page /\ ~alloc[page]
    BY <2>3, <2>4
  <2>7. \A p \in Pages : after.alloc[p] = (alloc[p] \/ p \in {table, page})
    BY <2>3, <2>4, <2>5
  <2> QED
    BY <2>3, <2>4, <2>5, <2>6, <2>7
<1> QED
  BY <1>2, <1>3

(* The process that is created takes the pages that are mapped.            *)
LEMMA LoadPageOwn ==
  ASSUME OwnInv, LoadPage
  PROVE  OwnInv' /\ FilesStay
<1> DEFINE base == loading.base
           at == loading.vaddr - (loading.vaddr % PageSize)
           before == [alloc |-> s_allocations, ram |-> ram, owned |-> loading.owned]
           mapped == map_user_memory(before, base, at)
           n == Len(processes) + 1
<1>1. \/ \E why : Stop(why)
      \/ /\ CanMap(before, base, at) /\ s_allocations' = mapped.alloc
         /\ loading' = [Advance(loading) EXCEPT !.owned = mapped.owned]
         /\ UNCHANGED processes
  BY Zenon DEF LoadPage
<1>2. CASE \E why : Stop(why)
  BY <1>2, StopOwn
<1>3. CASE /\ CanMap(before, base, at) /\ s_allocations' = mapped.alloc
           /\ loading' = [Advance(loading) EXCEPT !.owned = mapped.owned]
           /\ UNCHANGED processes
  <2>1. /\ IsLoading /\ loading # NotLoading /\ loading \in Unfinished
        /\ DOMAIN Everyone = 1..n /\ Everyone[n] = loading
        /\ DOMAIN processes = 1..Len(processes) /\ Len(processes) \in Nat
        /\ \A k \in DOMAIN processes : Everyone[k] = processes[k]
    BY EveryoneIs DEF LoadPage, LoadsSegments, IsLoading, OwnInv
  <2>2. PICK table \in Pages, page \in Pages :
          /\ ~s_allocations[table] /\ ~s_allocations[page]
          /\ \/ mapped.owned = Append(loading.owned, page) /\ table = page
             \/ mapped.owned = Append(Append(loading.owned, table), page) /\ table # page
          /\ mapped.alloc \in [Pages -> BOOLEAN]
          /\ \A p \in Pages : mapped.alloc[p] = (s_allocations[p] \/ p \in {table, page})
    <3>1. s_allocations \in [Pages -> BOOLEAN] /\ mapped = map_user_memory(before, base, at)
      BY DEF OwnInv, OwnType
    <3> HIDE DEF mapped, at, base
    <3> QED
      BY <1>3, <3>1, MapTakes
  <2> HIDE DEF mapped
  <2>3. /\ base \in Pages /\ loading.owned \in Seq(Pages) /\ base \in Owned(loading)
        /\ Cardinality(Owned(loading)) = Len(loading.owned) + 1
        /\ table \notin Owned(loading) /\ page \notin Owned(loading)
    <3>1. n \in DOMAIN Everyone
      BY <2>1
    <3>2. Counted(loading) /\ base \in Pages /\ loading.owned \in Seq(Pages)
          /\ base \in Owned(loading)
      BY <2>1, <3>1, EveryoneType DEF OwnInv
    <3> QED
      BY <2>2, <3>2 DEF Counted
  <2>4. mapped.owned \in Seq(Pages)
    <3>1. \A seq \in Seq(Pages), p \in Pages : Append(seq, p) \in Seq(Pages)
      OBVIOUS
    <3>2. loading.owned \in Seq(Pages)
      BY <2>3
    <3> QED
      BY <2>2, <3>1, <3>2, Zenon
  <2>5. /\ loading' \in Unfinished /\ loading'.base = base /\ loading'.file = loading.file
        /\ loading'.owned = mapped.owned
    <3> DEFINE diff == PageSize - (loading.vaddr % PageSize)
               owned == mapped.owned
    <3> HIDE DEF owned
    <3>1. /\ diff \in Nat
          /\ loading' = [header |-> loading.header, left |-> loading.left - 1,
                          file |-> loading.file, base |-> loading.base, owned |-> owned,
                          vaddr |-> loading.vaddr + diff, source |-> loading.source + diff]
      BY <1>3, <2>1, AdvancedIs DEF owned
    <3>2. owned \in Seq(Pages)
      BY <2>4 DEF owned
    <3> HIDE DEF diff
    <3>3. /\ loading' \in Unfinished /\ loading'.base = base /\ loading'.file = loading.file
          /\ loading'.owned = owned
      BY <2>1, <3>1, <3>2 DEF Unfinished
    <3> QED
      BY <3>3 DEF owned
  <2>6. /\ Owned(loading') = Owned(loading) \cup {table, page}
        /\ Cardinality(Owned(loading')) = Len(loading'.owned) + 1
    <3>1. CASE mapped.owned = Append(loading.owned, page) /\ table = page
      <4>1. loading'.owned = Append(loading.owned, page)
        BY <2>5, <3>1
      <4> QED
        BY <2>3, <2>5, <3>1, <4>1, TakesPage
    <3>2. CASE mapped.owned = Append(Append(loading.owned, table), page) /\ table # page
      <4> DEFINE mid == [base |-> base, owned |-> Append(loading.owned, table)]
      <4>1. /\ mid.base = base /\ mid.owned = Append(loading.owned, table)
            /\ loading'.owned = Append(mid.owned, page)
        BY <2>5, <3>2
      <4> HIDE DEF mid
      <4>2. /\ Owned(mid) = Owned(loading) \cup {table} /\ mid.owned \in Seq(Pages)
            /\ Cardinality(Owned(mid)) = Len(mid.owned) + 1
        BY <2>3, <4>1, TakesPage
      <4>3. /\ mid.base \in Pages /\ mid.owned \in Seq(Pages) /\ page \in Pages
            /\ Cardinality(Owned(mid)) = Len(mid.owned) + 1 /\ page \notin Owned(mid)
            /\ loading'.base = mid.base /\ loading'.owned = Append(mid.owned, page)
        BY <2>3, <2>5, <3>2, <4>1, <4>2
      <4>4. /\ Owned(loading') = Owned(mid) \cup {page}
            /\ Cardinality(Owned(loading')) = Len(loading'.owned) + 1
        BY <4>3, TakesPage, Zenon
      <4> QED
        BY <4>2, <4>4
    <3> QED
      BY <2>2, <3>1, <3>2
  <2>7. loading' # NotLoading
    BY <2>5 DEF Unfinished, NotLoading
  <2>8. OwnType'
    BY <1>3, <2>2, <2>5 DEF OwnInv, OwnType
  <2>9. /\ DOMAIN Everyone' = 1..n /\ Everyone'[n] = loading'
        /\ \A k \in DOMAIN processes : Everyone'[k] = processes[k]
    BY <1>3, <2>7, <2>8, SequenceOfAll DEF OwnType, Everyone, IsLoading
  <2>10. \A k \in DOMAIN Everyone : k # n => Everyone'[k] = Everyone[k]
    BY <2>1, <2>9
  <2>11. s_allocations' = mapped.alloc
    BY <1>3
  <2> HIDE DEF n, base, at, before
  <2>12. FilesStay
    BY <2>1, <2>5, <2>9, <2>10 DEF FilesStay
  <2>13. Takes(n, {table, page})
    <3>1. \A p \in {table, page} : p \in Pages /\ ~s_allocations[p] /\ s_allocations'[p]
      BY <2>2, <2>11
    <3>2. \A p \in Pages : s_allocations[p] => s_allocations'[p]
      BY <2>2, <2>11
    <3>3. \A k \in DOMAIN Everyone' : k # n =>
            /\ k \in DOMAIN Everyone /\ Everyone'[k].base = Everyone[k].base
            /\ Everyone'[k].owned = Everyone[k].owned
      BY <2>1, <2>9, <2>10
    <3>4. n \in DOMAIN Everyone' =>
            /\ Cardinality(Owned(Everyone'[n])) = Len(Everyone'[n].owned) + 1
            /\ Owned(Everyone'[n]) \subseteq
                 (IF n \in DOMAIN Everyone THEN Owned(Everyone[n]) ELSE {}) \cup {table, page}
      BY <2>1, <2>6, <2>9
    <3> QED
      BY <3>1, <3>2, <3>3, <3>4, Zenon DEF Takes
  <2> QED
    BY <2>8, <2>12, <2>13, OneTakes
<1> QED
  BY <1>1, <1>2, <1>3

(* map_kernel_memory takes pages for the kernel.                           *)
LEMMA MapKernelOwn ==
  ASSUME OwnInv, NEW count \in 1..MaxKernelPages, map_kernel_memory(count)
  PROVE  OwnInv' /\ FilesStay
<1> DEFINE taken == [n \in 1..count |-> NthFree(s_allocations, n)]
<1>1. \/ \E why : Stop(why)
      \/ /\ UNCHANGED <<processes, loading>>
         /\ s_allocations' = [p \in Pages |->
              s_allocations[p] \/ \E n \in 1..count : taken[n] = p]
  BY Zenon DEF map_kernel_memory
<1> HIDE DEF taken
<1>2. CASE \E why : Stop(why)
  BY <1>2, StopOwn
<1>3. ASSUME UNCHANGED <<processes, loading>>,
             NEW pages, s_allocations' = [p \in Pages |->
               s_allocations[p] \/ \E n \in 1..count : pages[n] = p]
      PROVE  OwnInv' /\ FilesStay
  <2>1. /\ s_allocations' \in [Pages -> BOOLEAN]
        /\ \A p \in Pages : s_allocations[p] => s_allocations'[p]
    BY <1>3
  <2> QED
    BY <1>3, <2>1, OwnSame
<1> QED
  BY <1>1, <1>2, <1>3

(* Every step keeps the owners, and whose programs there are.              *)
LEMMA OwnStep ==
  ASSUME OwnInv, [Next]_vars
  PROVE  OwnInv' /\ FilesStay
<1>1. CASE UNCHANGED vars
  BY <1>1, OwnSame DEF vars, OwnInv, OwnType
<1>2. CASE RejectFile
  BY <1>2, OwnGoesOn DEF RejectFile, GoesOn
<1>3. CASE ProgramHeader
  <2>1. loading \in Unfinished
    BY <1>3, EveryoneIs DEF ProgramHeader, LoadsSegments, IsLoading, OwnInv
  <2>2. CASE UNCHANGED <<processes, loading>>
    BY <1>3, <2>2, OwnSame DEF ProgramHeader, OwnInv, OwnType
  <2>3. CASE \/ processes' = processes /\ loading' = NextHeader(loading)
             \/ Created(0)
             \/ HeaderTaken
    <3>1. GoesOn
      BY <2>1, <2>3, NextHeaderIs DEF GoesOn, HeaderTaken
    <3> QED
      BY <1>3, <3>1, ProgramHeaderIs, OwnGoesOn DEF OwnInv
  <2> QED
    BY <1>3, <2>2, <2>3, ProgramHeaderIs DEF OwnInv
<1>4. CASE SegmentLoaded
  <2>1. /\ loading # NotLoading /\ loading' = NextHeader(loading)
        /\ UNCHANGED <<s_allocations, processes>>
    BY <1>4 DEF SegmentLoaded, LoadsSegments
  <2>2. loading \in Unfinished
    BY <2>1, EveryoneIs DEF IsLoading, OwnInv
  <2> QED
    BY <2>1, <2>2, NextHeaderIs, OwnGoesOn DEF GoesOn
<1>5. CASE SectionHeaders
  <2>1. loading # NotLoading
    BY <1>5 DEF SectionHeaders, LoadsSegments
  <2>2. loading.file.entry \in Nat
    <3>1. AddressSpace \in Nat
      BY MemoryAssumption DEF AddressSpace
    <3>2. loading.file \in Files
      BY <2>1, EveryoneIs DEF IsLoading, OwnInv, Unfinished
    <3> QED
      BY <3>1, <3>2, FilesAssumption
  <2>3. CASE \E why : Stop(why)
    BY <2>3, StopOwn
  <2>4. CASE Created(loading.file.entry) /\ UNCHANGED s_allocations
    BY <2>1, <2>2, <2>4, OwnGoesOn DEF GoesOn
  <2> QED
    BY <1>5, <2>3, <2>4, SectionHeadersIs
<1> QED
  BY <1>1, <1>2, <1>3, <1>4, <1>5, NewProcessOwn, LoadPageOwn, MapKernelOwn
     DEF Next, Halted

(* If all programs lie below the kernel after a step, they did before.     *)
LEMMA WereBelow ==
  ASSUME FilesStay, AllBelowKernel'
  PROVE  AllBelowKernel
BY Zenon DEF FilesStay, AllBelowKernel

-----------------------------------------------------------------------------
(* What it is for.                                                         *)

(* The owners, and while all programs lie below the kernel, their memory.  *)
MemCorrect == OwnInv /\ (AllBelowKernel => MemInv)

(* The invariant says who owns each page.                                  *)
LEMMA InvOwners == MemCorrect => PagesHaveOneOwner
<1>1. ASSUME OwnInv PROVE OwnersAreDistinct
  BY <1>1 DEF OwnInv, Counted, Disjoint, OwnersAreDistinct
<1>2. ASSUME MemInv PROVE KernelLeadsToNone
  <2> SUFFICES ASSUME NEW s \in Slots, NEW k \in DOMAIN Everyone,
                      Present(ram[KernelTable][s]),
                      ram[KernelTable][s][1] \in Owned(Everyone[k]),
                      ~(s = HeapEnd /\ ram[KernelTable][s][1] = 0)
               PROVE  FALSE
    BY DEF KernelLeadsToNone
  <2>1. ram[KernelTable][s][1] \in Pages
    BY <1>2, EveryoneType DEF MemInv, MemType
  <2>2. ram[KernelTable][s][1] \in KernelPages
    BY <2>1 DEF KernelPages
  <2> QED
    BY <1>2, <2>2 DEF MemInv, OneUse
<1> QED
  BY <1>1, <1>2, Zenon DEF MemCorrect, PagesHaveOneOwner

(* The invariant says where each directory leads.                          *)
LEMMA InvReach == MemCorrect => ReachesOwnPagesOnly
<1> SUFFICES ASSUME MemInv, NEW k \in DOMAIN Everyone
             PROVE  /\ ram[Everyone[k].base][KernelDir] = KernelEntry
                    /\ \A table \in {ram[Everyone[k].base][d] : d \in UserDirs} \ {Zero} :
                         /\ Present(table) /\ table[1] \in Mine(Everyone[k])
                         /\ \A s \in Slots :
                              LET word == ram[table[1]][s]
                              IN word = Zero \/ ( /\ Present(word)
                                                 /\ word[1] \in Mine(Everyone[k]) \ {table[1]})
  BY Zenon DEF ReachesOwnPagesOnly, UserDirs, Mine, MemCorrect
<1>1. Tidy(ram, Everyone[k].base, Mine(Everyone[k]))
  BY DEF MemInv
<1> QED
  BY <1>1 DEF Tidy

(* The processes' pages have one owner each in every behaviour of Memory,  *)
(* and their tables are in order while all programs lie below the kernel.  *)
THEOREM MemoryCorrect == Spec => []MemCorrect
<1>1. Init => MemCorrect
  BY MemInit, OwnInit DEF MemCorrect
<1>2. MemCorrect /\ [Next]_vars => MemCorrect'
  BY MemStep, OwnStep, WereBelow DEF MemCorrect
<1> QED
  BY <1>1, <1>2, PTL DEF Spec

-----------------------------------------------------------------------------
(* Addresses and the pages they are on.                                    *)

(* What division is.                                                       *)
LEMMA Division ==
  ASSUME NEW n \in Nat, NEW d \in Nat \ {0}
  PROVE  /\ n \div d \in Nat /\ n % d \in 0..(d - 1)
         /\ n = d * (n \div d) + (n % d)
<1> DEFINE q == n \div d
           r == n % d
<1>1. q \in Nat /\ r \in 0..(d - 1) /\ n = d * q + r
  OBVIOUS
<1> QED
  BY <1>1

(* The numbers of a page and of a word in it are those of the address.     *)
LEMMA PageDigits ==
  ASSUME NEW v \in Nat
  PROVE  /\ v \div PageSize \in Nat /\ v % PageSize \in 0..(PageSize - 1)
         /\ v = PageSize * (v \div PageSize) + (v % PageSize)
<1>1. PageSize \in Nat \ {0}
  BY MemoryAssumption
<1> QED
  BY <1>1, Division

(* A number is written in one way with a given base.                       *)
LEMMA SameDigits ==
  ASSUME NEW n \in Nat \ {0}, NEW p \in Nat, NEW q \in Nat,
         NEW a \in 0..(n - 1), NEW b \in 0..(n - 1), n * p + a = n * q + b
  PROVE  p = q /\ a = b
<1>1. ASSUME NEW x \in Nat, NEW y \in Nat, NEW c \in 0..(n - 1), NEW d \in 0..(n - 1),
             n * x + c = n * y + d, x < y
      PROVE  FALSE
  <2>1. PICK k \in Nat : y = x + 1 + k
    BY <1>1
  <2>2. n * y = n * x + n + n * k
    BY <2>1
  <2>3. n * k \in Nat /\ n * x \in Nat
    OBVIOUS
  <2> QED
    BY <1>1, <2>2, <2>3
<1>2. p = q
  BY <1>1
<1> QED
  BY <1>2

(* A sum of three digits, written as one of two.                           *)
LEMMA Regrouped ==
  ASSUME NEW n \in Nat, NEW p \in Nat, NEW q \in Nat, NEW r \in Nat
  PROVE  (n * n) * p + (n * q + r) = n * (n * p + q) + r /\ n * p + q \in Nat
OBVIOUS

(* What the processor divides an address into.                             *)
LEMMA NumberOfPage ==
  ASSUME NEW v \in Nat
  PROVE  v \div PageSize = PageSize * DirIndex(v) + TableIndex(v)
<1> DEFINE square == PageSize * PageSize
           rest == v % square
<1>1. PageSize \in Nat \ {0} /\ square \in Nat \ {0}
  BY MemoryAssumption
<1>2. /\ v \div square \in Nat /\ rest \in 0..(square - 1)
      /\ v = square * (v \div square) + rest
  <2> HIDE DEF square
  <2> QED
    BY <1>1, Division
<1>3. /\ rest \div PageSize \in Nat /\ rest % PageSize \in 0..(PageSize - 1)
      /\ rest = PageSize * (rest \div PageSize) + (rest % PageSize)
  <2>1. rest \in Nat
    BY <1>2, <1>1
  <2> HIDE DEF rest
  <2> QED
    BY <1>1, <2>1, Division
<1>4. DirIndex(v) = v \div square /\ TableIndex(v) = rest \div PageSize
  BY DEF DirIndex, TableIndex
<1> HIDE DEF rest
<1> DEFINE d == DirIndex(v)
           t == TableIndex(v)
           number == PageSize * d + t
<1>5. d \in Nat /\ t \in Nat /\ number \in Nat /\ v = PageSize * number + (rest % PageSize)
  <2>1. d \in Nat /\ t \in Nat
    BY <1>2, <1>3, <1>4
  <2>2. v = square * d + (PageSize * t + (rest % PageSize))
    BY <1>2, <1>3, <1>4
  <2>3. rest % PageSize \in Nat
    BY <1>1, <1>3
  <2> HIDE DEF d, t
  <2> QED
    BY <1>1, <2>1, <2>2, <2>3, Regrouped
<1> HIDE DEF number
<1>6. v \div PageSize = number
  <2> DEFINE r == rest % PageSize
             p == v \div PageSize
             a == v % PageSize
  <2>1. v = PageSize * p + a /\ p \in Nat /\ a \in 0..(PageSize - 1)
    BY PageDigits
  <2>2. v = PageSize * number + r /\ number \in Nat /\ r \in 0..(PageSize - 1)
    BY <1>3, <1>5
  <2> HIDE DEF r, p, a
  <2> QED
    BY <1>1, <2>1, <2>2, SameDigits DEF p
<1> QED
  BY <1>6 DEF number

(* Two addresses have the same entries if and only if they are on one page. *)
LEMMA OnePage ==
  ASSUME NEW v \in Nat, NEW w \in Nat
  PROVE  /\ (DirIndex(v) = DirIndex(w) /\ TableIndex(v) = TableIndex(w))
              <=> v \div PageSize = w \div PageSize
         /\ v \div PageSize = w \div PageSize => v - w = (v % PageSize) - (w % PageSize)
         /\ v \div PageSize = w \div PageSize /\ v % PageSize = w % PageSize => v = w
<1>1. /\ PageSize \in Nat \ {0}
      /\ DirIndex(v) \in Nat /\ DirIndex(w) \in Nat
      /\ TableIndex(v) \in 0..(PageSize - 1) /\ TableIndex(w) \in 0..(PageSize - 1)
  BY MemoryAssumption, IndicesInRange DEF Slots
<1>2. /\ v \div PageSize = PageSize * DirIndex(v) + TableIndex(v)
      /\ w \div PageSize = PageSize * DirIndex(w) + TableIndex(w)
  BY NumberOfPage
<1>3. (DirIndex(v) = DirIndex(w) /\ TableIndex(v) = TableIndex(w))
        <=> v \div PageSize = w \div PageSize
  <2>1. v \div PageSize = w \div PageSize =>
          DirIndex(v) = DirIndex(w) /\ TableIndex(v) = TableIndex(w)
    BY <1>1, <1>2, SameDigits
  <2>2. DirIndex(v) = DirIndex(w) /\ TableIndex(v) = TableIndex(w) =>
          v \div PageSize = w \div PageSize
    BY <1>2
  <2> QED
    BY <2>1, <2>2
<1> DEFINE p == v \div PageSize
           q == w \div PageSize
           a == v % PageSize
           b == w % PageSize
<1>4. /\ v = PageSize * p + a /\ w = PageSize * q + b
      /\ p \in Nat /\ q \in Nat /\ a \in Nat /\ b \in Nat
  BY <1>1, PageDigits
<1> HIDE DEF p, q, a, b
<1>5. p = q => v - w = a - b
  <2>1. PageSize * p \in Nat
    BY <1>1, <1>4
  <2> QED
    BY <1>4, <2>1
<1>6. p = q /\ a = b => v = w
  BY <1>4
<1> QED
  BY <1>3, <1>5, <1>6 DEF p, q, a, b

(* An address in front of the beginning of a page is on an earlier one.    *)
LEMMA PagesInOrder ==
  ASSUME NEW v \in Nat, NEW w \in Nat
  PROVE  /\ v <= w => v \div PageSize <= w \div PageSize
         /\ v < w /\ w % PageSize = 0 => v \div PageSize < w \div PageSize
         /\ LET next == w + (PageSize - (w % PageSize))
            IN /\ next \in Nat /\ next > w /\ next % PageSize = 0
               /\ next \div PageSize = w \div PageSize + 1
<1> DEFINE p == v \div PageSize
           q == w \div PageSize
           a == v % PageSize
           b == w % PageSize
           next == w + (PageSize - b)
<1>1. /\ v = PageSize * p + a /\ w = PageSize * q + b
      /\ p \in Nat /\ q \in Nat /\ a \in 0..(PageSize - 1) /\ b \in 0..(PageSize - 1)
      /\ PageSize \in Nat \ {0}
  BY MemoryAssumption, PageDigits
<1> HIDE DEF p, q, a, b
<1>2. ASSUME p > q PROVE v >= w + (PageSize - b)
  <2>1. PICK k \in Nat : p = q + 1 + k
    BY <1>1, <1>2
  <2>2. PageSize * p = PageSize * q + PageSize + PageSize * k /\ PageSize * k \in Nat
    BY <1>1, <2>1
  <2>3. PageSize * q \in Nat
    BY <1>1
  <2> QED
    BY <1>1, <2>2, <2>3
<1>3. v <= w => p <= q
  BY <1>1, <1>2
<1>4. v < w /\ b = 0 => p < q
  <2>1. p = q /\ b = 0 => v >= w
    BY <1>1
  <2> QED
    BY <1>1, <1>3, <2>1
<1>5. next \in Nat /\ next > w /\ next = PageSize * (q + 1) + 0
  BY <1>1
<1>6. next % PageSize = 0 /\ next \div PageSize = q + 1
  <2> HIDE DEF next
  <2>1. /\ next = PageSize * (next \div PageSize) + (next % PageSize)
        /\ next \div PageSize \in Nat /\ next % PageSize \in 0..(PageSize - 1)
    BY <1>5, PageDigits
  <2>2. 0 \in 0..(PageSize - 1) /\ q + 1 \in Nat
    BY <1>1
  <2> QED
    BY <1>1, <1>5, <2>1, <2>2, SameDigits
<1> QED
  BY <1>3, <1>4, <1>5, <1>6 DEF p, q, b

-----------------------------------------------------------------------------
(* The pages of a segment.                                                 *)

(* The loop over the pages of g is at an address, with so many pages left. *)
InLoop(g, at, left) ==
  /\ at = g.vaddr \/ (at > g.vaddr /\ at % PageSize = 0)
  /\ left + PageNumber(at) = DivideCeil(g.memsz, PageSize) + PageNumber(g.vaddr)

(* While pages are left it is on one of those that the loader counts, and  *)
(* then it has passed them all.                                            *)
LEMMA LoopReaches ==
  ASSUME NEW g \in SegmentHeader, NEW at \in Nat, NEW left \in Nat, InLoop(g, at, left)
  PROVE  /\ PageNumber(at) \in Nat
         /\ left > 0 => PageNumber(at) \in PagesOf(g)
         /\ left = 0 => \A q \in PagesOf(g) : q < PageNumber(at)
<1> DEFINE first == PageNumber(g.vaddr)
           count == DivideCeil(g.memsz, PageSize)
           page  == PageNumber(at)
<1>1. g.vaddr \in Nat /\ first \in Nat /\ count \in Nat
  BY PagesCounted
<1>2. page \in Nat /\ first <= page
  <2>1. g.vaddr <= at
    BY <1>1 DEF InLoop
  <2> QED
    BY <1>1, <2>1, PagesInOrder, PageDigits DEF PageNumber
<1>3. left + page = count + first
  BY DEF InLoop
<1>4. PagesOf(g) = first..(first + count - 1)
  BY DEF PagesOf
<1> HIDE DEF first, count, page
<1>5. left > 0 => page \in first..(first + count - 1)
  BY <1>1, <1>2, <1>3
<1>6. left = 0 => \A q \in first..(first + count - 1) : q < page
  BY <1>1, <1>2, <1>3
<1> QED
  BY <1>2, <1>4, <1>5, <1>6 DEF page

-----------------------------------------------------------------------------
(* What a program sees.                                                    *)

UserEnd == KernelDir * PageSize * PageSize

(* At an address of the program's part there is a word, which it may or    *)
(* may not change.                                                         *)
Shows(m, base, v, word, write) ==
  /\ v < UserEnd
  /\ Read(m, base, v) = word
  /\ Writable(m, base, v) = write

(* The same, and its page is mapped.                                       *)
Holds(m, base, v, word, write) ==
  Present(Walk(m, base, v)) /\ Shows(m, base, v, word, write)

(* No table is two entries' of the directory, and no page two entries' of  *)
(* the tables.                                                             *)
Separate(m, base) ==
  /\ \A d, e \in UserDirs :
       m[base][d] # Zero /\ m[base][e] # Zero /\ d # e => m[base][d][1] # m[base][e][1]
  /\ \A d, e \in UserDirs, s, t \in Slots :
       LET word == m[m[base][d][1]][s]
           other == m[m[base][e][1]][t]
       IN /\ m[base][d] # Zero /\ m[base][e] # Zero
          /\ word # Zero /\ other # Zero /\ ~(d = e /\ s = t)
          => word[1] # other[1]

(* Where the processor looks for an address of the program's part.         *)
LEMMA WalkIs ==
  ASSUME NEW m, NEW base \in Pages, NEW v \in Nat, v < UserEnd
  PROVE  /\ DirIndex(v) \in UserDirs /\ TableIndex(v) \in Slots /\ v % PageSize \in Slots
         /\ Walk(m, base, v) = IF Present(m[base][DirIndex(v)])
                               THEN m[m[base][DirIndex(v)][1]][TableIndex(v)] ELSE Zero
<1>1. /\ KernelDir \in Nat /\ KernelDir < PageSize /\ PageSize \in Nat /\ base # Boot
  BY MemoryAssumption DEF Pages, Boot
<1>2. DirIndex(v) \in 0..(KernelDir - 1)
  BY <1>1, IndicesInRange DEF UserEnd
<1>3. DirIndex(v) \in UserDirs
  BY <1>1, <1>2 DEF UserDirs, Slots
<1>4. Walk(m, base, v) = IF Present(m[base][DirIndex(v)])
                         THEN m[m[base][DirIndex(v)][1]][TableIndex(v)] ELSE Zero
  BY <1>1, Zenon DEF Walk
<1> QED
  BY <1>3, <1>4, IndicesInRange

(* m is a process's memory, and n what it becomes when a page that was free *)
(* is mapped, in a table that was there or is a free page.                 *)
Grown(m, n, base, mine, d, t, table, page) ==
  /\ IsMemory(m) /\ base \in Pages /\ mine \in SUBSET Pages /\ base \notin mine
  /\ Tidy(m, base, mine)
  /\ d \in UserDirs /\ t \in Slots
  /\ table \in Pages /\ page \in Pages /\ page \notin mine
  /\ m[base][d] # Zero => m[base][d][1] = table
  /\ m[base][d] = Zero => table \notin mine /\ \A s \in Slots : m[table][s] = Zero
  /\ MappedAt(m, n, base, d, t, table, page)

(* The entries that were there are there still.                            *)
LEMMA GrownEntries ==
  ASSUME NEW m, NEW n, NEW base, NEW mine, NEW d, NEW t, NEW table, NEW page,
         Grown(m, n, base, mine, d, t, table, page), Separate(m, base),
         NEW e \in UserDirs, e # d, n[base][e] # Zero
  PROVE  /\ n[base][e] = m[base][e] /\ m[base][e] # Zero
         /\ m[base][e][1] \in mine /\ m[base][e][1] # table
         /\ n[m[base][e][1]] = m[m[base][e][1]]
<1> USE DEF Grown
<1>1. n[base][e] = m[base][e] /\ m[base][e] # Zero
  BY DEF MappedAt, UserDirs
<1>2. m[base][e][1] \in mine
  BY <1>1 DEF Tidy
<1>3. m[base][e][1] # table
  <2>1. CASE m[base][d] = Zero
    BY <1>2, <2>1
  <2>2. CASE m[base][d] # Zero
    BY <1>1, <2>2 DEF Separate
  <2> QED
    BY <2>1, <2>2
<1>4. m[base][e][1] # page /\ m[base][e][1] # base /\ m[base][e][1] \in Pages
  BY <1>2
<1> QED
  BY <1>1, <1>2, <1>3, <1>4 DEF MappedAt

LEMMA GrownWord ==
  ASSUME NEW m, NEW n, NEW base, NEW mine, NEW d, NEW t, NEW table, NEW page,
         Grown(m, n, base, mine, d, t, table, page), Separate(m, base),
         NEW e \in UserDirs, NEW s \in Slots, NEW word, word = n[n[base][e][1]][s],
         n[base][e] # Zero, word # Zero, ~(e = d /\ s = t)
  PROVE  m[base][e] # Zero /\ m[m[base][e][1]][s] = word /\ word[1] \in mine
<1>1. m[base][e] # Zero /\ m[base][e][1] = n[base][e][1] /\ m[m[base][e][1]][s] = word
  <2>1. CASE e # d
    BY <2>1, GrownEntries
  <2>2. CASE e = d
    <3>1. s # t
      BY <2>2
    <3>2. n[base][e][1] = table /\ n[table][s] = m[table][s]
      BY <2>2, <3>1 DEF Grown, MappedAt
    <3>3. m[base][d] # Zero /\ m[base][d][1] = table
      BY <3>2 DEF Grown
    <3> QED
      BY <2>2, <3>2, <3>3
  <2> QED
    BY <2>1, <2>2
<1>2. Tidy(m, base, mine)
  BY DEF Grown
<1> QED
  BY <1>1, <1>2, TidyEntry

(* Two entries of tables lead to two pages.                                *)
LEMMA SeparateWords ==
  ASSUME NEW m, NEW base, Separate(m, base),
         NEW e \in UserDirs, NEW f \in UserDirs, NEW s \in Slots, NEW u \in Slots,
         NEW word, word = m[m[base][e][1]][s], NEW other, other = m[m[base][f][1]][u],
         m[base][e] # Zero, m[base][f] # Zero, word # Zero, other # Zero, ~(e = f /\ s = u)
  PROVE  word[1] # other[1]
BY Zenon DEF Separate

(* The new table and the new page are nobody else's.                       *)
LEMMA SeparateGrows ==
  ASSUME NEW m, NEW n, NEW base, NEW mine, NEW d, NEW t, NEW table, NEW page,
         Grown(m, n, base, mine, d, t, table, page), Separate(m, base)
  PROVE  Separate(n, base)
<1>1. ASSUME NEW e \in UserDirs, NEW f \in UserDirs, n[base][e] # Zero, n[base][f] # Zero, e # f
      PROVE  n[base][e][1] # n[base][f][1]
  <2>1. CASE e # d /\ f # d
    <3>1. /\ n[base][e] = m[base][e] /\ m[base][e] # Zero
          /\ n[base][f] = m[base][f] /\ m[base][f] # Zero
      BY <1>1, <2>1, GrownEntries
    <3> QED
      BY <1>1, <3>1 DEF Separate
  <2>2. n[base][d][1] = table
    BY DEF Grown, MappedAt
  <2>3. CASE e = d \/ f = d
    BY <1>1, <2>2, <2>3, GrownEntries
  <2> QED
    BY <2>1, <2>3
<1>2. ASSUME NEW e \in UserDirs, NEW f \in UserDirs, NEW s \in Slots, NEW u \in Slots,
             n[base][e] # Zero, n[base][f] # Zero,
             n[n[base][e][1]][s] # Zero, n[n[base][f][1]][u] # Zero, ~(e = f /\ s = u)
      PROVE  n[n[base][e][1]][s][1] # n[n[base][f][1]][u][1]
  <2> DEFINE word == n[n[base][e][1]][s]
             other == n[n[base][f][1]][u]
  <2>0. /\ word = n[n[base][e][1]][s] /\ other = n[n[base][f][1]][u]
        /\ word # Zero /\ other # Zero
    BY <1>2
  <2> HIDE DEF word, other
  <2>1. CASE ~(e = d /\ s = t) /\ ~(f = d /\ u = t)
    <3>1. m[base][e] # Zero /\ m[m[base][e][1]][s] = word
      BY <1>2, <2>0, <2>1, GrownWord
    <3>2. m[base][f] # Zero /\ m[m[base][f][1]][u] = other
      BY <1>2, <2>0, <2>1, GrownWord
    <3>3. word[1] # other[1]
      <4>1. word = m[m[base][e][1]][s] /\ other = m[m[base][f][1]][u]
        BY <3>1, <3>2
      <4> QED
        BY <1>2, <2>0, <3>1, <3>2, <4>1, SeparateWords
    <3> QED
      BY <3>3 DEF word, other
  <2>2. n[n[base][d][1]][t][1] = page /\ page \notin mine
    BY DEF Grown, MappedAt
  <2>3. CASE e = d /\ s = t
    <3>1. other[1] \in mine
      BY <1>2, <2>0, <2>3, GrownWord
    <3> QED
      BY <2>2, <2>3, <3>1 DEF word, other
  <2>4. CASE f = d /\ u = t
    <3>1. word[1] \in mine
      BY <1>2, <2>0, <2>4, GrownWord
    <3> QED
      BY <2>2, <2>4, <3>1 DEF word, other
  <2> QED
    BY <2>1, <2>3, <2>4
<1> QED
  BY <1>1, <1>2 DEF Separate

(* What an address holds, in terms of the entries that lead there.         *)
Leads(m, base, e, s, at, word, write) ==
  LET entry == m[m[base][e][1]][s]
  IN  /\ Present(m[base][e]) /\ Present(entry)
      /\ m[entry[1]][at] = word /\ entry[2] = write

LEMMA HoldsLeads ==
  ASSUME NEW m, NEW base \in Pages, NEW v \in Nat, v < UserEnd, NEW word, NEW write
  PROVE  Holds(m, base, v, word, write) <=>
           Leads(m, base, DirIndex(v), TableIndex(v), v % PageSize, word, write)
<1> DEFINE e == DirIndex(v)
           s == TableIndex(v)
           entry == m[m[base][e][1]][s]
           there == /\ Present(m[base][e]) /\ Present(entry)
                    /\ m[entry[1]][v % PageSize] = word
                    /\ entry[2] = write
<1>1. Walk(m, base, v) = IF Present(m[base][e]) THEN entry ELSE Zero
  BY WalkIs
<1>2. Leads(m, base, e, s, v % PageSize, word, write) <=> there
  BY Zenon DEF Leads
<1> HIDE DEF e, s, entry
<1>3. CASE Present(m[base][e])
  <2>1. Walk(m, base, v) = entry
    BY <1>1, <1>3
  <2>2. CASE Present(entry)
    <3>1. Read(m, base, v) = m[entry[1]][v % PageSize] /\ Writable(m, base, v) = entry[2]
      BY <2>1, <2>2, Zenon DEF Read, Writable
    <3>2. Holds(m, base, v, word, write) <=> there
      BY <1>3, <2>1, <2>2, <3>1, Zenon DEF Holds, Shows
    <3> QED
      BY <1>2, <3>2, Zenon DEF e, s
  <2>3. CASE ~Present(entry)
    <3>1. ~Holds(m, base, v, word, write)
      BY <2>1, <2>3, Zenon DEF Holds
    <3> QED
      BY <1>2, <2>3, <3>1, Zenon DEF e, s
  <2> QED
    BY <2>2, <2>3
<1>4. CASE ~Present(m[base][e])
  <2>1. ~Present(Walk(m, base, v))
    BY <1>1, <1>4, EntryFacts
  <2>2. ~Holds(m, base, v, word, write)
    BY <2>1, Zenon DEF Holds
  <2> QED
    BY <1>2, <1>4, <2>2, Zenon DEF e, s
<1> QED
  BY <1>3, <1>4

(* Mapping another page changes nothing that is there.                     *)
LEMMA HoldsGrows ==
  ASSUME NEW m, NEW n, NEW base, NEW mine, NEW d, NEW t, NEW table, NEW page,
         Grown(m, n, base, mine, d, t, table, page), Separate(m, base),
         NEW v \in Nat, ~(DirIndex(v) = d /\ TableIndex(v) = t),
         NEW word, NEW write, Holds(m, base, v, word, write)
  PROVE  Holds(n, base, v, word, write)
<1> DEFINE e == DirIndex(v)
           s == TableIndex(v)
           entry == m[m[base][e][1]][s]
<1>1. v < UserEnd /\ base \in Pages
  BY DEF Holds, Shows, Grown
<1>2. e \in UserDirs /\ s \in Slots
  BY <1>1, WalkIs
<1>3. /\ Present(m[base][e]) /\ Present(entry)
      /\ m[entry[1]][v % PageSize] = word /\ entry[2] = write
  <2>1. Leads(m, base, DirIndex(v), TableIndex(v), v % PageSize, word, write)
    BY <1>1, HoldsLeads, Zenon
  <2> QED
    BY <2>1, Zenon DEF Leads
<1>4. m[base][e] # Zero /\ entry # Zero
  BY <1>3, EntryFacts
<1> HIDE DEF e, s
<1>5. /\ m[base][e][1] \in mine /\ entry[1] \in mine
      /\ \A f \in UserDirs : m[base][f] # Zero => entry[1] # m[base][f][1]
  BY <1>2, <1>4, TidyWord DEF Grown
<1>6. /\ d \in UserDirs /\ base \notin mine /\ page \notin mine /\ mine \in SUBSET Pages
      /\ m[base][d] # Zero => m[base][d][1] = table
      /\ m[base][d] = Zero => table \notin mine
      /\ MappedAt(m, n, base, d, t, table, page)
  BY DEF Grown
<1>7. Present(n[base][e]) /\ n[base][e][1] = m[base][e][1]
  <2>1. CASE e = d
    BY <1>4, <1>6, <2>1 DEF MappedAt
  <2>2. CASE e # d
    <3>1. n[base][e] = m[base][e]
      BY <1>2, <1>6, <2>2 DEF MappedAt, UserDirs
    <3> QED
      BY <1>3, <3>1
  <2> QED
    BY <2>1, <2>2
<1>8. n[m[base][e][1]][s] = entry
  <2>1. CASE e = d
    <3>1. s # t /\ m[base][e][1] = table
      BY <1>4, <1>6, <2>1 DEF e, s
    <3> QED
      BY <1>2, <1>6, <3>1 DEF MappedAt
  <2>2. CASE e # d
    <3>1. m[base][e][1] # table
      <4>1. CASE m[base][d] = Zero
        BY <1>5, <1>6, <4>1
      <4>2. CASE m[base][d] # Zero
        BY <1>2, <1>4, <1>6, <2>2, <4>2 DEF Separate
      <4> QED
        BY <4>1, <4>2
    <3>2. m[base][e][1] \in Pages /\ m[base][e][1] \notin {base, table, page}
      BY <1>5, <1>6, <3>1
    <3> QED
      BY <1>6, <3>2 DEF MappedAt
  <2> QED
    BY <2>1, <2>2
<1>9. n[entry[1]] = m[entry[1]]
  <2>1. entry[1] \in Pages /\ entry[1] \notin {base, table, page}
    BY <1>5, <1>6
  <2> HIDE DEF entry
  <2> QED
    BY <1>6, <2>1 DEF MappedAt
<1> DEFINE after == n[n[base][e][1]][s]
<1>10. after = entry
  BY <1>7, <1>8
<1>11. /\ Present(n[base][e]) /\ Present(after)
       /\ n[after[1]][v % PageSize] = word /\ after[2] = write
  BY <1>3, <1>7, <1>9, <1>10
<1>12. Leads(n, base, e, s, v % PageSize, word, write)
  BY <1>11, Zenon DEF Leads
<1>13. e = DirIndex(v) /\ s = TableIndex(v)
  BY DEF e, s
<1> HIDE DEF e, s
<1> QED
  BY <1>1, <1>12, <1>13, HoldsLeads, Zenon

(* The addresses on the new page hold what was stored there.               *)
LEMMA HoldsNew ==
  ASSUME NEW m, NEW n, NEW base \in Pages, NEW d, NEW t, NEW table, NEW page,
         MappedAt(m, n, base, d, t, table, page),
         NEW write \in BOOLEAN,
         n[table][t] = IF write THEN ReadWrite(page) ELSE ReadOnly(page),
         NEW v \in Nat, v < UserEnd, DirIndex(v) = d, TableIndex(v) = t
  PROVE  Holds(n, base, v, n[page][v % PageSize], write)
<1> DEFINE entry == n[n[base][d][1]][t]
<1>1. Present(n[base][d]) /\ n[base][d][1] = table
  BY DEF MappedAt
<1>2. Present(entry) /\ entry[1] = page /\ entry[2] = write
  <2>1. CASE write
    <3>1. entry = ReadWrite(page)
      BY <1>1, <2>1
    <3>2. ReadWrite(page)[2] = TRUE
      BY DEF ReadWrite, Entry
    <3>3. write = TRUE
      BY <2>1
    <3> QED
      BY <3>1, <3>2, <3>3, EntryFacts
  <2>2. CASE ~write
    <3>1. entry = ReadOnly(page)
      BY <1>1, <2>2
    <3>2. ReadOnly(page)[2] = FALSE
      BY DEF ReadOnly, Entry
    <3>3. write = FALSE
      BY <2>2
    <3> QED
      BY <3>1, <3>2, <3>3, EntryFacts
  <2> QED
    BY <2>1, <2>2
<1> HIDE DEF entry
<1>3. n[entry[1]][v % PageSize] = n[page][v % PageSize]
  BY <1>2
<1>4. Leads(n, base, d, t, v % PageSize, n[page][v % PageSize], write)
  BY <1>1, <1>2, <1>3, Zenon DEF Leads, entry
<1> QED
  BY <1>4, HoldsLeads, Zenon

(* Clearing addresses clears these, and nothing else that can be seen.     *)
LEMMA HoldsZeroed ==
  ASSUME NEW m, IsMemory(m), NEW mine \in SUBSET Pages, NEW base \in Pages, base \notin mine,
         Tidy(m, base, mine), Separate(m, base),
         NEW file \in Files, \A w \in Bss(file) : Writable(m, base, w),
         Bss(file) \subseteq UserAddresses,
         NEW n, n = Zeroed(m, base, Bss(file)),
         NEW v \in Nat, NEW word, NEW write, Holds(m, base, v, word, write)
  PROVE  Holds(n, base, v, IF v \in Bss(file) THEN Zero ELSE word, write)
<1> DEFINE bss == Bss(file)
           e == DirIndex(v)
           s == TableIndex(v)
           entry == m[m[base][e][1]][s]
           at == v % PageSize
           Lead(w) == Walk(m, base, w)
<1>1. v < UserEnd
  BY DEF Holds, Shows
<1>2. e \in UserDirs /\ s \in Slots /\ at \in Slots
  BY <1>1, WalkIs
<1>3. /\ Present(m[base][e]) /\ Present(entry)
      /\ m[entry[1]][at] = word /\ entry[2] = write
  <2>1. Leads(m, base, DirIndex(v), TableIndex(v), v % PageSize, word, write)
    BY <1>1, HoldsLeads, Zenon
  <2> QED
    BY <2>1, Zenon DEF Leads
<1>4. m[base][e] # Zero /\ entry # Zero
  BY <1>3, EntryFacts
<1>5. Lead(v) = entry
  <2>1. Lead(v) = IF Present(m[base][e]) THEN entry ELSE Zero
    BY <1>1, WalkIs
  <2> QED
    BY <1>3, <2>1
<1>6. ASSUME NEW w \in bss
      PROVE  /\ Lead(w)[1] \in mine
             /\ \A f \in UserDirs : m[base][f] # Zero => Lead(w)[1] # m[base][f][1]
             /\ w \in Nat /\ DirIndex(w) \in UserDirs /\ TableIndex(w) \in Slots
             /\ m[base][DirIndex(w)] # Zero /\ Lead(w) # Zero
             /\ Lead(w) = m[m[base][DirIndex(w)][1]][TableIndex(w)]
  <2>1. w \in UserAddresses /\ Writable(m, base, w)
    BY <1>6
  <2> QED
    BY <2>1, ZeroedIsMine
<1>7. n = [p \in Frames |-> [u \in Slots |->
             IF \E w \in bss : w % PageSize = u /\ Lead(w)[1] = p THEN Zero ELSE m[p][u]]]
  BY Zenon DEF Zeroed
<1>8. /\ m[base][e][1] \in mine /\ entry[1] \in mine
      /\ base \in Frames /\ m[base][e][1] \in Frames /\ entry[1] \in Frames
  <2> HIDE DEF e, s
  <2>1. m[base][e][1] \in mine /\ entry[1] \in mine
    BY <1>2, <1>4, TidyWord
  <2> HIDE DEF entry
  <2> QED
    BY <2>1, KernelTableApart
<1>9. \A w \in bss : w % PageSize = at /\ Lead(w)[1] = entry[1] => w = v
  <2> SUFFICES ASSUME NEW w \in bss, w % PageSize = at, Lead(w)[1] = entry[1]
               PROVE  w = v
    OBVIOUS
  <2> DEFINE f == DirIndex(w)
             u == TableIndex(w)
             other == m[m[base][f][1]][u]
  <2>1. /\ w \in Nat /\ f \in UserDirs /\ u \in Slots /\ m[base][f] # Zero
        /\ other # Zero /\ Lead(w) = other
    BY <1>6
  <2>2. other[1] = entry[1]
    BY <2>1
  <2>3. f = e /\ u = s
    <3>0. other = m[m[base][f][1]][u] /\ entry = m[m[base][e][1]][s]
      OBVIOUS
    <3> HIDE DEF e, s, f, u, other, entry
    <3>1. ~(f = e /\ u = s) => other[1] # entry[1]
      BY <1>2, <1>4, <2>1, <3>0, SeparateWords
    <3> QED
      BY <2>2, <3>1
  <2>4. v \div PageSize = w \div PageSize
    BY <2>1, <2>3, OnePage
  <2> QED
    BY <2>1, <2>4, OnePage
<1> HIDE DEF bss, e, s, entry, at, Lead
<1>10. \A p \in Frames : (\A w \in bss : Lead(w)[1] # p) =>
         \A u \in Slots : n[p][u] = m[p][u]
  BY <1>7
<1>11. n[base][e] = m[base][e]
  <2>1. e \in Slots
    BY <1>2 DEF UserDirs
  <2> QED
    BY <1>6, <1>8, <1>10, <2>1
<1>12. n[m[base][e][1]][s] = entry
  <2>1. \A w \in bss : Lead(w)[1] # m[base][e][1]
    BY <1>2, <1>4, <1>6
  <2> QED
    BY <1>2, <1>8, <1>10, <2>1 DEF entry
<1>13. n[entry[1]][at] = IF \E w \in bss : w % PageSize = at /\ Lead(w)[1] = entry[1]
                         THEN Zero ELSE m[entry[1]][at]
  BY <1>2, <1>7, <1>8
<1>14. n[entry[1]][at] = IF v \in bss THEN Zero ELSE word
  <2>1. v \in bss => v % PageSize = at /\ Lead(v)[1] = entry[1]
    BY <1>5 DEF at
  <2> QED
    BY <1>3, <1>9, <1>13, <2>1
<1> DEFINE after == n[n[base][e][1]][s]
<1>15. after = entry
  BY <1>11, <1>12
<1>16. /\ Present(n[base][e]) /\ Present(after)
       /\ n[after[1]][v % PageSize] = (IF v \in bss THEN Zero ELSE word)
       /\ after[2] = write
  BY <1>3, <1>11, <1>14, <1>15 DEF at
<1> DEFINE value == IF v \in bss THEN Zero ELSE word
<1>17. n[after[1]][v % PageSize] = value
  BY <1>16
<1> HIDE DEF value, after
<1>18. Holds(n, base, v, value, write)
  <2>1. Present(n[base][e]) /\ Present(after) /\ after[2] = write
    BY <1>16
  <2>2. e = DirIndex(v) /\ s = TableIndex(v) /\ after = n[n[base][e][1]][s]
    BY DEF e, s, after
  <2> QED
    <3>1. Leads(n, base, e, s, v % PageSize, value, write)
      BY <1>17, <2>1, <2>2, Zenon DEF Leads
    <3> QED
      BY <1>1, <2>2, <3>1, HoldsLeads, Zenon
<1> QED
  BY <1>18 DEF value, bss

-----------------------------------------------------------------------------
(* The invariant of the loader.                                            *)

(* The word of the file that belongs to an address of a segment, and what  *)
(* the program finds there.                                                *)
WordAt(file, g, v) == Word(file, g.offset + v - g.vaddr)
Final(file, g, v) == IF v \in Bss(file) THEN Zero ELSE WordAt(file, g, v)

(* Where the loop over the pages of a segment is, if it runs.              *)
Cursor(l) ==
  /\ l.left \in Nat \cup {-1}
  /\ l.left # -1 =>
       /\ l.header \in Loads(l.file)
       /\ InLoop(Header(l), l.vaddr, l.left)
       /\ l.source = Header(l).offset + l.vaddr - Header(l).vaddr

(* The loader has mapped the page of an address for segment h, and has not *)
(* mapped another over it.                                                 *)
IsCopied(l, h, v) ==
  /\ PageNumber(v) \in PagesOf(l.file.segments[h])
  /\ \/ h < l.header
     \/ h = l.header /\ l.left # -1 /\ PageNumber(v) < PageNumber(l.vaddr)
IsOnTop(l, h, v) ==
  IsCopied(l, h, v) /\ ~ \E j \in Loads(l.file) : j > h /\ IsCopied(l, j, v)

Copied(m, l) ==
  \A h \in Loads(l.file) : \A v \in Addresses(l.file.segments[h]) :
    IsOnTop(l, h, v) =>
      Holds(m, l.base, v, WordAt(l.file, l.file.segments[h], v), l.file.segments[h].write)

(* While a program is loaded, what was mapped holds the words of the file. *)
LoadedIn(m, l) ==
  /\ Separate(m, l.base)
  /\ Cursor(l)
  /\ Copied(m, l)

(* When it is complete, the program finds what it should.                  *)
Finds(m, p, h, v) ==
  Shows(m, p.base, v, Final(p.file, p.file.segments[h], v), p.file.segments[h].write)
CreatedIn(m, p) ==
  p.entry # 0 =>
    \A h \in Loads(p.file) : \A v \in Addresses(p.file.segments[h]) :
      PageNumber(v) \in PagesOf(p.file.segments[h]) /\ ~HiddenByLater(p.file, h, v)
        => Finds(m, p, h, v)

ImageInv ==
  /\ IsLoading => LoadedIn(ram, loading)
  /\ \A k \in DOMAIN processes : CreatedIn(ram, processes[k])

(* The segments of a file, and their addresses.                            *)
LEMMA SegmentsAre ==
  ASSUME NEW file \in Files
  PROVE  /\ file.segments \in Seq(SegmentHeader)
         /\ \A h \in DOMAIN file.segments :
              /\ h \in Nat /\ h >= 1 /\ h <= Len(file.segments)
              /\ file.segments[h] \in SegmentHeader
         /\ \A h \in Loads(file) :
              /\ h \in DOMAIN file.segments
              /\ \A v \in Addresses(file.segments[h]) :
                   v \in Nat /\ v >= file.segments[h].vaddr
<1>1. file.segments \in Seq(SegmentHeader)
  BY FilesAssumption
<1>2. \A h \in DOMAIN file.segments :
        /\ h \in Nat /\ h >= 1 /\ h <= Len(file.segments)
        /\ file.segments[h] \in SegmentHeader
  BY <1>1
<1>3. ASSUME NEW h \in Loads(file)
      PROVE  /\ h \in DOMAIN file.segments
             /\ \A v \in Addresses(file.segments[h]) :
                  v \in Nat /\ v >= file.segments[h].vaddr
  <2>1. h \in DOMAIN file.segments
    BY DEF Loads
  <2>2. file.segments[h].vaddr \in Nat /\ file.segments[h].memsz \in Nat
    BY <1>2, <2>1, PagesCounted
  <2>3. \A v \in Addresses(file.segments[h]) : v \in Nat /\ v >= file.segments[h].vaddr
    BY <2>2 DEF Addresses
  <2> QED
    BY <2>1, <2>3
<1> QED
  BY <1>1, <1>2, <1>3

(* Who sees the same sees the same program.                                *)
LEMMA FindsKept ==
  ASSUME NEW m, NEW n, NEW p, View(n, p) = View(m, p),
         NEW h, NEW v \in Nat, Finds(m, p, h, v)
  PROVE  Finds(n, p, h, v)
<1>1. v \in UserAddresses
  <2>1. KernelDir * PageSize * PageSize \in Nat
    BY MemoryAssumption
  <2>2. v < KernelDir * PageSize * PageSize
    BY DEF Finds, Shows, UserEnd
  <2> QED
    BY <2>1, <2>2 DEF UserAddresses
<1>2. View(n, p)[v] = View(m, p)[v]
  OBVIOUS
<1>3. /\ View(n, p)[v] = <<Read(n, p.base, v), Writable(n, p.base, v)>>
      /\ View(m, p)[v] = <<Read(m, p.base, v), Writable(m, p.base, v)>>
  BY <1>1, Zenon DEF View
<1>4. /\ Read(n, p.base, v) = Read(m, p.base, v)
      /\ Writable(n, p.base, v) = Writable(m, p.base, v)
  BY <1>2, <1>3
<1> QED
  BY <1>4, Zenon DEF Finds, Shows

LEMMA CreatedKept ==
  ASSUME NEW m, NEW n, NEW p \in Process, View(n, p) = View(m, p), CreatedIn(m, p)
  PROVE  CreatedIn(n, p)
<1> SUFFICES ASSUME p.entry # 0, NEW h \in Loads(p.file),
                    NEW v \in Addresses(p.file.segments[h]),
                    PageNumber(v) \in PagesOf(p.file.segments[h]), ~HiddenByLater(p.file, h, v)
             PROVE  Finds(n, p, h, v)
  BY DEF CreatedIn
<1>1. Finds(m, p, h, v)
  BY DEF CreatedIn
<1>2. v \in Nat
  BY SegmentsAre DEF Process
<1> QED
  BY <1>1, <1>2, FindsKept

(* The complete processes still find their programs.                       *)
LEMMA CreatedStay ==
  ASSUME OwnType, ImageInv, ViewsSame, NEW k \in DOMAIN processes
  PROVE  CreatedIn(ram', processes[k])
<1>1. processes[k] \in Process
  BY EveryoneIs
<1>2. View(ram', processes[k]) = View(ram, processes[k])
  BY DEF ViewsSame
<1> QED
  BY <1>1, <1>2, CreatedKept DEF ImageInv

(* Nothing is created, and nothing is written.                             *)
LEMMA SameImage ==
  ASSUME ImageInv, UNCHANGED <<ram, processes, loading>>
  PROVE  ImageInv'
BY DEF ImageInv, IsLoading

(* A process is complete.                                                  *)
LEMMA CreatedImage ==
  ASSUME OwnType, ImageInv, ViewsSame, loading # NotLoading, NEW entry \in Nat, Created(entry),
         CreatedIn(ram', [base |-> loading.base, owned |-> loading.owned,
                          file |-> loading.file, entry |-> entry])
  PROVE  ImageInv'
<1> DEFINE done == [base |-> loading.base, owned |-> loading.owned,
                    file |-> loading.file, entry |-> entry]
           n == Len(processes) + 1
<1>1. processes' = Append(processes, done) /\ loading' = NotLoading
  BY DEF Created
<1>2. done \in Process
  BY EveryoneIs DEF IsLoading, Process, Unfinished
<1>3. processes \in Seq(Process)
  BY DEF OwnType
<1> HIDE DEF done, Process
<1>4. \A k \in DOMAIN processes' : (k \in DOMAIN processes /\ processes'[k] = processes[k])
                                     \/ processes'[k] = done
  BY <1>1, <1>2, <1>3
<1>5. \A k \in DOMAIN processes' : CreatedIn(ram', processes'[k])
  BY <1>4, CreatedStay DEF done
<1> QED
  BY <1>1, <1>5 DEF ImageInv, IsLoading

(* The loader goes on.                                                     *)
LEMMA LoadingImage ==
  ASSUME OwnType, ImageInv, ViewsSame, processes' = processes,
         LoadedIn(ram', loading')
  PROVE  ImageInv'
BY CreatedStay DEF ImageInv

-----------------------------------------------------------------------------
(* Steps.                                                                  *)

(* A new process has no table yet.                                         *)
LEMMA NewProcessImage ==
  ASSUME MemInv, ImageInv, NEW file \in Files, NewProcess(file)
  PROVE  ImageInv'
<1>1. ViewsSame
  BY NewProcessStep
<1>2. CASE Free(s_allocations) = {}
  BY <1>2, SameImage DEF NewProcess, Stop
<1>3. CASE Free(s_allocations) # {}
  <2> DEFINE base == FirstFree(s_allocations)
             begun == [header |-> 1, left |-> -1, file |-> file, base |-> base,
                       owned |-> <<>>, vaddr |-> 0, source |-> 0]
  <2>1. /\ ram' = StorePage(ram, base, KernelDirectory)
        /\ loading' = begun /\ processes' = processes
    BY <1>3 DEF NewProcess, StorePage
  <2>2. base \in Pages
    BY <1>3, Allocated DEF MemInv, MemType, OwnType
  <2> HIDE DEF base
  <2>3. IsPage(KernelDirectory)
    BY DEF KernelDirectory, IsPage
  <2>4. ram'[base] = KernelDirectory
    <3> HIDE DEF KernelDirectory
    <3> QED
      BY <2>1, <2>2, <2>3, PageWritten, KernelTableApart DEF MemInv, MemType
  <2>5. \A d \in UserDirs : ram'[base][d] = Zero
    BY <2>4 DEF KernelDirectory, UserDirs
  <2>6. /\ loading'.base = base /\ loading'.left = -1 /\ loading'.header = 1
        /\ loading'.file = file
    BY <2>1
  <2> HIDE DEF begun
  <2>7. Separate(ram', loading'.base)
    BY <2>5, <2>6 DEF Separate
  <2>8. Cursor(loading')
    BY <2>6 DEF Cursor
  <2>9. \A h \in Loads(file) : \A v : ~IsCopied(loading', h, v)
    BY <2>6, SegmentsAre DEF IsCopied
  <2>10. Copied(ram', loading')
    BY <2>6, <2>9 DEF Copied, IsOnTop
  <2> QED
    BY <1>1, <2>1, <2>7, <2>8, <2>10, LoadingImage DEF LoadedIn, MemInv, MemType
<1> QED
  BY <1>2, <1>3

(* A file that is refused has no entry.                                    *)
LEMMA RefusedImage ==
  ASSUME MemInv, ImageInv, ViewsSame, loading # NotLoading, Created(0)
  PROVE  ImageInv'
<1> DEFINE done == [base |-> loading.base, owned |-> loading.owned,
                    file |-> loading.file, entry |-> 0]
<1>1. done.entry = 0
  OBVIOUS
<1> HIDE DEF done
<1>2. CreatedIn(ram', done)
  BY <1>1, Zenon DEF CreatedIn
<1> QED
  BY <1>2, CreatedImage DEF done, MemInv, MemType

(* The same when the file's header is refused.                             *)
LEMMA RejectFileImage ==
  ASSUME MemInv, ImageInv, RejectFile
  PROVE  ImageInv'
BY RejectFileStep, RefusedImage DEF RejectFile

(* The loader goes on to the next header when it has mapped the pages of   *)
(* this one, if it is loaded at all.                                       *)
LEMMA PassedImage ==
  ASSUME MemInv, ImageInv, ViewsSame, loading # NotLoading,
         UNCHANGED <<ram, processes>>, loading' = NextHeader(loading),
         loading.header \in Loads(loading.file) =>
           \A v \in Nat : PageNumber(v) \in PagesOf(loading.file.segments[loading.header])
                           => IsCopied(loading, loading.header, v)
  PROVE  ImageInv'
<1>1. /\ loading \in Unfinished /\ loading.file \in Files /\ LoadedIn(ram, loading)
      /\ loading.header \in Nat
  BY LoadingIs DEF ImageInv, Unfinished
<1>2. /\ loading'.header = loading.header + 1 /\ loading'.left = -1
      /\ loading'.base = loading.base /\ loading'.file = loading.file
  BY <1>1 DEF NextHeader, Unfinished
<1>3. Separate(ram', loading'.base) /\ Cursor(loading')
  BY <1>1, <1>2 DEF LoadedIn, Cursor
<1>4. ASSUME NEW h \in Loads(loading.file), NEW v \in Nat
      PROVE  IsCopied(loading', h, v) <=> IsCopied(loading, h, v)
  <2>1. h \in Nat
    BY <1>1, SegmentsAre
  <2>2. h < loading.header + 1 <=> h < loading.header \/ h = loading.header
    BY <1>1, <2>1
  <2>3. IsCopied(loading', h, v) <=> /\ PageNumber(v) \in PagesOf(loading.file.segments[h])
                                     /\ h < loading.header + 1
    BY <1>2 DEF IsCopied
  <2> QED
    BY <2>2, <2>3 DEF IsCopied
<1>5. Copied(ram', loading')
  <2> SUFFICES ASSUME NEW h \in Loads(loading.file),
                      NEW v \in Addresses(loading.file.segments[h]), IsOnTop(loading', h, v)
               PROVE  IsOnTop(loading, h, v)
    BY <1>1, <1>2 DEF Copied, LoadedIn
  <2>1. v \in Nat
    BY <1>1, SegmentsAre
  <2> QED
    BY <1>2, <1>4, <2>1 DEF IsOnTop
<1> QED
  BY <1>3, <1>5, LoadingImage DEF LoadedIn, MemInv, MemType

(* A segment that is to be loaded: nothing of it is mapped yet.            *)
LEMMA ProgramHeaderImage ==
  ASSUME MemInv, AllBelowKernel, ImageInv, ProgramHeader
  PROVE  ImageInv'
<1> DEFINE segment == Header(loading)
<1>0. OwnType
  BY DEF MemInv, MemType
<1>1. /\ loading # NotLoading /\ ram' = ram /\ loading.left = -1
  BY DEF ProgramHeader, LoadsSegments
<1>2. ViewsSame
  BY ProgramHeaderStep
<1>3. /\ loading \in Unfinished /\ loading.file \in Files /\ LoadedIn(ram, loading)
      /\ loading.header \in Nat
  BY <1>1, LoadingIs DEF ImageInv, Unfinished
<1>5. \/ segment.type = "ignored" /\ loading' = NextHeader(loading) /\ processes' = processes
      \/ Created(0)
      \/ UNCHANGED <<processes, loading>>
      \/ HeaderTaken
  BY <1>0, ProgramHeaderIs, Zenon
<1>6. CASE segment.type = "ignored" /\ loading' = NextHeader(loading) /\ processes' = processes
  <2>1. loading.header \notin Loads(loading.file)
    BY <1>6 DEF Loads, Header
  <2> QED
    BY <1>1, <1>2, <1>6, <2>1, PassedImage
<1>7. CASE Created(0)
  BY <1>1, <1>2, <1>7, RefusedImage
<1>8. CASE UNCHANGED <<processes, loading>>
  BY <1>1, <1>8, SameImage
<1>9. CASE HeaderTaken
  <2> DEFINE pages == DivideCeil(segment.memsz, PageSize)
  <2>1. loading.header \in Loads(loading.file) /\ segment \in SegmentHeader
        /\ segment = loading.file.segments[loading.header]
    BY <1>9 DEF Loads, Header, HeaderTaken
  <2>2. segment.vaddr \in Nat /\ segment.offset \in Nat /\ pages \in Nat
    BY <2>1, PagesCounted
  <2>3. /\ loading'.header = loading.header /\ loading'.left = pages
        /\ loading'.base = loading.base /\ loading'.file = loading.file
        /\ loading'.vaddr = segment.vaddr /\ loading'.source = segment.offset
    <3>1. loading' = [loading EXCEPT !.vaddr = segment.vaddr, !.source = segment.offset,
                                     !.left = pages]
      BY <1>9 DEF HeaderTaken
    <3> HIDE DEF segment, pages
    <3> QED
      BY <1>3, <3>1 DEF Unfinished
  <2>4. Header(loading') = segment
    BY <2>3 DEF Header
  <2> HIDE DEF segment
  <2>5. Cursor(loading')
    <3>1. InLoop(segment, segment.vaddr, pages)
      BY DEF InLoop
    <3>2. segment.offset = segment.offset + segment.vaddr - segment.vaddr
      BY <2>2
    <3> QED
      BY <2>1, <2>2, <2>3, <2>4, <3>1, <3>2 DEF Cursor
  <2>6. ASSUME NEW h \in Loads(loading.file), NEW v \in Nat
        PROVE  IsCopied(loading', h, v) <=> IsCopied(loading, h, v)
    <3>1. h = loading.header /\ PageNumber(v) < PageNumber(segment.vaddr) =>
            PageNumber(v) \notin PagesOf(loading.file.segments[h])
      <4>1. PageNumber(segment.vaddr) \in Nat
        BY <2>1, PagesCounted
      <4>2. PagesOf(segment) =
              PageNumber(segment.vaddr)..(PageNumber(segment.vaddr) + pages - 1)
        BY DEF PagesOf
      <4> HIDE DEF pages
      <4>3. PageNumber(v) < PageNumber(segment.vaddr) => PageNumber(v) \notin PagesOf(segment)
        BY <2>2, <4>1, <4>2
      <4> QED
        BY <2>1, <4>3
    <3>2. loading'.left # -1
      BY <2>2, <2>3
    <3> QED
      BY <1>1, <2>3, <3>1, <3>2 DEF IsCopied
  <2>7. Copied(ram', loading')
    <3> SUFFICES ASSUME NEW h \in Loads(loading.file),
                        NEW v \in Addresses(loading.file.segments[h]), IsOnTop(loading', h, v)
                 PROVE  IsOnTop(loading, h, v)
      BY <1>1, <1>3, <2>3 DEF Copied, LoadedIn
    <3>1. v \in Nat
      BY <1>3, SegmentsAre
    <3> QED
      BY <2>3, <2>6, <3>1 DEF IsOnTop
  <2>8. LoadedIn(ram', loading') /\ processes' = processes
    BY <1>1, <1>3, <1>9, <2>3, <2>5, <2>7 DEF LoadedIn, HeaderTaken
  <2> QED
    BY <1>0, <1>2, <2>8, LoadingImage
<1> QED
  BY <1>5, <1>6, <1>7, <1>8, <1>9

(* A segment is complete.                                                  *)
LEMMA SegmentLoadedImage ==
  ASSUME MemInv, ImageInv, SegmentLoaded
  PROVE  ImageInv'
<1>1. /\ loading # NotLoading /\ loading.left = 0 /\ loading' = NextHeader(loading)
      /\ UNCHANGED <<ram, processes>>
  BY DEF SegmentLoaded, LoadsSegments
<1>2. ViewsSame
  BY SegmentLoadedStep
<1>3. /\ loading \in Unfinished /\ loading.file \in Files /\ LoadedIn(ram, loading)
      /\ loading.vaddr \in Nat
  BY <1>1, LoadingIs DEF ImageInv, Unfinished
<1>4. ASSUME loading.header \in Loads(loading.file), NEW v \in Nat,
             PageNumber(v) \in PagesOf(loading.file.segments[loading.header])
      PROVE  IsCopied(loading, loading.header, v)
  <2> DEFINE g == loading.file.segments[loading.header]
  <2>1. g \in SegmentHeader
    BY <1>3, <1>4, SegmentsAre
  <2>2. InLoop(g, loading.vaddr, 0)
    BY <1>1, <1>3 DEF LoadedIn, Cursor, Header
  <2>3. PageNumber(v) < PageNumber(loading.vaddr)
    BY <1>3, <1>4, <2>1, <2>2, LoopReaches
  <2> QED
    BY <1>1, <1>4, <2>3 DEF IsCopied
<1> QED
  BY <1>1, <1>2, <1>4, PassedImage

(* The end: .bss is cleared, and nothing else is.                          *)
LEMMA SectionHeadersImage ==
  ASSUME MemInv, AllBelowKernel, ImageInv, SectionHeaders
  PROVE  ImageInv'
<1> DEFINE file == loading.file
           base == loading.base
           bss == Bss(file)
           entry == file.entry
<1>0. OwnType
  BY DEF MemInv, MemType
<1>1. loading # NotLoading /\ ~MoreHeaders
  BY DEF SectionHeaders, LoadsSegments
<1>2. ViewsSame
  BY SectionHeadersStep
<1>3. CASE \E why : Stop(why)
  BY <1>3, SameImage DEF Stop
<1>4. CASE /\ \A v \in bss : Writable(ram, cr3, v)
           /\ ram' = Zeroed(ram, cr3, bss) /\ Created(entry)
  <2>2. /\ loading \in Unfinished /\ file \in Files /\ LoadedIn(ram, loading)
        /\ cr3 = base /\ base \in Pages /\ IsMemory(ram) /\ loading.header \in Nat \ {0}
        /\ Mine(loading) \in SUBSET Pages /\ base \notin Mine(loading)
        /\ Tidy(ram, base, Mine(loading)) /\ Separate(ram, base)
    BY <1>1, LoadingIs DEF ImageInv, Unfinished, Mine, LoadedIn
  <2>3. entry \in Nat
    <3>1. AddressSpace \in Nat
      BY MemoryAssumption DEF AddressSpace
    <3> QED
      BY <2>2, <3>1, FilesAssumption
  <2>4. bss \subseteq UserAddresses
    BY <1>0, <1>1, LoadingBelow DEF BelowKernel
  <2> DEFINE done == [base |-> base, owned |-> loading.owned, file |-> file, entry |-> entry]
  <2>5. done.base = base /\ done.file = file
    OBVIOUS
  <2> HIDE DEF done
  <2>6. ASSUME NEW h \in Loads(file), NEW v \in Addresses(file.segments[h]),
               PageNumber(v) \in PagesOf(file.segments[h]), ~HiddenByLater(file, h, v)
        PROVE  Finds(ram', done, h, v)
    <3> DEFINE g == file.segments[h]
               word == WordAt(file, g, v)
    <3>1. \A j \in Loads(file) :
            IsCopied(loading, j, v) <=> PageNumber(v) \in PagesOf(file.segments[j])
      <4> SUFFICES ASSUME NEW j \in Loads(file)
                   PROVE  j < loading.header
        BY DEF IsCopied
      <4>1. j \in Nat /\ j >= 1 /\ j <= Len(file.segments) /\ Len(file.segments) \in Nat
        BY <2>2, SegmentsAre
      <4>2. loading.header > Len(file.segments)
        BY <1>1, <2>2, <4>1 DEF MoreHeaders
      <4> QED
        BY <2>2, <4>1, <4>2
    <3>2. IsOnTop(loading, h, v)
      BY <2>6, <3>1 DEF IsOnTop, HiddenByLater
    <3>3. Holds(ram, base, v, word, g.write)
      BY <2>2, <3>2 DEF LoadedIn, Copied
    <3>4. v \in Nat
      BY <2>2, SegmentsAre
    <3> DEFINE final == IF v \in bss THEN Zero ELSE word
               write == g.write
    <3>5. Holds(ram', base, v, final, write)
      <4> HIDE DEF file, base, write, word
      <4> QED
        BY <1>4, <2>2, <2>4, <3>3, <3>4, HoldsZeroed DEF write
    <3>6. Final(file, g, v) = final
      BY Zenon DEF Final
    <3> HIDE DEF final
    <3> QED
      BY <2>5, <3>5, <3>6, Zenon DEF Holds, Finds
  <2> HIDE DEF file, base
  <2>7. CreatedIn(ram', done)
    BY <2>5, <2>6, Zenon DEF CreatedIn
  <2> QED
    BY <1>0, <1>1, <1>2, <1>4, <2>3, <2>7, CreatedImage DEF file, base, done
<1> QED
  BY <1>3, <1>4, SectionHeadersIs, Zenon

(* Mapping memory for the kernel changes nothing that a program finds.     *)
LEMMA MapKernelImage ==
  ASSUME MemInv, ImageInv, NEW count \in 1..MaxKernelPages, map_kernel_memory(count)
  PROVE  ImageInv'
<1>1. CASE \E why : Stop(why)
  BY <1>1, SameImage DEF Stop
<1>2. CASE UNCHANGED <<processes, loading>> /\ ~IsLoading
  <2>1. ~IsLoading' /\ processes' = processes
    BY <1>2 DEF IsLoading
  <2>2. ViewsSame
    BY MapKernelStep
  <2> QED
    BY <2>1, <2>2, CreatedStay DEF ImageInv, MemInv, MemType
<1> QED
  BY <1>1, <1>2, MapKernelIs

(* Addresses below the kernel's entry of the directory.                    *)
LEMMA AddressBelow ==
  ASSUME NEW v \in Nat, DirIndex(v) < KernelDir
  PROVE  v < UserEnd
<1> DEFINE square == PageSize * PageSize
           d == v \div square
           rest == v % square
<1>1. PageSize \in Nat \ {0} /\ square \in Nat \ {0} /\ KernelDir \in Nat
  BY MemoryAssumption
<1>2. UserEnd = KernelDir * square /\ DirIndex(v) = d
  BY <1>1 DEF UserEnd, DirIndex
<1> HIDE DEF square
<1>3. d \in Nat /\ rest \in 0..(square - 1) /\ v = square * d + rest
  BY <1>1, Division
<1> HIDE DEF d, rest
<1>4. PICK k \in Nat : KernelDir = d + 1 + k
  BY <1>1, <1>2, <1>3
<1>5. KernelDir * square = square * d + square + square * k
  BY <1>1, <1>3, <1>4
<1>6. square * k \in Nat /\ square * d \in Nat
  BY <1>1, <1>3
<1> QED
  BY <1>1, <1>2, <1>3, <1>5, <1>6

(* The page of the loop's address begins at PageAt.                        *)
LEMMA PageOfLoop ==
  ASSUME loading.vaddr \in Nat, NEW v \in Nat
  PROVE  /\ PageAt \in Nat /\ PageAt \div PageSize = loading.vaddr \div PageSize
         /\ (DirIndex(v) = DirIndex(PageAt) /\ TableIndex(v) = TableIndex(PageAt))
              <=> v \div PageSize = loading.vaddr \div PageSize
<1> DEFINE w == loading.vaddr
           p == w \div PageSize
           a == w % PageSize
<1>1. w = PageSize * p + a /\ p \in Nat /\ a \in 0..(PageSize - 1) /\ PageSize \in Nat \ {0}
  BY PageDigits, MemoryAssumption
<1>2. PageAt = w - a
  BY DEF PageAt
<1> HIDE DEF w, p, a
<1>3. PageSize * p \in Nat
  BY <1>1
<1>4. PageAt \in Nat /\ PageAt = PageSize * p + 0
  BY <1>1, <1>2, <1>3
<1>5. PageAt \div PageSize = p
  <2> DEFINE q == PageAt \div PageSize
             b == PageAt % PageSize
  <2>1. PageAt = PageSize * q + b /\ q \in Nat /\ b \in 0..(PageSize - 1)
    BY <1>4, PageDigits
  <2> HIDE DEF q, b
  <2>2. 0 \in 0..(PageSize - 1)
    BY <1>1
  <2>3. q = p
    BY <1>1, <1>4, <2>1, <2>2, SameDigits
  <2> QED
    BY <2>3 DEF q
<1>6. (DirIndex(v) = DirIndex(PageAt) /\ TableIndex(v) = TableIndex(PageAt))
        <=> v \div PageSize = PageAt \div PageSize
  BY <1>4, OnePage
<1> QED
  BY <1>4, <1>5, <1>6 DEF w, p

(* What one iteration stores at an address of its page.                    *)
LEMMA PageImageHas ==
  ASSUME NEW file, NEW w \in Nat, NEW v \in Nat, w <= v,
         v \div PageSize = w \div PageSize, NEW source \in Int
  PROVE  PageImage(file, w, source)[v % PageSize] = Word(file, source + v - w)
<1> DEFINE a == w % PageSize
           s == v % PageSize
<1>1. /\ a \in 0..(PageSize - 1) /\ s \in 0..(PageSize - 1) /\ PageSize \in Nat \ {0}
      /\ v - w = s - a
  BY OnePage, PageDigits, MemoryAssumption
<1>2. PageImage(file, w, source) =
        [u \in Slots |-> IF u < a THEN Zero ELSE Word(file, source + u - a)]
  BY Zenon DEF PageImage
<1> HIDE DEF a, s
<1>3. s \in Slots /\ ~(s < a) /\ source + s - a = source + v - w
  BY <1>1 DEF Slots
<1>4. PageImage(file, w, source)[s] = Word(file, source + s - a)
  BY <1>2, <1>3
<1> QED
  BY <1>3, <1>4 DEF s

(* After one iteration one more page is mapped, and holds what the file    *)
(* has for it.  If it was mapped before, for another segment, what that    *)
(* segment had there is hidden; all else is on other pages.                *)
LEMMA LoadPageImage ==
  ASSUME MemInv, AllBelowKernel, ImageInv, LoadPage
  PROVE  ImageInv'
<1>0. OwnType
  BY DEF MemInv, MemType
<1>1. loading # NotLoading /\ loading.left > 0
  BY DEF LoadPage, LoadsSegments
<1>2. ViewsSame
  BY LoadPageStep
<1>3. CASE \E why : Stop(why)
  BY <1>3, SameImage DEF Stop
<1>4. ASSUME NEW table \in Pages, NEW page \in Pages, PageLoaded(table, page)
      PROVE  ImageInv'
  <2> DEFINE base == loading.base
             mine == Mine(loading)
             d == DirIndex(PageAt)
             t == TableIndex(PageAt)
             g == Header(loading)
             w == loading.vaddr
             file == loading.file
             next == w + (PageSize - (w % PageSize))
  <2>1. /\ loading \in Unfinished /\ file \in Files /\ LoadedIn(ram, loading)
        /\ base \in Pages /\ IsMemory(ram) /\ mine \in SUBSET Pages /\ base \notin mine
        /\ Tidy(ram, base, mine) /\ OneUse(loading)
    BY <1>1, LoadingIs DEF ImageInv, Mine
  <2>2. /\ w \in Nat /\ loading.left \in Nat \ {0}
        /\ loading.header \in Loads(file) /\ g \in SegmentHeader
        /\ InLoop(g, w, loading.left) /\ loading.source = g.offset + w - g.vaddr
        /\ loading.source \in Nat /\ g = file.segments[loading.header]
        /\ loading.header \in Nat /\ loading.left # -1
    <3>1. w \in Nat /\ loading.left \in Int /\ loading.source \in Nat
      BY <2>1 DEF Unfinished
    <3>2. /\ loading.header \in Loads(file) /\ InLoop(g, w, loading.left)
          /\ loading.source = g.offset + w - g.vaddr
      BY <1>1, <2>1, <3>1 DEF LoadedIn, Cursor
    <3>3. loading.left \in Nat \ {0} /\ loading.left # -1
      BY <1>1, <3>1
    <3> QED
      BY <2>1, <3>1, <3>2, <3>3, SegmentsAre DEF Header
  <2>3. /\ d \in UserDirs /\ d < KernelDir /\ t \in Slots
        /\ \A p \in IF Present(ram[base][d]) THEN {page} ELSE {table, page} :
             ~s_allocations[p]
        /\ Present(ram[base][d]) => table = ram[base][d][1]
        /\ MappedAt(ram, ram', base, d, t, table, page)
        /\ ram'[page] = PageImage(file, w, loading.source)
        /\ ram'[table][t] = IF g.write THEN ReadWrite(page) ELSE ReadOnly(page)
        /\ processes' = processes
    BY <1>4 DEF PageLoaded
  <2>4. /\ loading'.header = loading.header /\ loading'.left = loading.left - 1
        /\ loading'.file = file /\ loading'.base = base
        /\ loading'.vaddr = next
        /\ loading'.source = loading.source + (PageSize - (w % PageSize))
    <3> DEFINE owned == IF Present(ram[base][d]) THEN Append(loading.owned, page)
                        ELSE Append(Append(loading.owned, table), page)
    <3>1. loading' = [Advance(loading) EXCEPT !.owned = owned]
      BY <1>4 DEF PageLoaded
    <3> HIDE DEF owned
    <3> QED
      BY <2>1, <3>1, AdvancedIs
  <2>5. Grown(ram, ram', base, mine, d, t, table, page)
    <3>1. \A p \in mine : s_allocations[p]
      BY <2>1 DEF Mine, OneUse
    <3>2. page \notin mine
      BY <2>3, <3>1
    <3>3. ram[base][d] # Zero => ram[base][d][1] = table
      BY <2>1, <2>3 DEF Tidy
    <3>4. ram[base][d] = Zero => table \notin mine /\ \A s \in Slots : ram[table][s] = Zero
      BY <2>3, <3>1, EntryFacts DEF MemInv
    <3> HIDE DEF base, mine, d, t
    <3> QED
      BY <2>1, <2>3, <3>2, <3>3, <3>4 DEF Grown
  <2>6. Separate(ram', loading'.base)
    BY <2>1, <2>4, <2>5, SeparateGrows DEF LoadedIn
  <2>7. next \in Nat /\ next > w /\ next % PageSize = 0
        /\ next \div PageSize = w \div PageSize + 1
    BY <2>2, PagesInOrder
  <2>8. Header(loading') = g
    BY <2>4 DEF Header
  <2>9. w >= g.vaddr /\ g.vaddr \in Nat /\ g.offset \in Nat
    BY <2>2, PagesCounted DEF InLoop
  <2> HIDE DEF g
  <2>10. Cursor(loading')
    <3>1. w \div PageSize \in Nat
      BY <2>2, PageDigits
    <3>2. PageSize - (w % PageSize) \in Int /\ next = w + (PageSize - (w % PageSize))
      BY <2>2, MemoryAssumption, PageDigits
    <3> DEFINE diff == PageSize - (w % PageSize)
    <3> HIDE DEF next, diff
    <3>3. InLoop(g, next, loading.left - 1)
      <4> DEFINE pages == DivideCeil(g.memsz, PageSize)
                 first == PageNumber(g.vaddr)
      <4>1. loading.left + (w \div PageSize) = pages + first
        BY <2>2 DEF InLoop, PageNumber
      <4>2. loading.left - 1 + PageNumber(next) = pages + first
        BY <2>2, <2>7, <3>1, <4>1 DEF PageNumber
      <4>3. next > g.vaddr
        BY <2>2, <2>7, <2>9
      <4> QED
        BY <2>7, <4>2, <4>3 DEF InLoop
    <3>4. loading.source + diff = g.offset + next - g.vaddr
      BY <2>2, <2>9, <3>2 DEF diff
    <3> QED
      BY <2>2, <2>4, <2>8, <3>3, <3>4 DEF Cursor, diff
  <2> DEFINE here == PageNumber(w)
  <2>11. here \in PagesOf(g) /\ here \in Nat /\ PageNumber(next) = here + 1
    BY <2>2, <2>7, LoopReaches DEF PageNumber
  <2>12. ASSUME NEW h \in Loads(file), NEW v \in Nat
         PROVE  IsCopied(loading', h, v) <=>
                  IsCopied(loading, h, v) \/ (h = loading.header /\ PageNumber(v) = here)
    <3> DEFINE q == PageNumber(v)
               counted == q \in PagesOf(file.segments[h])
    <3>1. q \in Nat
      BY PageDigits DEF PageNumber
    <3>2. loading'.left # -1
      <4>1. \A k \in Nat \ {0} : k - 1 # -1
        OBVIOUS
      <4> QED
        BY <2>2, <2>4, <4>1
    <3>3. IsCopied(loading, h, v) <=>
            counted /\ (h < loading.header \/ (h = loading.header /\ q < here))
      BY <2>2 DEF IsCopied
    <3>4. IsCopied(loading', h, v) <=>
            counted /\ (h < loading.header \/ (h = loading.header /\ q < PageNumber(next)))
      BY <2>4, <3>2 DEF IsCopied
    <3>5. h = loading.header /\ q = here => counted
      BY <2>2, <2>11
    <3> HIDE DEF q, here, counted
    <3>6. q < PageNumber(next) <=> q < here \/ q = here
      BY <2>11, <3>1
    <3> QED
      BY <3>3, <3>4, <3>5, <3>6 DEF q
  <2>13. ASSUME NEW h \in Loads(file), NEW v \in Addresses(file.segments[h]),
                IsOnTop(loading', h, v)
         PROVE  Holds(ram', base, v, WordAt(file, file.segments[h], v), file.segments[h].write)
    <3>1. /\ v \in Nat /\ h \in Nat /\ file.segments[h] \in SegmentHeader
          /\ v >= file.segments[h].vaddr
      BY <2>1, SegmentsAre
    <3>2. /\ IsCopied(loading', h, v)
          /\ \A j \in Loads(file) : j > h => ~IsCopied(loading', j, v)
      BY <2>4, <2>13 DEF IsOnTop
    <3>3. CASE PageNumber(v) # here
      <4>1. IsOnTop(loading, h, v)
        BY <2>12, <3>1, <3>2, <3>3 DEF IsOnTop
      <4>2. ~(DirIndex(v) = d /\ TableIndex(v) = t)
        BY <2>2, <3>1, <3>3, PageOfLoop DEF PageNumber
      <4>3. Holds(ram, base, v, WordAt(file, file.segments[h], v), file.segments[h].write)
        BY <2>1, <4>1 DEF LoadedIn, Copied
      <4>4. Separate(ram, base)
        BY <2>1 DEF LoadedIn
      <4> QED
        BY <2>5, <3>1, <4>2, <4>3, <4>4, HoldsGrows
    <3>4. CASE PageNumber(v) = here
      <4>1. h = loading.header
        <5>1. IsCopied(loading', loading.header, v)
          BY <2>2, <2>12, <3>1, <3>4
        <5>2. ~(loading.header > h)
          BY <2>2, <3>2, <5>1
        <5>3. h < loading.header \/ h = loading.header
          BY <2>4, <3>2 DEF IsCopied
        <5> QED
          BY <2>2, <3>1, <5>2, <5>3
      <4>2. v \div PageSize = w \div PageSize
        BY <3>4 DEF PageNumber
      <4>3. w <= v
        <5>1. CASE w = g.vaddr
          BY <2>2, <2>9, <3>1, <4>1, <5>1
        <5>2. CASE w % PageSize = 0
          <6>1. v < w => v \div PageSize < w \div PageSize
            BY <2>2, <3>1, <5>2, PagesInOrder
          <6>2. v \div PageSize \in Nat
            BY <3>1, PageDigits
          <6> QED
            BY <2>2, <3>1, <4>2, <6>1, <6>2
        <5> QED
          BY <2>2, <5>1, <5>2 DEF InLoop
      <4>4. DirIndex(v) = d /\ TableIndex(v) = t
        BY <2>2, <3>1, <4>2, PageOfLoop
      <4>5. v < UserEnd
        BY <2>3, <3>1, <4>4, AddressBelow
      <4>6. g = file.segments[h] /\ g.write \in BOOLEAN
        BY <2>2, <4>1 DEF SegmentHeader
      <4>7. Holds(ram', base, v, ram'[page][v % PageSize], g.write)
        <5>1. /\ base \in Pages /\ MappedAt(ram, ram', base, d, t, table, page)
              /\ ram'[table][t] = IF g.write THEN ReadWrite(page) ELSE ReadOnly(page)
          BY <2>1, <2>3
        <5> DEFINE write == g.write
        <5> HIDE DEF base, d, t, write
        <5>2. /\ write \in BOOLEAN
              /\ ram'[table][t] = IF write THEN ReadWrite(page) ELSE ReadOnly(page)
          BY <4>6, <5>1 DEF write
        <5>3. Holds(ram', base, v, ram'[page][v % PageSize], write)
          BY <3>1, <4>4, <4>5, <5>1, <5>2, HoldsNew
        <5> QED
          BY <5>3 DEF write
      <4>8. ram'[page][v % PageSize] = Word(file, loading.source + v - w)
        BY <2>2, <2>3, <3>1, <4>2, <4>3, PageImageHas
      <4>9. loading.source + v - w = g.offset + v - g.vaddr
        BY <2>2, <2>9, <3>1
      <4> QED
        BY <4>6, <4>7, <4>8, <4>9 DEF WordAt
    <3> QED
      BY <3>3, <3>4
  <2>14. Copied(ram', loading')
    BY <2>4, <2>13 DEF Copied
  <2>15. LoadedIn(ram', loading')
    BY <2>6, <2>10, <2>14 DEF LoadedIn
  <2> QED
    BY <1>0, <1>2, <2>3, <2>15, LoadingImage
<1> QED
  BY <1>3, <1>4, LoadPageIs

(* There is no process at first.                                           *)
LEMMA ImageInit == Init => ImageInv
<1> SUFFICES ASSUME Init
             PROVE  ImageInv
  OBVIOUS
<1>1. ~IsLoading /\ DOMAIN processes = {}
  BY DEF Init, IsLoading
<1> QED
  BY <1>1 DEF ImageInv

(* Every step of Memory keeps what was loaded.                             *)
LEMMA ImageStep ==
  ASSUME MemInv, AllBelowKernel, ImageInv, [Next]_vars
  PROVE  ImageInv'
<1>1. CASE Next
  <2>1. ASSUME NEW file \in Files, NewProcess(file) PROVE ImageInv'
    BY <2>1, NewProcessImage
  <2>2. ASSUME NEW count \in 1..MaxKernelPages, map_kernel_memory(count) PROVE ImageInv'
    BY <2>2, MapKernelImage
  <2>3. CASE RejectFile \/ ProgramHeader \/ LoadPage \/ SegmentLoaded \/ SectionHeaders
    BY <2>3, RejectFileImage, ProgramHeaderImage, LoadPageImage, SegmentLoadedImage,
       SectionHeadersImage
  <2>4. CASE Halted
    BY <2>4, SameImage DEF Halted, vars
  <2> QED
    BY <1>1, <2>1, <2>2, <2>3, <2>4 DEF Next
<1>2. CASE UNCHANGED vars
  BY <1>2, SameImage DEF vars
<1> QED
  BY <1>1, <1>2

(* What a program finds is what its file says.                             *)
LEMMA InvImage == (AllBelowKernel => ImageInv) => ImageIsLoaded
<1> SUFFICES ASSUME ImageInv, NEW k \in DOMAIN processes, processes[k].entry # 0,
                    NEW h \in Loads(processes[k].file),
                    NEW v \in Addresses(processes[k].file.segments[h]),
                    PageNumber(v) \in PagesOf(processes[k].file.segments[h]),
                    ~HiddenByLater(processes[k].file, h, v)
             PROVE  Sees(processes[k], h, v)
  BY Zenon DEF ImageIsLoaded
<1>1. CreatedIn(ram, processes[k])
  BY DEF ImageInv
<1>2. Finds(ram, processes[k], h, v)
  BY <1>1, Zenon DEF CreatedIn
<1> QED
  BY <1>2, Zenon DEF Finds, Shows, Final, WordAt, Sees

-----------------------------------------------------------------------------
(* Who runs, and in which address space.                                   *)

RegisterNames == {"eip", "eax", "ebx", "ecx", "edx", "ebp"}

(* What reschedule and the handlers rely on, each at the place where the   *)
(* thread is.  The process's entry is in eax where the interrupt of        *)
(* enter_scheduler is raised, and its number in ebp where a system call's  *)
(* thread begins; a tick's frame is what the registers still hold.  The    *)
(* loop of reschedule has not counted, so that as long as there is a       *)
(* process only the current one's number ends it.                          *)
ThreadInv ==
  /\ DOMAIN regs = RegisterNames
  /\ pc # "create" => /\ ~IsLoading /\ m_current_proc \in DOMAIN processes
                      /\ DOMAIN state = DOMAIN processes
  /\ pc \notin {"create", "run"} => cr3 = current.base
  /\ pc = "int 0x81" => regs.eax = current.entry
  /\ pc = "program" => regs.eip = Program(current.entry)
  /\ pc = "x86_syscall_enter" => /\ regs.ebp = m_current_proc
                                 /\ state[m_current_proc] = "SyscallTrigger"
  /\ frame # NoFrame => /\ frame = regs /\ pc \in {"unmask", "pit", "panic"}
                        /\ it = [at |-> it.at, pid |-> it.pid, count |-> 0]
  /\ received # NoCall => /\ pc = "panic" /\ received.target = m_current_proc
                          /\ state[m_current_proc] = "SyscallTrigger"

LoadedCorrect == AllBelowKernel => ImageInv
SchedInv == MemCorrect /\ LoadedCorrect /\ ThreadInv

(* The invariant says whose address space is in use.                       *)
LEMMA InvRuns == SchedInv => RunsForCurrent
BY DEF SchedInv, ThreadInv, RunsForCurrent

(* Before the first process is made.                                       *)
LEMMA SchedInit == InitScheduler => SchedInv
<1> SUFFICES ASSUME InitScheduler
             PROVE  SchedInv
  OBVIOUS
<1>1. MemCorrect /\ LoadedCorrect
  BY MemInit, OwnInit, ImageInit DEF InitScheduler, MemCorrect, LoadedCorrect
<1>2. DOMAIN regs = RegisterNames
  BY DEF InitScheduler, Reset, RegisterNames
<1> QED
  BY <1>1, <1>2 DEF InitScheduler, SchedInv, ThreadInv

(* Scheduler::run takes the current process's directory, if it can.        *)
LEMMA RunIs ==
  ASSUME run
  PROVE  /\ At("run") /\ UNCHANGED <<s_allocations, ram, processes, loading>>
         /\ UNCHANGED <<regs, passed, received, sched, tick>>
         /\ \/ pc' = pc /\ cr3' = cr3
            \/ pc' = "unmask" /\ cr3' = current.base
BY Zenon DEF run, Stop

(* The loop of reschedule ends at the current process's number only, so    *)
(* that what is behind it does nothing but end the handler.                *)
LEMMA RescheduleIs ==
  ASSUME ThreadInv, OwnType, reschedule
  PROVE  /\ UNCHANGED <<vars, pc, passed, received, sched>> /\ frame # NoFrame
         /\ \/ /\ frame' = frame /\ regs' = regs
               /\ it' = [at |-> it'.at, pid |-> it'.pid, count |-> 0]
            \/ frame' = NoFrame /\ regs' = frame
<1>1. frame # NoFrame /\ UNCHANGED <<passed, received, run_for_ticks, state>>
  BY Zenon DEF reschedule
<1>2. it = [at |-> it.at, pid |-> it.pid, count |-> 0] /\ it.count = 0
  <2>1. it = [at |-> it.at, pid |-> it.pid, count |-> 0]
    BY <1>1, Zenon DEF ThreadInv
  <2> DEFINE at == it.at
             number == it.pid
  <2>2. it = [at |-> at, pid |-> number, count |-> 0]
    BY <2>1
  <2> HIDE DEF at, number
  <2>3. it.count = 0
    BY <2>2
  <2> QED
    BY <2>1, <2>3
<1>3. 0 < Len(processes)
  <2>1. m_current_proc \in DOMAIN processes
    BY <1>1 DEF ThreadInv
  <2> QED
    BY <2>1, EveryoneIs
<1>4. ~Searches => it.pid = pid(m_current_proc)
  BY <1>2, <1>3 DEF Searches
<1>5. CASE Searches
  <2> DEFINE next == Following(it.at)
  <2>1. /\ it' = [it EXCEPT !.at = next, !.pid = pid(next)]
        /\ UNCHANGED <<vars, pc, regs, frame, m_current_proc>>
    BY <1>5, Zenon DEF reschedule
  <2> HIDE DEF next
  <2>2. it' = [at |-> it'.at, pid |-> it'.pid, count |-> 0]
    <3> DEFINE number == pid(next)
               moved == [it EXCEPT !.at = next]
    <3>1. it' = [moved EXCEPT !.pid = number]
      BY <2>1
    <3>2. moved = [at |-> next, pid |-> it.pid, count |-> 0]
      BY <1>2
    <3> HIDE DEF moved, number
    <3>3. it' = [at |-> next, pid |-> number, count |-> 0]
      BY <3>1, <3>2
    <3> QED
      BY <3>3
  <2> QED
    BY <1>1, <2>1, <2>2 DEF sched
<1>6. CASE ~Searches
  <2>1. /\ it' = NotSearching /\ frame' = NoFrame /\ regs' = frame
        /\ UNCHANGED <<vars, pc, m_current_proc>>
    BY <1>4, <1>6, Zenon DEF reschedule
  <2> QED
    BY <1>1, <2>1 DEF sched
<1> QED
  BY <1>5, <1>6

(* To memory, a step of the scheduler is a step of Memory, a change of the *)
(* directory in use while no process is created, or nothing.               *)
LEMMA MemoryMoves ==
  ASSUME SchedInv, [NextScheduler]_allVars
  PROVE  \/ [Next]_vars
         \/ /\ IsLoading => cr3' = cr3
            /\ UNCHANGED <<s_allocations, ram, processes, loading>>
<1>1. CASE Create
  BY <1>1, Zenon DEF Create, Next
<1>2. CASE run
  BY <1>2, RunIs DEF At, SchedInv, ThreadInv
<1>3. CASE panic_notrace
  BY <1>3 DEF panic_notrace
<1>4. CASE HaltedScheduler
  BY <1>4, Zenon DEF HaltedScheduler, Next
<1>5. CASE reschedule
  BY <1>5, RescheduleIs DEF SchedInv, MemCorrect, OwnInv
<1>6. CASE \/ Constructed \/ initialize \/ enter_scheduler \/ enter_scheduler_handler
           \/ systick \/ PageFault \/ handle_syscall \/ do_syscall
           \/ \E call \in Calls : syscall(call)
  <2>1. UNCHANGED vars
    BY <1>6, Zenon DEF Constructed, initialize, enter_scheduler, enter_scheduler_handler,
       systick, PageFault, handle_syscall, do_syscall, syscall
  <2> QED
    BY <2>1
<1>7. CASE UNCHANGED allVars
  BY <1>7 DEF allVars
<1> QED
  BY <1>1, <1>2, <1>3, <1>4, <1>5, <1>6, <1>7, Zenon DEF NextScheduler

(* Such a step keeps what was proved of memory above, and what a           *)
(* process that was created sees.                                          *)
LEMMA MemoryKept ==
  ASSUME SchedInv, [NextScheduler]_allVars
  PROVE  MemCorrect' /\ LoadedCorrect' /\ (AllBelowKernel' => ViewsSame)
<1>1. OwnInv /\ (AllBelowKernel => MemInv /\ ImageInv)
  BY DEF SchedInv, MemCorrect, LoadedCorrect
<1>2. OwnInv' /\ FilesStay
  <2>1. CASE [Next]_vars
    BY <1>1, <2>1, OwnStep
  <2>2. CASE UNCHANGED <<s_allocations, processes, loading>>
    BY <1>1, <2>2, OwnSame DEF OwnInv, OwnType
  <2> QED
    BY <2>1, <2>2, MemoryMoves
<1>3. ASSUME AllBelowKernel' PROVE MemInv' /\ ImageInv' /\ ViewsSame
  <2>1. AllBelowKernel /\ MemInv /\ ImageInv
    BY <1>1, <1>2, <1>3, WereBelow
  <2>2. CASE [Next]_vars
    BY <2>1, <2>2, MemStep, ImageStep
  <2>3. CASE /\ IsLoading => cr3' = cr3
             /\ UNCHANGED <<s_allocations, ram, processes, loading>>
    BY <2>1, <2>3, SameMemory, SameImage
  <2> QED
    BY <2>2, <2>3, MemoryMoves
<1> QED
  BY <1>2, <1>3, Zenon DEF MemCorrect, LoadedCorrect

(* Only a tick's handler moves the thread's registers while it runs, and   *)
(* it leaves them as it found them.                                        *)
LEMMA TickStep ==
  ASSUME SchedInv, [NextScheduler]_allVars, frame # NoFrame
  PROVE  /\ UNCHANGED <<pc, cr3, m_current_proc>>
         /\ frame' = NoFrame => regs' = frame
<1>1. CASE reschedule
  BY <1>1, RescheduleIs DEF vars, sched, SchedInv, MemCorrect, OwnInv
<1>2. CASE HaltedScheduler
  BY <1>2 DEF HaltedScheduler, Halted, vars, thread, sched, tick
<1>3. CASE UNCHANGED allVars
  BY <1>3 DEF allVars, vars, thread, sched, tick
<1>4. CASE \E place : At(place)
  BY <1>4 DEF At
<1>5. \/ reschedule \/ HaltedScheduler \/ UNCHANGED allVars \/ \E place : At(place)
  BY RunIs, Zenon DEF NextScheduler, Create, Constructed, initialize, enter_scheduler,
     enter_scheduler_handler, systick, MayWait, PageFault, syscall, handle_syscall,
     do_syscall, panic_notrace
<1> QED
  BY <1>1, <1>2, <1>3, <1>4, <1>5

(* Every step keeps the thread where it belongs.                           *)
LEMMA ThreadKept ==
  ASSUME SchedInv, [NextScheduler]_allVars
  PROVE  ThreadInv'
<1> USE DEF ThreadInv, At, current
<1>1. ThreadInv
  BY DEF SchedInv
<1>2. CASE Create
  BY <1>1, <1>2 DEF Create, thread, sched, tick
<1>3. CASE Constructed
  <2>1. 1 \in DOMAIN processes
    BY <1>3 DEF Constructed, SchedInv, MemCorrect, OwnInv, OwnType
  <2>2. DOMAIN state' = DOMAIN processes
    BY <1>3 DEF Constructed
  <2> QED
    BY <1>1, <1>3, <2>1, <2>2 DEF Constructed, vars, tick, IsLoading
<1>4. CASE run
  BY <1>1, <1>4, RunIs DEF sched, tick, IsLoading
<1>5. CASE initialize
  BY <1>1, <1>5 DEF initialize, vars, sched, tick, IsLoading
<1>6. CASE enter_scheduler
  <2>1. DOMAIN regs' = RegisterNames /\ regs'.eax = current.entry
    BY <1>1, <1>6 DEF enter_scheduler, RegisterNames
  <2> QED
    BY <1>1, <1>6, <2>1 DEF enter_scheduler, vars, sched, tick, IsLoading
<1>7. CASE enter_scheduler_handler
  <2>1. DOMAIN regs' = RegisterNames /\ regs'.eip = Program(current.entry)
    BY <1>1, <1>7 DEF enter_scheduler_handler, RegisterNames, Reset
  <2> QED
    BY <1>1, <1>7, <2>1 DEF enter_scheduler_handler, vars, sched, tick, IsLoading
<1>8. CASE systick
  <2>1. /\ pc \in {"unmask", "pit", "panic"}
        /\ frame' # NoFrame => frame' = regs /\ it' = [at |-> it'.at, pid |-> it'.pid, count |-> 0]
        /\ UNCHANGED <<vars, thread, m_current_proc, state>>
    BY <1>8 DEF systick, MayWait, tick
  <2> QED
    BY <1>1, <2>1 DEF vars, thread, IsLoading
<1>9. CASE reschedule
  <2>1. /\ UNCHANGED <<vars, pc, passed, received, sched>> /\ regs' = regs
        /\ \/ frame' = frame /\ it' = [at |-> it'.at, pid |-> it'.pid, count |-> 0]
           \/ frame' = NoFrame
    BY <1>1, <1>9, RescheduleIs DEF SchedInv, MemCorrect, OwnInv
  <2> QED
    BY <1>1, <2>1 DEF vars, sched, IsLoading
<1>10. CASE PageFault
  BY <1>1, <1>10 DEF PageFault, vars, sched, tick, IsLoading
<1>11. CASE \E call \in Calls : syscall(call)
  <2>1. /\ pc = "program" /\ frame = NoFrame /\ (pc' = pc \/ pc' = "int 0x80")
        /\ pc' = pc => regs' = regs
        /\ UNCHANGED <<vars, received, sched, tick>>
    BY <1>11 DEF syscall, thread
  <2>2. DOMAIN regs' = RegisterNames
    BY <1>1, <1>11 DEF syscall, thread
  <2> QED
    BY <1>1, <2>1, <2>2 DEF vars, sched, tick, IsLoading
<1>12. CASE handle_syscall
  <2>1. CASE state[m_current_proc] # "Running"
    BY <1>1, <1>12, <2>1 DEF handle_syscall, vars, tick, IsLoading
  <2>2. CASE state[m_current_proc] = "Running"
    <3>1. /\ DOMAIN regs' = RegisterNames /\ regs'.ebp = m_current_proc
          /\ DOMAIN state' = DOMAIN state /\ state'[m_current_proc] = "SyscallTrigger"
      BY <1>1, <1>12, <2>2 DEF handle_syscall, setup_syscall_regs, Reset, RegisterNames
    <3> QED
      BY <1>1, <1>12, <2>2, <3>1 DEF handle_syscall, vars, tick, IsLoading
  <2> QED
    BY <2>1, <2>2
<1>13. CASE do_syscall
  <2>1. received'.target = regs.ebp
    BY <1>13 DEF do_syscall
  <2> QED
    BY <1>1, <1>13, <2>1 DEF do_syscall, vars, sched, tick, IsLoading
<1>14. CASE panic_notrace
  BY <1>1, <1>14 DEF panic_notrace, thread, sched, tick, IsLoading
<1>15. CASE HaltedScheduler
  BY <1>1, <1>15 DEF HaltedScheduler, Halted, vars, thread, sched, tick, IsLoading
<1>16. CASE UNCHANGED allVars
  BY <1>1, <1>16 DEF allVars, vars, thread, sched, tick, IsLoading
<1> QED
  BY <1>2, <1>3, <1>4, <1>5, <1>6, <1>7, <1>8, <1>9, <1>10, <1>11, <1>12, <1>13,
     <1>14, <1>15, <1>16, Zenon DEF NextScheduler

(* Both parts of the invariant.                                            *)
LEMMA SchedStep ==
  ASSUME SchedInv, [NextScheduler]_allVars
  PROVE  SchedInv'
BY MemoryKept, ThreadKept DEF SchedInv

(* The invariant holds in every behaviour.                                 *)
THEOREM SchedCorrect == SpecScheduler => []SchedInv
<1>1. InitScheduler => SchedInv
  BY SchedInit
<1>2. SchedInv /\ [NextScheduler]_allVars => SchedInv'
  BY SchedStep
<1> QED
  BY <1>1, <1>2, PTL DEF SpecScheduler

(* No page has two owners, or two uses, whatever programs are loaded and   *)
(* however often memory is mapped for the kernel in between.  While all    *)
(* programs lie below the kernel, the kernel's table leads to none of the  *)
(* processes' pages, but for the entry that is made for the overrun.       *)
THEOREM OneOwner == SpecScheduler => []PagesHaveOneOwner
<1>1. SchedInv => PagesHaveOneOwner
  BY InvOwners DEF SchedInv
<1> QED
  BY <1>1, SchedCorrect, PTL

(* While all programs lie below the kernel, a process's directory leads to *)
(* its own tables and pages, and to the kernel's table.                    *)
THEOREM OwnPages == SpecScheduler => []ReachesOwnPagesOnly
<1>1. SchedInv => ReachesOwnPagesOnly
  BY InvReach DEF SchedInv
<1> QED
  BY <1>1, SchedCorrect, PTL

(* While all programs lie below the kernel, a process that has an entry    *)
(* finds its program where its file says: in the pages that are counted    *)
(* for a segment and that no later segment's page hides, zero where .bss   *)
(* is and else the file's words, which it may write exactly where the      *)
(* segment says so.                                                        *)
THEOREM ProgramsAreLoaded == SpecScheduler => []ImageIsLoaded
<1>1. SchedInv => ImageIsLoaded
  BY InvImage DEF SchedInv, LoadedCorrect
<1> QED
  BY <1>1, SchedCorrect, PTL

(* As long as all programs lie below the kernel, what a process sees of    *)
(* its memory there is changed by no step of the loader, of the kernel's   *)
(* mappings or of the scheduler.                                           *)
THEOREM ViewsLast == SpecScheduler => LoadedStaysLoaded
<1>1. SchedInv /\ [NextScheduler]_allVars =>
        [AllBelowKernel' =>
           \A k \in DOMAIN processes : View(ram', processes[k]) = View(ram, processes[k])]_vars
  BY MemoryKept DEF ViewsSame
<1> QED
  BY <1>1, SchedCorrect, PTL DEF SpecScheduler, LoadedStaysLoaded

(* Programs and system calls run in the address space of the current       *)
(* process.                                                                *)
THEOREM CurrentRuns == SpecScheduler => []RunsForCurrent
BY InvRuns, SchedCorrect, PTL

(* A tick takes nothing from the thread: with any number of processes, the *)
(* switch behind reschedule's loop is not reached.                         *)
THEOREM TicksTakeNothing == SpecScheduler => TicksLeaveThread
<1>1. SchedInv /\ [NextScheduler]_allVars =>
        [frame # NoFrame => UNCHANGED <<pc, cr3, m_current_proc>>
                            /\ (frame' = NoFrame => regs' = frame)]_allVars
  BY TickStep
<1> QED
  BY <1>1, SchedCorrect, PTL DEF SpecScheduler, TicksLeaveThread
=============================================================================
