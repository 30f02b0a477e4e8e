------------------------------- MODULE Memory -------------------------------
(***************************************************************************)
(* Address spaces: the physical pages (kernel/physicalmalloc.cpp), the     *)
(* page directories and tables built in them (kernel/x86/memory.cpp), and  *)
(* the loading of programs (kernel/process.cpp, kernel/elfreader.cpp).     *)
(*                                                                         *)
(* A page has as many words as a table has entries.  A word is a sequence: *)
(* Zero, a word of a file, or an entry <<page, writable>> of a directory   *)
(* or table; whether a page is read as a table or as data is up to who     *)
(* reads it.  The kernel's own table, which every directory leads to, is   *)
(* one page more; what it maps linearly, the kernel itself and the screen, *)
(* has no words here.  All of this runs in ring 0 with write protection on *)
(* (boot.S), so that the kernel's addresses are a program's as well, and   *)
(* with interrupts off, so that a page map guard is free when it is taken: *)
(* no function here takes two.  Memory is zero when the kernel starts.     *)
(***************************************************************************)
EXTENDS Integers, Sequences, FiniteSets

CONSTANTS
  PageSize,      (* words of a page, and entries of a directory or table   *)
  PageCount,     (* s_allocations.size()                                   *)
  KernelDir,     (* kernel_address_space_dir_index                         *)
  TempSlot,      (* the kernel table's entries for the page map guards,    *)
  VgaSlot,       (* the screen,                                            *)
  KernelStart,   (* _kernel_start,                                         *)
  WritableStart, (* _kernel_writable_start                                 *)
  HeapEnd,       (* and _kernel_heap_end                                   *)
  Files,         (* the programs there are                                 *)
  MaxProcesses,  (* bound: processes created                               *)
  MaxKernelPages (* bound: pages of one call of map_kernel_memory          *)

ASSUME MemoryAssumption ==
  /\ PageSize \in Nat \ {0}
  /\ PageCount \in Nat \ {0}
  /\ KernelDir \in 1..(PageSize - 1)
  /\ HeapEnd \in 0..(PageSize - 1)
  /\ WritableStart \in 0..HeapEnd
  /\ KernelStart \in 0..WritableStart
  /\ TempSlot \in 0..(KernelStart - 1)
  /\ VgaSlot \in 0..(KernelStart - 1) \ {TempSlot}
  /\ MaxProcesses \in Nat /\ MaxKernelPages \in Nat

(* How many words the machine has addresses for; a u32 is one of these.    *)
AddressSpace == PageSize * PageSize * PageSize

(* A file is what its headers say of it: whether the first one is valid    *)
(* and the section names pass the loader's assertions, the entry, the      *)
(* words, the segments and .bss.                                           *)
SegmentHeader ==
  [type: {"ignored", "unsupported", "load"}, vaddr: 0..(AddressSpace - 1),
   offset: 0..(AddressSpace - 1), filesz: 0..(AddressSpace - 1),
   memsz: 0..(AddressSpace - 1), align: 0..(AddressSpace - 1), write: BOOLEAN]

ASSUME FilesAssumption ==
  \A file \in Files :
    /\ file.valid \in BOOLEAN /\ file.names \in BOOLEAN
    /\ file.entry \in 0..(AddressSpace - 1)
    /\ file.segments \in Seq(SegmentHeader)
    /\ file.bss.addr \in Nat /\ file.bss.size \in Nat
    /\ file.bss.addr + file.bss.size <= AddressSpace

VARIABLES
  s_allocations,     (* which pages are allocated                          *)
  ram,               (* the words of each page and of the kernel's table   *)
  cr3,               (* the page directory in use, Boot before the first   *)
  processes,         (* the processes that were created                    *)
  loading,           (* the process that is being created, or NotLoading   *)
  panic              (* why the kernel stopped, "no" while it runs         *)

vars == <<s_allocations, ram, cr3, processes, loading, panic>>

Pages == 0..(PageCount - 1)
Slots == 0..(PageSize - 1)
KernelTable == -2              (* the page of kernel_page_table            *)
KernelMemory == -3             (* what is behind the linear entries        *)
Screen == -4
Frames == Pages \cup {KernelTable}
Boot == -1
NotLoading == [header |-> 0]

Zero == <<>>
BeyondFile == <<-1>>           (* what lies behind the file in the heap    *)
Entry(page, writable) == <<page, writable>>
Present(word) == Len(word) = 2
KernelEntry == Entry(KernelTable, TRUE)

DirIndex(v) == v \div (PageSize * PageSize)
TableIndex(v) == (v % (PageSize * PageSize)) \div PageSize

(* init_kernel_area maps one page more than it is given, "to account for   *)
(* overrun": behind the heap that is the first allocatable page.           *)
LinearEntry(slot) ==
  IF slot = HeapEnd THEN Entry(0, TRUE)
  ELSE IF slot = VgaSlot THEN Entry(Screen, TRUE)
  ELSE IF slot \in KernelStart..(HeapEnd - 1) THEN Entry(KernelMemory, slot >= WritableStart)
  ELSE Zero

Init ==
  /\ s_allocations = [p \in Pages |-> FALSE]
  /\ ram = [p \in Frames |-> [s \in Slots |->
              IF p = KernelTable THEN LinearEntry(s) ELSE Zero]]
  /\ cr3 = Boot
  /\ processes = <<>>
  /\ loading = NotLoading
  /\ panic = "no"

-----------------------------------------------------------------------------
(* Physical pages and the tables of a process.  m holds what changes: the  *)
(* allocations, the memory, and the pages the process owns.                *)

Free(alloc) == {p \in Pages : ~alloc[p]}
FirstFree(alloc) == CHOOSE p \in Free(alloc) : \A q \in Free(alloc) : p <= q
(* Mutant: the bit stays clear.                                            *)
AllocateNotMarked(alloc) == alloc

allocate(alloc) == [alloc EXCEPT ![FirstFree(alloc)] = TRUE]

(* Mutant: the process does not take the page of its new table.            *)
WithTableNotTaken(m, base, at) ==
  IF Present(m.ram[base][DirIndex(at)]) THEN m
  ELSE [m EXCEPT !.alloc = allocate(@),
                 !.ram[base][DirIndex(at)] = Entry(FirstFree(m.alloc), TRUE)]

(* A new page table holds what its page held before.                       *)
WithTable(m, base, at) ==
  IF Present(m.ram[base][DirIndex(at)]) THEN m
  ELSE LET page == FirstFree(m.alloc)
       IN [alloc |-> allocate(m.alloc),
           ram |-> [m.ram EXCEPT ![base][DirIndex(at)] = Entry(page, TRUE)],
           owned |-> Append(m.owned, page)]

(* Whether map_user_memory finds the pages it needs.                       *)
CanMap(m, base, at) ==
  /\ Free(m.alloc) # {}
  /\ Present(m.ram[base][DirIndex(at)])
       \/ Free(allocate(m.alloc)) # {}

(* The guard through which a table is written ends by clearing its own     *)
(* slot, which is what is lost if that is the slot to be mapped.           *)
NewEntry(table, slot, page) ==
  IF table = KernelTable /\ slot = TempSlot THEN Zero ELSE Entry(page, TRUE)

map_user_memory(m, base, at) ==
  LET t == WithTable(m, base, at)
      table == t.ram[base][DirIndex(at)][1]
      page == FirstFree(t.alloc)
  IN [alloc |-> allocate(t.alloc),
      ram |-> [t.ram EXCEPT ![table][TableIndex(at)] = NewEntry(table, TableIndex(at), page)],
      owned |-> Append(t.owned, page)]

set_user_mem_no_write(memory, base, at) ==
  LET table == memory[base][DirIndex(at)][1]
      page == memory[table][TableIndex(at)][1]
  IN [memory EXCEPT ![table][TableIndex(at)] = Entry(page, FALSE)]

(* What the processor does with an address: the entry of the table it      *)
(* leads to, or Zero.                                                      *)
Walk(memory, base, v) ==
  IF base = Boot THEN Zero
  ELSE LET table == memory[base][DirIndex(v)]
       IN IF Present(table) THEN memory[table[1]][TableIndex(v)] ELSE Zero

Writable(memory, base, v) ==
  LET entry == Walk(memory, base, v)
  IN IF Present(entry) THEN entry[2] ELSE FALSE

-----------------------------------------------------------------------------
(* elfreader.cpp                                                           *)

DivideCeil(n, d) == IF n % d # 0 THEN n \div d + 1 ELSE n \div d
Word(file, at) ==
  LET k == at % AddressSpace
  IN IF k < Len(file.words) THEN file.words[k + 1] ELSE BeyondFile

(* The words one iteration stores in its page: zeros in front of the       *)
(* segment, and then the file up to the page's end, because what is        *)
(* compared with p_filesz is an address in the heap, and files are not as  *)
(* long as that is high.                                                   *)
PageImage(file, vaddr, source) ==
  LET offset == vaddr % PageSize
  IN [s \in Slots |-> IF s < offset THEN Zero ELSE Word(file, source + s - offset)]

(* Mutant: the source moves on by a whole page.                            *)
AdvanceWholePage(l) ==
  [l EXCEPT !.vaddr = @ + PageSize - (@ % PageSize), !.source = @ + PageSize,
            !.left = @ - 1]

Advance(l) ==
  LET diff == PageSize - (l.vaddr % PageSize)
  IN [l EXCEPT !.vaddr = @ + diff, !.source = @ + diff, !.left = @ - 1]

Header(l) == l.file.segments[l.header]
NextHeader(l) == [l EXCEPT !.header = @ + 1, !.left = -1]
MoreHeaders == loading.header \in 1..Len(loading.file.segments)

Stop(why) ==
  /\ panic' = why
  /\ UNCHANGED <<s_allocations, ram, cr3, processes, loading>>

Running == panic = "no"

(* Without the kernel's entry the processor does not find its next         *)
(* instruction, nor the handler of the fault, and resets.                  *)
HasKernel(memory, base) == memory[base][KernelDir] = KernelEntry

(* The process is complete; its entry is null if the file is no program    *)
(* for this kernel.                                                        *)
Created(entry) ==
  /\ processes' = Append(processes, [base |-> loading.base, owned |-> loading.owned,
                                     file |-> loading.file, entry |-> entry])
  /\ loading' = NotLoading

(* Process::Process and the beginning of load.                             *)
KernelDirectory == [s \in Slots |-> IF s = KernelDir THEN KernelEntry ELSE Zero]

NewProcess(file) ==
  /\ Running
  /\ loading = NotLoading
  /\ Len(processes) < MaxProcesses
  /\ IF Free(s_allocations) = {} THEN Stop("no pages")
     ELSE LET base == FirstFree(s_allocations)
          IN /\ s_allocations' = allocate(s_allocations)
             /\ ram' = [ram EXCEPT ![base] = KernelDirectory]
             /\ cr3' = base
             /\ loading' = [header |-> 1, left |-> -1, file |-> file, base |-> base,
                            owned |-> <<>>, vaddr |-> 0, source |-> 0]
             /\ UNCHANGED <<processes, panic>>

(* validate_header, before anything is mapped.                             *)
RejectFile ==
  /\ Running
  /\ loading # NotLoading
  /\ ~loading.file.valid
  /\ Created(0)
  /\ UNCHANGED <<s_allocations, ram, cr3, panic>>

LoadsSegments == Running /\ loading # NotLoading /\ loading.file.valid

ProgramHeader ==
  /\ LoadsSegments
  /\ MoreHeaders
  /\ loading.left = -1
  /\ LET segment == Header(loading)
         l == [loading EXCEPT !.vaddr = segment.vaddr, !.source = segment.offset,
                              !.left = DivideCeil(segment.memsz, PageSize)]
         refused == \/ (segment.offset + segment.memsz) % AddressSpace
                         >= Len(loading.file.words)
                    \/ segment.align # PageSize
     IN \/ /\ segment.type = "ignored"
           /\ loading' = NextHeader(loading)
           /\ UNCHANGED <<processes, panic>>
        \/ /\ segment.type = "unsupported"
           /\ Created(0)
           /\ UNCHANGED panic
        \/ /\ segment.type = "load" /\ refused
           /\ panic' = "segment"
           /\ UNCHANGED <<processes, loading>>
        \/ /\ segment.type = "load" /\ ~refused
           /\ loading' = l
           /\ UNCHANGED <<processes, panic>>
  /\ UNCHANGED <<s_allocations, ram, cr3>>

(* One iteration of the loop over a segment's pages.  The words are        *)
(* written through the directory in use.  The addresses of the kernel's    *)
(* entry below _kernel_start are mapped as well, in the kernel's table.    *)
(* Behind the file, where a source can begin if its offset wrapped, there  *)
(* may be no memory to read.                                               *)
KernelStartAddress == (KernelDir * PageSize + KernelStart) * PageSize

LoadPage ==
  /\ LoadsSegments
  /\ MoreHeaders
  /\ loading.left > 0
  /\ LET at == loading.vaddr - (loading.vaddr % PageSize)
         m == [alloc |-> s_allocations, ram |-> ram, owned |-> loading.owned]
         mapped == map_user_memory(m, loading.base, at)
         target == Walk(mapped.ram, cr3, at)[1]
         copied == [mapped.ram EXCEPT ![target] =
                      PageImage(loading.file, loading.vaddr, loading.source)]
     IN IF at >= KernelStartAddress THEN Stop("kernel address")
        ELSE IF ~CanMap(m, loading.base, at) THEN Stop("no pages")
        ELSE IF ~Writable(mapped.ram, cr3, at) THEN Stop("page fault")
        ELSE \/ /\ s_allocations' = mapped.alloc
                /\ ram' = IF Header(loading).write THEN copied
                          ELSE set_user_mem_no_write(copied, loading.base, at)
                /\ loading' = [Advance(loading) EXCEPT !.owned = mapped.owned]
                /\ UNCHANGED <<cr3, processes, panic>>
             \/ /\ loading.source % AddressSpace >= Len(loading.file.words)
                /\ Stop("page fault")

SegmentLoaded ==
  /\ LoadsSegments
  /\ MoreHeaders
  /\ loading.left = 0
  /\ loading' = NextHeader(loading)
  /\ UNCHANGED <<s_allocations, ram, cr3, processes, panic>>

(* handle_section_headers zeroes .bss through the directory in use,        *)
(* whatever is mapped there: what the kernel does with its own memory      *)
(* overwritten is not described, what becomes of the screen neither.       *)
Bss(file) == file.bss.addr..(file.bss.addr + file.bss.size - 1)

(* Mutant: the address is taken for a physical one.                        *)
ZeroedPhysical(memory, base, addresses) ==
  [p \in Frames |-> [s \in Slots |->
    IF \E v \in addresses : v % PageSize = s /\ v \div PageSize = p
    THEN Zero ELSE memory[p][s]]]

Zeroed(memory, base, addresses) ==
  [p \in Frames |-> [s \in Slots |->
    IF \E v \in addresses : v % PageSize = s /\ Walk(memory, base, v)[1] = p
    THEN Zero ELSE memory[p][s]]]

SectionHeaders ==
  /\ LoadsSegments
  /\ ~MoreHeaders
  /\ LET addresses == Bss(loading.file)
         zeroed == Zeroed(ram, cr3, addresses)
     IN IF ~loading.file.names THEN Stop("section names")
        ELSE IF \E v \in addresses : ~Writable(ram, cr3, v) THEN Stop("page fault")
        ELSE IF \E v \in addresses : Walk(ram, cr3, v)[1] = KernelMemory
          THEN Stop("kernel overwritten")
        ELSE IF ~HasKernel(zeroed, cr3) THEN Stop("no kernel")
        ELSE /\ ram' = zeroed
             /\ Created(loading.file.entry)
             /\ UNCHANGED <<s_allocations, cr3, panic>>

-----------------------------------------------------------------------------
(* map_kernel_memory, which nothing calls yet: the first run of count free *)
(* entries behind the heap is found by its last entry, and the pages are   *)
(* mapped count entries before that one, one too early.                    *)

RunEnds(count) ==
  {k \in (HeapEnd + count - 1)..(PageSize - 1) :
    \A j \in (k - count + 1)..k : ~Present(ram[KernelTable][j])}
NthFree(alloc, n) ==
  CHOOSE p \in Free(alloc) : Cardinality({q \in Free(alloc) : q < p}) = n - 1

map_kernel_memory(count) ==
  /\ Running
  /\ loading = NotLoading
  /\ LET found == CHOOSE k \in RunEnds(count) : \A j \in RunEnds(count) : k <= j
         first == found - count
         pages == [n \in 1..count |-> NthFree(s_allocations, n)]
     IN IF RunEnds(count) = {} THEN Stop("kernel table")
        ELSE IF found <= count THEN Stop("index")
        ELSE IF Cardinality(Free(s_allocations)) < count THEN Stop("no pages")
        ELSE /\ s_allocations' = [p \in Pages |->
                  s_allocations[p] \/ \E n \in 1..count : pages[n] = p]
             /\ ram' = [ram EXCEPT ![KernelTable] = [k \in Slots |->
                  IF k \in first..(first + count - 1)
                  THEN Entry(pages[k - first + 1], TRUE)
                  ELSE ram[KernelTable][k]]]
             /\ UNCHANGED <<cr3, processes, loading, panic>>

Halted ==
  /\ panic # "no"
  /\ UNCHANGED vars

Next ==
  \/ \E file \in Files : NewProcess(file)
  \/ RejectFile
  \/ ProgramHeader
  \/ LoadPage
  \/ SegmentLoaded
  \/ SectionHeaders
  \/ \E count \in 1..MaxKernelPages : map_kernel_memory(count)
  \/ Halted

Spec == Init /\ [][Next]_vars

-----------------------------------------------------------------------------
(* What must hold.                                                         *)

Owned(p) == {p.base} \cup {p.owned[k] : k \in DOMAIN p.owned}
IsLoading == loading # NotLoading
Everyone == IF IsLoading THEN Append(processes, loading) ELSE processes

(* Programs for this kernel lie below its addresses: every page of their   *)
(* segments, and .bss.  The loader refuses no other, if it lies below      *)
(* _kernel_start (memory.cpp:274) or is .bss; such a program is loaded     *)
(* into the table that all share, or zeroes the kernel's memory.           *)
Loads(file) == {h \in DOMAIN file.segments : file.segments[h].type = "load"}
PageNumber(v) == v \div PageSize
PagesOf(g) ==
  PageNumber(g.vaddr)..(PageNumber(g.vaddr) + DivideCeil(g.memsz, PageSize) - 1)
UserAddresses == 0..(KernelDir * PageSize * PageSize - 1)

BelowKernel(file) ==
  /\ \A h \in Loads(file) : PagesOf(file.segments[h]) \subseteq 0..(KernelDir * PageSize - 1)
  /\ Bss(file) \subseteq UserAddresses
AllBelowKernel == \A k \in DOMAIN Everyone : BelowKernel(Everyone[k].file)

(* Every physical page in use has one owner and one use: no process takes  *)
(* a page twice, none shares one with another, and an owned page is never  *)
(* allocatable (physicalmalloc.cpp:28, process.hpp:20).  While all         *)
(* programs lie below the kernel, the kernel's table leads to no process's *)
(* page, with one exception that the code makes (memory.cpp:57): the first *)
(* page of all, the first process's directory, at _kernel_heap_end.  What  *)
(* a kernel does whose memory was overwritten is not described.            *)
OwnersAreDistinct ==
  /\ \A k \in DOMAIN Everyone :
       LET p == Everyone[k]
       IN /\ Cardinality(Owned(p)) = Len(p.owned) + 1
          /\ \A page \in Owned(p) : s_allocations[page]
  /\ \A j, k \in DOMAIN Everyone :
       j # k => Owned(Everyone[j]) \cap Owned(Everyone[k]) = {}

KernelLeadsToNone ==
  \A s \in Slots, k \in DOMAIN Everyone :
    LET word == ram[KernelTable][s]
    IN Present(word) /\ word[1] \in Owned(Everyone[k]) => s = HeapEnd /\ word[1] = 0

PagesHaveOneOwner ==
  panic # "kernel overwritten" =>
    OwnersAreDistinct /\ (AllBelowKernel => KernelLeadsToNone)

(* While all programs lie below the kernel, whatever a process can reach   *)
(* there through its directory are pages it owns: its tables and what they *)
(* map.  The kernel's entry leads to the kernel's one table                *)
(* (memory.cpp:271, task/x86.cpp:77).                                      *)
ReachesOwnPagesOnly ==
  AllBelowKernel =>
    \A k \in DOMAIN Everyone :
      LET p == Everyone[k]
          Mine == Owned(p) \ {p.base}
          Tables == {ram[p.base][d] : d \in Slots \ {KernelDir}} \ {Zero}
      IN /\ ram[p.base][KernelDir] = KernelEntry
         /\ \A table \in Tables :
              /\ Present(table) /\ table[1] \in Mine
              /\ \A s \in Slots :
                   LET word == ram[table[1]][s]
                   IN word = Zero \/ (Present(word) /\ word[1] \in Mine \ {table[1]})

(* While all programs lie below the kernel, a process that has an entry    *)
(* sees its program (elfreader.cpp:79): in each page that the loader       *)
(* counts for a segment, unless it has put a page of a later segment over  *)
(* it, zero where .bss is, elsewhere the words of the segment's part of    *)
(* the file, and it may write exactly where the segment says so.  The      *)
(* count is made from the size alone (line 126), so that it misses the     *)
(* last page of some segments; and what a segment has beyond its part of   *)
(* the file is zero only if .bss says so.                                  *)
Read(memory, base, v) ==
  LET entry == Walk(memory, base, v)
  IN IF Present(entry) THEN memory[entry[1]][v % PageSize] ELSE BeyondFile

HiddenByLater(file, h, v) ==
  \E j \in Loads(file) : j > h /\ PageNumber(v) \in PagesOf(file.segments[j])

Sees(p, h, v) ==
  LET g == p.file.segments[h]
  IN /\ Writable(ram, p.base, v) = g.write
     /\ v \in Bss(p.file) => Read(ram, p.base, v) = Zero
     /\ v \notin Bss(p.file) /\ v - g.vaddr < g.filesz =>
          Read(ram, p.base, v) = Word(p.file, g.offset + v - g.vaddr)

Addresses(g) == g.vaddr..(g.vaddr + g.memsz - 1)
ImageIsLoaded ==
  AllBelowKernel =>
    \A k \in DOMAIN processes :
      LET p == processes[k]
      IN p.entry # 0 =>
           \A h \in Loads(p.file) : \A v \in Addresses(p.file.segments[h]) :
             PageNumber(v) \in PagesOf(p.file.segments[h]) /\ ~HiddenByLater(p.file, h, v)
               => Sees(p, h, v)

(* As long as all programs lie below the kernel, loading one, and mapping  *)
(* memory for the kernel, changes nothing that a process created before    *)
(* can see below the kernel.                                               *)
View(memory, p) ==
  [v \in UserAddresses |-> <<Read(memory, p.base, v), Writable(memory, p.base, v)>>]
LoadedStaysLoaded ==
  [][AllBelowKernel' =>
       \A k \in DOMAIN processes :
         View(ram', processes[k]) = View(ram, processes[k])]_vars
=============================================================================
