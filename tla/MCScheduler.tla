------------------------------ MODULE MCScheduler ----------------------------
(* Pages of eight words.  The kernel's table begins with a free entry, the *)
(* guards' and the screen's, then come an entry of code, one of memory,    *)
(* the one behind the heap, and two free.  The programs are what linkers   *)
(* make, code and data with .bss, segments that begin inside a page, that  *)
(* need a second table, that share a page, and that end one page later     *)
(* than the loader counts; broken ones; and those that reach into the      *)
(* kernel's entry of the directory.  System calls have three, two and one  *)
(* arguments, and one is unknown.                                          *)
EXTENDS Scheduler

Text(n, k) == [j \in 1..k |-> <<100 * n + j>>]
Segment(vaddr, offset, filesz, memsz, write) ==
  [type |-> "load", vaddr |-> vaddr, offset |-> offset, filesz |-> filesz,
   memsz |-> memsz, align |-> PageSize, write |-> write]
Note == [Segment(0, 0, 0, 0, FALSE) EXCEPT !.type = "ignored"]
Interp == [Segment(0, 0, 0, 0, FALSE) EXCEPT !.type = "unsupported"]
Bytes(addr, size) == [addr |-> addr, size |-> size]
Executable(n, k, segments, bss) ==
  [valid |-> TRUE, names |-> TRUE, entry |-> segments[1].vaddr + 1, words |-> Text(n, k),
   segments |-> segments, bss |-> bss]
Kernel(slot) == (KernelDir * PageSize + slot) * PageSize

CodeAndData ==
  Executable(1, 20, <<Segment(8, 1, 9, 9, FALSE), Note, Segment(34, 10, 3, 5, TRUE)>>,
             Bytes(37, 2))
TwoTables ==
  Executable(2, 14, <<Segment(52, 2, 9, 9, FALSE), Segment(60, 3, 6, 9, TRUE)>>,
             Bytes(66, 3))
EndsLater(n, bss) == Executable(n, 14, <<Segment(14, 1, 6, 8, TRUE)>>, bss)
TooLong == Executable(5, 4, <<Segment(8, 0, 2, 6, TRUE)>>, Bytes(0, 0))
Small(n) == Executable(n, 9, <<Segment(8, 0, 2, 2, TRUE)>>, Bytes(0, 0))
Unaligned == [Small(6) EXCEPT !.segments[1].align = 1]
NoNames == [Small(7) EXCEPT !.names = FALSE]
NoProgram == [Small(8) EXCEPT !.valid = FALSE]
Dynamic == [Small(9) EXCEPT !.segments = Append(@, Interp)]
BeforeFile == [Small(10) EXCEPT !.segments[1].offset = AddressSpace - 1]

SegmentAt(n, slot, write) ==
  Executable(n, 9, <<Segment(Kernel(slot), 0, 2, 2, write)>>, Bytes(0, 0))
BssAt(n, addr) == [Small(n) EXCEPT !.bss = Bytes(addr, 2)]
KernelFiles ==
  {SegmentAt(11, 0, FALSE), SegmentAt(12, TempSlot, TRUE), SegmentAt(13, KernelStart, TRUE),
   BssAt(14, Kernel(VgaSlot)), BssAt(15, Kernel(KernelStart)), BssAt(16, Kernel(WritableStart)),
   BssAt(17, Kernel(HeapEnd)), BssAt(18, Kernel(HeapEnd) + KernelDir)}

MCFiles ==
  {CodeAndData, TwoTables, EndsLater(3, Bytes(15, 1)), EndsLater(4, Bytes(20, 2)),
   TooLong, Unaligned, NoNames, NoProgram, Dynamic, BeforeFile} \cup KernelFiles

Call(code) == [code |-> code, args |-> <<11, 12, 13>>]
FewCalls == {Call(WRITE), Call(SYSCALL_COUNT)}
MCCalls == {Call(CLOSE), Call(OPEN), Call(WRITE), Call(SYSCALL_COUNT)}
=============================================================================
