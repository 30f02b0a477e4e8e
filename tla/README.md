# Verification of the BunOS kernel

BunOS is a small 32-bit x86 operating system written in C++: a freestanding
library (`bustd`), a C library shared by kernel and programs (`libc`), a kernel
(`kernel`) and two programs (`coreutils`).  This directory holds TLA+ models of
its core, the TLC runs that check them on small instances, and TLAPS proofs of
the properties that matter most for every instance.  Paths below are relative
to the repository.

## 1. Inventory

### How the system runs

`kernel_main` (kernel/kernel_main.cpp:27) runs with interrupts disabled.  It
sets up the early screen, memory and the GDT, the interrupt table, the console,
the heap, physical memory, the PATA driver, the file systems, debug symbols, the
PS/2 keyboard, and enters the scheduler, which loads one program and enters it
(with the kernel's privileges: nothing changes the code segment).  There is one
CPU and no preemption in the kernel: interrupts are enabled in exactly one place
of the kernel, the busy wait of `Serial::write` (kernel/x86/tty/serial.cpp:140).
That wait is therefore where all the concurrency of the kernel is.

### Components

| Component | State | Operations | Interacts with |
|---|---|---|---|
| Ring buffer (`bustd/ringbuffer.hpp`) | array, start, size | write, read, take, push, pop, head, read_nocopy, drop, clear | serial port, console, keyboard |
| Heap (`kernel/kmalloc.cpp`) | chain of nodes in the heap area | allocate, deallocate (`new`, `delete`) | everything that owns memory |
| Console (`kernel/tty/kerneloutputdevice.cpp`, `printf`) | lock, interrupt buffer | write, flush | screen, serial port, every caller of printf, handlers |
| Serial port (`kernel/x86/tty/serial.cpp`) | transmit buffer, the UART | write, transmit, flush, interrupt handler | console, interrupts |
| Interrupts (`kernel/interrupts.cpp`, `kernel/x86/pic.cpp`) | handler table, `is_in_isr`, the PIC | register, handle, acknowledge | all drivers |
| Panic (`kernel/panic.cpp`) | `s_panicking` | panic_in_code, panic_from_interrupt | console, serial port |
| List (`bustd/list.hpp`) | nodes, head, tail | append, insert, take, remove, iterate | scheduler, PS/2 bus |
| Vector (`bustd/vector.hpp`) | array, size, capacity | push, remove, grow | file system, ELF loader |
| Scheduler (`kernel/sched.cpp`, `process.hpp`, `task/x86.cpp`) | process list, current process, tick counter | run, systick, reschedule, system call | interrupts, memory, ELF loader |
| System calls (`kernel/syscall.cpp`, `libc/unistd.cpp`) | registers of the calling process | syscall entry, dispatch, return | scheduler |
| PS/2 controller (`kernel/x86/ps2.cpp`) | controller configuration | init, detect, write, read | keyboard |
| PS/2 keyboard (`kernel/x86/ps2_keyboard.cpp`) | command queue, protocol state, shift count | send_command, handle_message, feed_scancode | ring buffer, interrupts, keyboard file |
| Keyboard file (`kernel/process/keyboardfile.cpp`) | listeners, their buffers | open, close, read, key_trigger | keyboard |
| Physical memory (`kernel/physicalmalloc.cpp`) | bitfield of pages | allocate, free | paging |
| Paging (`kernel/x86/memory.cpp`, `paging.cpp`, `pagemapguard.cpp`) | page directory and tables | map kernel, map user, temporary maps | scheduler, ELF loader |
| ELF loader (`kernel/elfreader.cpp`) | the file's bytes | validate, headers, sections, load | file system, paging |
| Ext2 and VFS (`kernel/filesystem`) | superblock, descriptors, inodes | read inode, read data, path lookup | PATA |
| PATA (`kernel/x86/pata.cpp`) | `s_master_drive`, device registers | identify, read sectors, read bytes | Ext2 |
| Screen (`kernel/x86/tty/vga.cpp`) | cells, row, column, cursor | write, scroll, clear | console |
| Formatting, numbers (`libc/stdio.cpp`, `stdlib.cpp`, `string.cpp`) | none | sprintf, strtoll, memcpy, memmove | everything that prints or parses |
| Debug symbols, stack walker (`kernel/debugsymbols.cpp`, `stackwalker.cpp`) | names and offsets | load, function_name_from_pc, walk_stack | file system, vectors, panic |

What is hard: handlers that run in the middle of a print (console, serial port,
interrupts, keyboard); a device whose interrupts can be lost (serial port); a
crash while a crash is reported (panic); hand-written pointer structures whose
boundaries meet only for some offsets or orders of calls (ring buffer, heap,
list); a register protocol between C++, assembly and the hardware (scheduler,
system calls); unsigned arithmetic on sizes read from disk (ELF, Ext2); a parser
that keeps its state across lines (debug symbols) and text whose two directions
must agree (`sprintf`, `strtoll`).

PROJECT.json lists every hazard at its line, with the properties that catch it.

## 2. Modules

    Fifo  <--implements--  RingBuffer  <-- RingBufferProofs
                               ^ its queue behaviour is used by
    OutputLog <--implements-- Console <-- ConsoleProofs
                                             (printf, lock, serial port, interrupts, panic)
    Kmalloc <-- KmallocProofs
    List <-- ListProofs                      (bustd list, looping iterator)
    Vector <-- VectorProofs                  (bustd vector, objects in its slots)
    Ps2Proofs --> Ps2 --begins--> Keyboard <-- KeyboardProofs
                                             (controller; keyboard driver, keyboard file)
    Ext2                                     (VFS, Ext2, reads from the disk)
    Memory <--extended by-- Scheduler <-- SchedulerProofs
                                             (pages, paging, ELF loader; processes, ticks, system calls)
    Text <-- Trace --> Vga --implements--> Paper
                                             (sprintf, strtoll; symbols, stack trace; the screen)

Scheduler creates its processes by Memory's actions, so that who runs can be
compared with whose pages are mapped.  Trace composes the text of a panic with
the screen that shows it; Console has the same panic as a matter of order, with
bytes that only carry their message's number.
Ps2 ends where Keyboard begins: `KeyboardBeginsClean` is what Keyboard's `Init`
presumes.  Memory's files are the byte sequences that `ReadIsWhole` of Ext2 says
the VFS returns.  Every other module uses the heap as `Kmalloc` promises it:
an allocation is nobody else's.  Console and Keyboard meet at one point: Console's keyboard handler is the step
`handle_message` of Keyboard, of which Console keeps only that it runs, may fail
an assertion and ends.  Both use the ring buffers as the queues that `Fifo`
specifies, which `RingBuffer` implements.  Two modules that only share such a
promise are not composed: their product would have no behaviour that either
lacks.

### RingBuffer, Fifo

`RingBuffer` translates every method of `SizedRingBuffer`: `m_buffer_start`,
`m_current_size` and `m_buffer` are the class's members, `result` is what the
last call returned.  `read` is split into `ReadBytes` (the two memcpy) and
`Advance` (the effect of `drop`) because `take` is both.  `Fifo` is what callers
rely on: a bounded queue.  The refinement mapping reads the queue out of the
array (`Contents`).  `ViewsStayGood` is the promise the console needs and the
comment at ringbuffer.hpp:92 does not give: bytes that were handed out as views
stay where they are while others write.

### Kmalloc

The chain of nodes is a function from header positions (in blocks of 32 bytes)
to the free flag and the number of subblocks; the walk over memory with
`next_block` becomes the walk over that function, which is legitimate because
`ChainTiles` shows that the walk visits exactly its domain.  `live` records what
callers hold.  `m_last_block` is modelled as the code computes it, in units of
`sizeof(Block)`: it lies at a quarter of the heap.  Sizes are kept in bytes
because the rounding of `allocate` is what could be wrong.

### Console, OutputLog

One module for the five files that only make sense together.  The CPU is a
stack of frames; the frame at the top runs.  A frame's `pc` names the point in
the code it has reached; code with interrupts off is cut only where a property
looks.  `Deliver` is the CPU and the PIC, `EndOfInterrupt` the way back through
`acknowledge` and `iret`.  Bytes carry the number of their message, so that
order, loss and duplication can be told.  The two ring buffers are sequences
with the behaviour `Fifo` specifies.  The UART, the PIC and the keyboard are not
under `src/`: they are modelled from how the drivers use them (external).

  - `Uarts` names the machines there may be; `Init` chooses one (`chip`).  With a
    "slow" UART sending 16 bytes takes longer than a handler that does not poll
    and than leaving the busy wait: it is true of a real line at any speed the
    driver can set.  A "quick" one, such as an emulator's, sends at once.  The FIFO of a
    "lagging" one runs empty (interrupt raised) before its shift register does
    (`TransmitterEmpty`, 0x40, which the driver tests).
  - `Crashes` names where an assertion may fail or an exception may be raised.

`OutputLog` states what the console promises: the screen shows a text that only
grows, and the serial line carries a prefix of that text.

### List

A node stands for the element it carries; `next` and `prev` are functions on
nodes, `list` holds `m_head`, `m_tail` and `m_size` of every list, `it` is a
looping iterator.  `new` returns any node that is not live.  `elems` is history:
what callers put in and have not taken out.  Taking the last of several
elements, moving elements between lists that hold several, `remove_if` on an end
and moving onto a list that holds elements leave broken lists in this code; no
caller in the kernel does any of them.  They are in the model, each behind a
member of the constant `Habits`, which is empty in list_shape; section 5 says
what fails when it is not.  A caller gives up an iterator when the element it points to, or began at, is
taken out in another way than by `remove_loop`.

### Vector

`vectors` holds the three members of each vector, `heap` the slots of the
storage that is allocated, by its address, and `alive` counts constructors
called less destructors called.  `trivially_copyable`, which the code asks of
the type at compile time, is chosen by `Init`.  A slot without an object is
`Raw`.  Slots are moved by `memcpy` and `memmove` as libc/string.cpp has them,
the loop forwards and the loop backwards included.  `elems` is history: what callers put in and did not take out.  What the
methods do to memory is written as operators on one record, because methods call
each other (`push` grows, a copy clears and pushes); a loop of calls is a
recursive function of the number of calls.  A call whose assertion
fails has no step.  As in List, what callers could do and the kernel does not
is behind a member of `Habits`.  Iterators are an index and are left out.

### Keyboard

The driver's three variables have the code's names.  `handle_message` is one
interrupt; it is either `handle_acknowledgement` or `feed_scancode`, and a
message for which neither is enabled is the failed assertion of
ps2_keyboard.cpp:84.  `Fed` is the decision table of `feed_scancode`, with
scancodes abstracted to letters, shift keys and silent keys (those for which
`scancode_to_ascii` returns 0); letters and shift keys have the same codes in sets 2 and
3.  The file's calls are cut in two where interrupts are on: the lock is taken
and the owner checked, then the rest runs with interrupts off.  `call` is the
lock.  The keyboard and the wires to it are not under `src/`: the keyboard
answers every byte, asks again for a byte that arrived garbled (`Garbled` names
those that may) and takes a command in the place of a parameter for a command.

### Ps2

`pc` is the driver's next step; a step is what it does up to and including its
next read, since nothing but a key can come between.  The waits before the reads
test another port (ps2.cpp:51, 57: the flag is applied to the port number), so a
read takes the first byte that is there, or, if there is none or it comes too
late (`late`), the byte read last.  Bytes carry what made whom send them.  What
is plugged in (`Kinds`), what the self test does to the configuration, and keys
are the environment's choice.  `Quiet` says that nobody pressed a key and no
answer came late: what holds only then is stated so.

### Ext2

The disk is a function from word addresses to words: superblock, descriptor
table, inodes, indirect blocks, directory entries and data lie where their block
numbers say.  `Image`, in MCExt2, lays out the disk of a tree of files as
mkfs does; the tree is what properties compare with.  `read_bytes` translates the sector arithmetic of
pata.cpp, `read_inode_block` the choice between direct and indirect blocks, and
`for_each_entry_in_dir` the walk over directory entries.  They are operators on
the disk, since nothing writes to it; the actions are `initialize_pata`, over
whatever may answer as master and as slave, mounting, and the calls of the VFS.
The loops that wait for the drive's status are abstracted to their end.  An
error of the arithmetic that makes the code write past a buffer, loop or read
outside the disk ends in `Stop`, and `StopsAtLimitsOnly` names when that is.

### Memory

A page is an array of as many words as a table has entries, and a word is data
or an entry; directories, tables and programs therefore live in the same `ram`
as in the machine, and a page that is used twice shows.  The kernel's table is
one page more of `ram`, as `kernel_page_table` is an array of the kernel, and
every directory's entry `KernelDir` leads to it.  Its entries are laid out as
linker.ld lays out the kernel: first the slots below `_kernel_start`, with the
page map guards' and the screen's among them, then code, then writable memory,
and at `HeapEnd` the entry that `init_kernel_area` writes beyond its range: the
first allocatable page, later the first process's directory.  What the kernel's
own entries map has no words (`KernelMemory`, `Screen`).

The loader maps what memory.cpp:274 lets through: segments up to `_kernel_start`,
the first slots of the kernel's table included, where a new page replaces the
entry that all processes share (through a guard that clears its own slot, which
`NewEntry` shows), and it zeroes a `.bss` at any writable address.  `Walk` and
`Writable` are the processor's; a write to what is not mapped or not writable is
a "page fault", one into the kernel's own memory is "kernel overwritten", behind
which the model describes nothing, and a directory without its kernel entry is
"no kernel": the machine resets.  A zeroed `.bss` at `HeapEnd` clears the first
process's directory like any other page.  Program headers are checked as the
assertions of elfreader.cpp:119 and 121 do, with the sum wrapping in its word,
and section names as one flag (`names`).

Creating a process is cut between its program headers, its pages
and its section headers; `Stop` is a failed assertion, with its reason.  Pages
are never freed in this code (`free_physical_page` has no caller), so running
out of them is a normal end.  `map_kernel_memory` has no caller in this code either; it is
an action because it is part of the component.

### Scheduler

`pc` is where the one thread is, from the creation of the processes over
`Scheduler::run` and `enter_scheduler` into a program, and through `int 0x80`
into `do_syscall`, which panics.  `regs` are the registers of the CPU; a
handler that replaces or reads the interrupted registers does so in `regs`,
since the interrupt frame is what `iret` restores.  A tick is a second frame
above the thread (`frame`); it can come only where the thread prints, since only
the busy wait of `Serial::write` has interrupts on, and programs start with
`eflags` zero.  `it` is the iterator of reschedule's loop, with its pid and
its count, which no turn changes (sched.cpp:80); the loop is cut per turn, and its
exits are the code's: by the current pid, which ends the handler, or by the count,
behind which `SwitchTo` replaces directory, frame and current process
(sched.cpp:89-92).  That the second exit is never taken is what
`TicksLeaveThread` says.  The kernel makes one process; several are allowed here, as the code that
is commented out in `Scheduler::Scheduler` makes them.  `passed` is history: the
call the program made.

### Text, Vga, Paper, Trace

`Text` has `sprintf` and `strtoll` as functions on sequences of characters.
`Numeral` stands for the loops of `to_string_hex` and `to_string_unsigned`, in
words of `NibbleCount` hexadecimal digits; products in `strtoll` wrap like the
`int` they are computed in.  Every loop over a string is a recursive function or a `CHOOSE` of
where it ends, so that the modules could be proved about.

`Vga` puts one character per step.  `gone` is history: the rows that were
scrolled off, so that the screen can be compared with `Paper`, an endless roll
on which characters are written one after the other.

`Trace` reads the symbol file character by character, as the parser of
`load_debug_symbols` does, looks names up, and prints a panic with its stack.
A stack is the chain of frames that starts at the panic; the screen is Vga's.
`printed` is history: each call of printf with its format, arguments and text.
The character backspace is called "BS".

## 3. Runs

| Run | Question | Result |
|---|---|---|
| ring_fifo | Does the ring buffer behave as a queue at every offset, and keep views good? | holds |
| heap_safety | Do allocations never overlap, does the chain tile the heap, is all restored? | holds |
| console_safety | Lock, order on screen and serial line, messages in one piece, flush before halt; every panic ends in a halt, every wait with a slow UART ends | holds |
| console_freeze | The same wait with a quick UART (serial.cpp:132) | violated |
| list_shape | Do lists hold what was put in, both ways, and iterators stay inside? | holds |
| vector_objects | Do vectors hold what was put in, and is each object and storage ended once? | holds |
| keyboard_keys | Does each letter reach the right reader once, in order, in the right case? | holds |
| ps2_init | Is the keyboard found and left as its driver expects it, and nothing else taken for one? | holds |
| ext2_read | Do lookup, reading and listing return what is on the disk, up to the named limits? | holds |
| process_run | Has a page one owner, does a process see its program and only its own pages, does who runs stay the current process, and do ticks end and leave no trace? | holds |
| syscall_args | Is do_syscall called with what x86_syscall_enter says it pushes (task/x86.s:13)? | violated |
| trace_screen | Does a trace name every frame rightly, do numbers read back, does the screen show the end of the roll? | holds |

Bounds.  ring_fifo: three slots, chunks of up to four bytes: every write can be
straight, split or wholly wrapped and longer than the room.  heap_safety: 24
blocks, so that `m_last_block` falls on the sixth and nodes end before and
behind it; sizes 16, 17 and 80 are an exact fit, one byte more, and three
blocks.  Console: a ring of two bytes, an interrupt buffer of two, a FIFO of
one, messages of one or two bytes, so that every message may have to wait and
the interrupt buffer may overflow; five messages leave console_safety one that
waits, one from its handler, one that flushes and waits, one more from a handler
and a panic beside them.
No message is longer than the ring, as in the code (1023 bytes at most, 1024).
list_shape: two lists and five nodes: three elements give a first, a middle and
a last one, and the other list may hold two meanwhile; the nodes are
interchangeable (symmetry), since no step prefers one.  vector_objects: two
vectors of two values and up to three elements: capacities grow to 1, 2 and 4,
an odd size leaves a slot free, and a removal has elements on both sides.  keyboard_keys: one
letter that may repeat, both shift keys, one silent key that is released once; a
wire of three bytes holds a release and the press after it; a file of one key
overflows with the second letter; the first byte of the handshake may arrive
garbled, once.  ps2_init: two ports, six kinds of device, two keys, one of them
with a code that is also part of an identification.  ext2_read: sectors of 8
words, blocks of 16, two direct blocks and one indirect block, so that 17 words
need a second block and 33 the indirect one; files of 0, 10, 16, 17, 20, 32, 50,
272 and 273 words are empty, shorter than a block, whole, one word longer, as
long as the code allows and one word longer than that; blocks lie forwards or backwards,
and a directory may have an entry deleted or a second block.  Blocks are of two
sectors, as mkfs.ext2 makes them for the image of build_disk_image.sh.
Every pair of drives (a disk, none, a packet device, a faulty one, one
that does not tell its sector size) occurs, on one image.
process_run: pages of eight words, ten of them (two processes do not always
fit); a kernel table with one free entry in front of the guards' slot, the
screen's, one of code, one of memory, the one at the heap's end and two free ones
behind, so that kernel mappings of one and two pages fit or not; programs with
code, data and .bss, with segments in two tables, on one page, beginning inside a
page and missing the last page by the count; files that are refused or stop the
kernel for each reason; segments in the free slot, the guards' slot and at
`_kernel_start`; .bss at the screen, in code, in memory, at both halves of the
heap's end; two processes, a reschedule at every second tick, and a system call with three
arguments beside one with an unknown code.  syscall_args: one process, and calls with one, two and
three arguments.  trace_screen: words of eight bits (two
hexadecimal and three decimal digits) with the values on both sides of every
change of length, of the sign, and of a zero inside; a screen of three rows of
five, so that every line wraps and the screen scrolls; four symbol files (two
symbols at one address, names with spaces, offsets at both ends and beyond
the sign, an undefined symbol, an empty file); four stacks, one of them empty;
one message before the panic.

Fairness.  `Fairness` of `Console` says that the CPU executes the running frame,
that it takes an interrupt it is offered for ever, and that a UART that has
bytes sends them.  Nothing is assumed of callers: nobody has to print.  The busy
wait is a self-loop, so a wait that nothing ends is an infinite behaviour.  The
keyboard has no liveness property: its interrupts are taken only while somebody
waits in `Serial::write`, and nothing in the code makes anybody do so.

`SpecScheduler` assumes that the CPU goes on in a tick's handler that is running
(`WF(reschedule)`): nothing interrupts it.  Nothing is assumed of ticks or of
programs.  The refinements and the other runs need no fairness.

CHECK_DEADLOCK is off in ps2_init, where the function returns.

## 4. Proofs

`RingBufferProofs`: `TypeOK` is inductive.  `ViewsStayGood` follows from it by
cases on the three copies of `write`.  `RingImplementsFifo` shows that each
operation maps to the queue's: the key lemmas say which slot holds the k-th byte
before and after a write and a drop.  Assumptions: a capacity and a chunk length
of at least one.

`KmallocProofs`: the inductive invariant is the conjunction of `TypeOK`,
`ChainTiles`, `NoTwoFreeInARow` and `UsedIsLive` (`HeapCorrect`).
`ChainTiles` is needed to know that a walk finds the next header, `UsedIsLive`
to know that what is merged is nobody's.  `HeapDisjoint`, `HeapNoFragments` and
`HeapRestored` follow from the invariant.  Assumptions: at least one block, sizes
are natural numbers.

`ConsoleProofs`: `ConsoleInv` has three parts.  `ConsoleType` types what is
printed and bounds the two buffers.  `LockInv` says what the frames are: the
thread, and at most one handler, which interrupted the thread's wait; the lock
is held exactly at the places `Holding`, and interrupts are on exactly where the
thread waits alone.  `MirrorInv` says that the screen shows what was sent, then
what is in the serial buffer, then what the thread's frame still has to write
(`Pending`, read off its place).  Each action then moves bytes from one of the
three to the next.  From it follow `WindowIsLocked`, `NobodySpins` (assuming
`TrapFree`: no handler raises an exception without an error code, see section
5), `SerialFollows`, `HaltedFlushed` and the refinement `ConsoleImplementsLog`,
for every size of the buffers, every kind of UART, all crashes and any number of
messages.  Sequences are kept behind `Cat` and `Texts`, of which the steps
use four laws only.
`MessagesStayInOnePiece` adds `PieceInv` and needs no assumption.  It speaks of
`Shown`: what the screen shows, followed by what it will get of what was
printed.  What that is (`Coming`) depends on the thread's place: until the
message is begun, the interrupt buffer and then the message; between the showing
of the buffer and `clear` (kerneloutputdevice.cpp:26) the message only, since
what handlers add then is lost; otherwise the buffer.  `Shown` has no byte
twice, no byte without its predecessor, and no number above `messages`; a
handler about to print has a number above all of them.

`ListProofs`: `ListInv` is `LinksInv` (`next` and `prev` are the elements' chain
in both directions, `Ownership`, and nodes that are not allocated hold no
pointers) and `IteratorInv`.  That free nodes hold no pointers stands for the
constructor of `Node`, on which the methods rely.  It gives `Shape`, `Ownership` and
`IteratorStays` for any number of lists and nodes, for callers that do what the
kernel's do (`Habits = {}`): each member of `Habits` is known to break one of
them (section 5).

`SchedulerProofs` has two parts.  Of the steps of `Memory`: `OwnInv` is inductive
for all programs, those in the kernel's addresses included.  It says that no
process owns a page twice, that the pages of two processes are disjoint and that
what a process owns is marked in the bitfield; the allocations are all it needs,
so no contents of tables can break it.  `MemInv` is inductive as long as
`AllBelowKernel` holds, which is about the files in use and can only become false
(`FilesStay`), so that `MemCorrect`, `OwnInv` and `MemInv` under
`AllBelowKernel`, is an invariant.  `MemInv` says that directories
refer to their own process's tables and pages and are empty elsewhere, that the
kernel's table leads to pages that are allocated and nobody's, but for the first
directory at `HeapEnd`, that free pages hold zeros, and that `cr3` is the directory
of the process being loaded.  Zeros in free pages are needed because a new table
is not cleared: memory is zero at boot and nothing is given back.  `LeastMember` and
what follows from it say what the search for room in
the kernel's table finds.  Assumptions: those of `Memory` on sizes
and files (`MemoryAssumption`, `FilesAssumption`).
Without `AllBelowKernel` the theorems on what a process reaches and sees are
false of the code, and process_run has the programs that would break them.
`ImageInv` is inductive beside it and says what of a program is in its place.
While a program is loaded no two entries of its tables lead to one page
(`Separate`), the loop is at the first address of the segment or at the beginning of
a later page, with as many pages left as the count from the size says (`Cursor`),
and each address that the loop has passed holds its word of the file (`Copied`);
afterwards it holds that word or zero (`CreatedIn`), but for addresses that a later
segment's page hides (`HiddenByLater`).  An iteration keeps this since
the pages it puts in place within one segment are different ones, and an
address passed before is either on another page or is now hidden; clearing `.bss` keeps it since two addresses
with the same word in memory are one address (`OnePage`, `Separate`).
`LoopReaches` is where the count from the size matters: it says that the loop
has passed all of `PagesOf` when it ends.

Of the steps of `Scheduler`, which create processes by those of `Memory`: `ThreadInv` says, for each place of the thread, which process
and directory are current, what the registers hold and where a tick's frame may
be; together with `MemInv` it gives `OneOwner`, `OwnPages`, `ViewsLast`,
`CurrentRuns` and `TicksTakeNothing`, and with `ImageInv` `ProgramsAreLoaded`,
for any memory, programs, processes and ticks.  For ticks its part is that while
the loop runs its count is zero, that there is a process and that `frame` is what
the registers hold: the loop cannot exit by the count, so it exits at the current
pid, and `SwitchTo` is not reached.

`KeyboardProofs`: `KeysInOrder` follows from `KeysInv`: what was read followed by
what is in the listener's buffer carries increasing numbers, none above the
number of keys delivered, and all above those delivered at the opening once the
file has an owner; while it is being opened nothing was read.  Writing what the full buffer
cannot hold, and clearing at the opening, keep that.
`NoKeyBeforeTheAnswers` is by `TalkInv`, which says what may be on either wire
for each of the three states of the driver's queue: until the driver has had an
acknowledgement for `set_scancode_set`, the keyboard does not scan; once it
waits for the last one, either that is still so or the answer it waits for is
before every key.  `KeyboardSpeaksSet3` adds `SetInv`: the command is followed by
its parameter, a keyboard that awaits a parameter is sent it next, and no
acknowledgement comes before the set is known.  Its hypothesis is that only
`set_scancode_set` may arrive garbled; section 5 says what happens otherwise.
`LettersAreDecoded` says by `DecodeInv` that decoding what is on the wire,
from the driver's present state, will give what was typed; the hypothesis
`FewShifts` is that there are fewer than 256 shift keys, as many as the u8 count
tells apart.

`Ps2Proofs`: `KeyboardIsRecognised` (`TypeIsRight`) is by `TypeInv`, without any
assumption that answers come in time: an acknowledgement of a reset cannot be
read as its result, and the two bytes of an identification can only be read out
of the device that sends them.  `KeyboardIsSetUp` and `NothingElseStops`
(`KeyboardBeginsClean`, `StopsForAReason`) are by `QuietRun`, which says for each
step of a run in which nothing was late what is at the data port, which device
is being checked and which was found first.  Hypotheses: `KnownKinds` (a device
sends at most one byte after its self test; its identification is nothing, one
byte, or AB and one byte; it refuses only the three commands the driver sends)
and `PlainKeys` (no key sends what ends a self test or begins an
identification).  `PlainKeys` is true of the scancode set a keyboard begins with; of
the translated set it is not, as AA and AB are releases there, and a
driver that reads too early can then take a key for an answer.  MCPs2 asserts both.

`VectorProofs`: `VectorInv` says of the memory (`Sound`) that each vector's
storage holds its elements and then raw slots (`Owns`), that no two vectors have
the same storage and together have all of it, and that `alive` is the number of
pairs of a vector and an index below its size (`Objects`); `VectorsHoldElements`
and `ObjectsEndOnce` follow.  `Sound` is a predicate on what the operators work
on, so that each operator has one lemma: given a sound memory and the elements,
it gives a sound memory and the elements it should (`ResizedSound`,
`PushedSound`, ...).  Nearly all are cases of `OneChanges`: one vector and its
storage change, the others keep theirs.  The loops (`Cleared`, `PushedAll`,
`RemovedIf`, the copies of `memcpy`) are covered by `UpTo`, induction along
`0..n` as a fact about sets, from `LeastMember`: after k turns a loop's
memory is sound with the elements that k turns should leave.  `remove_if` needs
more: after k visits the vector holds what is kept of the first p elements and
then the others (`Mixed`), where p may have run ahead of k, and as no two
neighbours are picked the element that a removal moves in front of the next visit
is one to keep (`OneVisit`).  Hypothesis: `Habits = {}`, the calls the kernel
makes; each member of `Habits` is known to break a property (section 5).

Only model-checked: what is about `Ext2` and `Trace` (its refinement of `Paper`
included), which compare results of folds and recursive operators over file and
text data; and the reasons for which Ext2 stops.  Liveness under fairness (`WaitEnds`, `SlowWaitEnds`,
`PanicHalts`, `TicksEnd`) and `ENABLED` are out of the prover's reach and stay with
TLC, and so does what recursive functions compute (`sprintf`, `strtoll`).

## 5. What the models leave out

Observed while modelling, without a run of its own:

  - With the lagging UART in console_freeze, `WaitEnds` fails, too: the handler
    tests TransmitterEmpty (serial.cpp:87) though the interrupt only says that
    the FIFO is empty, so on a line whose shift register is still busy the
    interrupt is used up with nothing sent.
  - With an exception without error code ("trap") in `Crashes`, `PanicHalts`
    fails: raised in the stack trace of a handler's panic, it clears
    `is_in_isr` (interrupts.cpp:50), and the nested panic's print spins on the
    lock that the interrupted print holds; the comment at panic.cpp:111 says that the late check is safe.
  - List: with `remove last` in `Habits`, `Shape` fails: `take_node` gives the
    list the removed node's `next` as its tail (list.hpp:225), and the next
    `append_back` fails the assertion of list.hpp:286.  With `transfer`, it
    fails because a moved element keeps its `next` (list.hpp:73).  With `remove ends` it fails because `remove_if` (list.hpp:248)
    never sets head and tail.  With `move onto`, `Ownership` fails: the nodes
    that the target held are lost.
  - Vector: with `remove objects` in `Habits`, `EveryObjectEndsOnce` fails:
    `remove` of a type that is not trivially copyable moves from the slot behind
    the last element and never destroys the last object (vector.hpp:147).  With
    `remove neighbours`, `HoldsItsElements` fails: `remove_if` skips the element
    behind a removed one (vector.hpp:157; the test in bustd/test/vector.cpp
    removes no two neighbours).  With `move onto`, objects that the target held
    are never destroyed (vector.hpp:37).  `memmove`'s second condition
    (string.cpp:113) repeats its first: an overlap with the source in front is
    copied upwards, and a source far behind downwards, one byte too high.  Its only caller, vector.hpp:144,
    meets neither.  With `copy itself`, a vector clears
    itself before it copies (vector.hpp:26).
  - The release of a silent key leaves the driver in `Relase` (ps2_keyboard.cpp:125):
    the next press is swallowed, and if it is a shift key the u8 count wraps and
    all later letters are upper case.  `KeysAreDecoded` is stated up to such a
    release.
  - A panic raised by a handler during a busy wait puts its reason into the
    interrupt buffer, which nobody prints any more.
  - `clear` at kerneloutputdevice.cpp:26 empties the interrupt buffer after two
    waits, in which handlers may have added to it: those bytes are lost though
    the buffer never ran over.
  - Behind the first quarter of the heap `next_block` returns null
    (kmalloc.cpp:41 counts in headers, not in blocks), so a node there is never
    split: an allocation keeps all of it, and NODE_SPLIT_THRESHOLD (line 23) is
    never read.
  - If the keyboard asks for a later command byte again, the driver, one answer
    ahead of it (ps2_keyboard.cpp:88), repeats the wrong command, and set 3 is never set;
    `Garbled` holds the first byte only.
  - A key pressed between the reset of a keyboard and the end of its scanning
    comes in front of an answer: the driver gives the keyboard up, or fails an
    assertion when it checks the second device.  A port whose test passes but
    which is empty fails the assertion at ps2.cpp:220.  A keyboard on the second
    port is found, but its driver listens to the first one's interrupt
    (ps2_keyboard.cpp:13).
  - Ext2: a file shorter than a block is copied past its buffer (ext2.cpp:196),
    the last eleven blocks of the indirect block are refused (ext2.cpp:158), a
    directory in the last block of the disk is read past it (ext2.cpp:225), and
    with blocks of another size than 1 KiB the descriptor table is looked for
    in the wrong place (ext2.cpp:59).  `StopsAtLimitsOnly` lists the first three.
  - PATA: without a master, mounting divides by a sector length of zero
    (pata.cpp:259); a slave that is no plain disk stops the kernel though
    nothing is ever read from it (pata.cpp:135, 206); and a drive whose word 106
    is zero runs into a TODO (pata.cpp:181), where the comment says that the
    information is valid.
  - Memory: a segment that begins inside a page may need a page more than
    elfreader.cpp:126 counts; of two segments on one page the second hides the
    first (memory.cpp:310); a new page table is not cleared, which is harmless only
    while memory is zero at boot and pages are never freed; `map_kernel_memory` begins one entry too low
    (memory.cpp:187), so two calls return the same address.
  - Memory: the loader accepts segments in 0xC0000000..0xC0100FFF
    (memory.cpp:274 compares with `_kernel_start`): two such programs replace each
    other's entry in the one kernel table, everybody reaches their pages, and the
    one at the page map guard's slot is lost when the guard ends
    (pagemapguard.cpp:22).  A `.bss` is zeroed wherever the kernel may write
    (elfreader.cpp:228).  The kernel's table maps at `_kernel_heap_end` the first
    allocatable page (memory.cpp:57), the first process's directory: a `.bss`
    there clears its entries.  `AllBelowKernel` names the programs that do none of
    this; `ReachesOwnPagesOnly`, `ImageIsLoaded`, `LoadedStaysLoaded` and one half of
    `PagesHaveOneOwner` are stated while it holds.
  - Memory: not described are what a kernel does that overwrote its own memory,
    what is written to the screen by a program, files so long that `p_filesz`
    exceeds an address of the heap (elfreader.cpp:147), and what lies in the heap
    behind a file, which is read when `p_offset` wraps: the model reads one
    value there or stops in a page fault.

  - System calls: the registers that `setup_syscall_regs` saves by `regs()` go
    into a copy (task/x86.cpp:106), which syscall_args shows by its effect;
    `insert_into_frame` never sets `esp`, so the system call's thread stays on
    the program's stack; `start_syscall`'s second assertion cannot be reached,
    since `do_syscall` panics; a code of `COUNT` or more returns 1 without a trap.
  - Scheduler: programs run with interrupts off (`eflags` is zero), so ticks
    come only in prints; reschedule never counts, so that it never leaves the
    current process and no other one is ever run (`TicksLeaveThread` shows it); a refused file's process is entered at address
    zero; the assembly of task/x86.cpp:93 copies `eax` into its operand and works
    only in a build that keeps the entry in `eax`.
  - Numbers: `strtoll` accepts the base itself as a digit and, as letters, those
    up to the index of the base; a word above the largest `int` is read back
    only modulo the word; without digits it reads in front of the string until an
    assertion fails.  `printf`'s buffer of 1024 bytes is checked when it has been
    written (stdio.cpp:268).
  - pic.cpp:63: for a line of the slave, `unmask_irq` sets all other bits of the mask
    and does not clear its own; no slave line is used.
  - Screen: scrolling fills the last row with 0 bytes and clearing with spaces;
    both are blank here.

Not modelled for good: `Optional`, `OwnedPtr`, `Function`, `StringView` and the
algorithms of bustd (values without a protocol; ownership is modelled where it
is used), boot assembly, GDT, port I/O, PIT and interrupt stubs (executed once in
one order, or part of Console's `Deliver` and `EndOfInterrupt`), `libubsan`,
`libtest` and the C++ runtime (no state of the system), `toolchain` and
`coreutils` (build files and two trivial programs).  Of modelled components,
what is left out is named in PROJECT.json; cyclic frame chains and frames at
address zero are not among the stacks of Trace, and `free_physical_page` has no caller.

## 6. Plan

Done: every component that keeps a state, as listed in section 2, and proofs for
the ring buffer, the heap, the console (messages in one piece included), the
list, the ownership of pages, the loading of programs, the scheduler, the PS/2
controller and the keyboard.

Left:

1. Proofs: `ImplementsPaper` for every size of screen.
2. `OwnedPtr` and `Optional` over Kmalloc, if their callers grow beyond the list.
