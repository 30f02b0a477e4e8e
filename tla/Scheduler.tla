------------------------------ MODULE Scheduler ------------------------------
(***************************************************************************)
(* From the creation of processes to their first system call: the          *)
(* scheduler (kernel/sched.cpp), the registers that it and task/x86.cpp    *)
(* put into interrupt frames, the timer's ticks, and the way of a system   *)
(* call from libc through int 0x80 to do_syscall.                          *)
(*                                                                         *)
(* Memory's actions create the processes.  The kernel makes one process;   *)
(* the model allows several, which the code that is commented out in       *)
(* Scheduler::Scheduler would make, so that the list has more than one.    *)
(* There is one thread, and above it at most one tick: interrupts are on   *)
(* only while Serial::write waits for room, so a tick comes where the      *)
(* thread prints, and the programs run with interrupts off, since their    *)
(* eflags are reset to zero.                                               *)
(***************************************************************************)
EXTENDS Memory

CONSTANTS
  tick_slices,   (* ticks until handle_systick calls reschedule            *)
  Calls          (* what programs may pass to syscall(): code and arguments *)

CLOSE == 0
EXIT  == 1
OPEN  == 2
READ  == 3
WRITE == 4
SYSCALL_COUNT == 5

ASSUME SchedulerAssumption ==
  /\ tick_slices \in Nat \ {0}
  /\ \A call \in Calls : call.code \in Nat /\ Len(call.args) = 3

VARIABLES
  pc,             (* where the thread is                                   *)
  regs,           (* the registers of the CPU                              *)
  frame,          (* those that the tick interrupted, or NoFrame           *)
  it,             (* reschedule's iterator, pid and count                  *)
  m_current_proc, (* the scheduler's looping iterator                      *)
  run_for_ticks,  (* of each process                                       *)
  state,          (* m_state of each process                               *)
  passed,         (* history: the call that the program made               *)
  received        (* what do_syscall was called with                       *)

thread == <<pc, regs, passed, received>>
sched  == <<m_current_proc, run_for_ticks, state>>
tick   == <<frame, it>>
allVars == <<vars, thread, sched, tick>>

NoFrame == [eip |-> <<"none">>]
NoCall == [code |-> -1, args |-> <<0, 0, 0>>, target |-> 0]
NotSearching == [at |-> 0, pid |-> 0, count |-> 0]

Program(entry) == <<"program", entry>>
KernelCode == <<"kernel">>
x86_syscall_enter == <<"x86_syscall_enter">>

(* Registers::reset.                                                       *)
Reset == [eip |-> KernelCode, eax |-> 0, ebx |-> 0, ecx |-> 0, edx |-> 0, ebp |-> 0]

current == processes[m_current_proc]

(* Of the process at place k of the list; m_next_pid counts from one.      *)
pid(k) == k

InitScheduler ==
  /\ Init
  /\ pc = "create"
  /\ regs = Reset
  /\ frame = NoFrame /\ it = NotSearching
  /\ m_current_proc = 0
  /\ run_for_ticks = <<>> /\ state = <<>>
  /\ passed = NoCall /\ received = NoCall

(* The thread runs unless a tick's handler does.                           *)
At(place) == Running /\ pc = place /\ frame = NoFrame

-----------------------------------------------------------------------------
(* Scheduler and enter_scheduler.                                          *)

Create ==
  /\ At("create")
  /\ \/ \E file \in Files : NewProcess(file)
     \/ RejectFile
     \/ ProgramHeader
     \/ LoadPage
     \/ SegmentLoaded
     \/ SectionHeaders
     \/ \E count \in 1..MaxKernelPages : map_kernel_memory(count)
  /\ UNCHANGED <<thread, sched, tick>>

(* The end of Scheduler::Scheduler.                                        *)
Constructed ==
  /\ At("create")
  /\ loading = NotLoading /\ processes # <<>>
  /\ m_current_proc' = 1
  /\ run_for_ticks' = [k \in DOMAIN processes |-> 0]
  /\ state' = [k \in DOMAIN processes |-> "Running"]
  /\ pc' = "run"
  /\ UNCHANGED <<vars, regs, passed, received, tick>>

(* Mutant: the directory stays that of the process created last.           *)
RunWithoutMapping ==
  /\ At("run")
  /\ pc' = "unmask"
  /\ UNCHANGED <<vars, regs, passed, received, sched, tick>>

(* Scheduler::run up to the print of unmask_irq, by then with all three    *)
(* handlers registered.                                                    *)
run ==
  /\ At("run")
  /\ IF ~HasKernel(ram, current.base) THEN Stop("no kernel") /\ UNCHANGED pc
     ELSE /\ cr3' = current.base
          /\ pc' = "unmask"
          /\ UNCHANGED <<s_allocations, ram, processes, loading, panic>>
  /\ UNCHANGED <<regs, passed, received, sched, tick>>

(* The print of pit::initialize.                                           *)
initialize ==
  /\ At("unmask")
  /\ pc' = "pit"
  /\ UNCHANGED <<vars, regs, passed, received, sched, tick>>

(* int 0x81.  The assembly copies eax away instead of into it; in a build  *)
(* without optimisation the entry happens to be there.                     *)
enter_scheduler ==
  /\ At("pit")
  /\ pc' = "int 0x81"
  /\ regs' = [regs EXCEPT !.eax = current.entry]
  /\ UNCHANGED <<vars, passed, received, sched, tick>>

(* The handler replaces the whole frame, eflags included.                  *)
enter_scheduler_handler ==
  /\ At("int 0x81")
  /\ pc' = "program"
  /\ regs' = [Reset EXCEPT !.eip = Program(regs.eax)]
  /\ UNCHANGED <<vars, passed, received, sched, tick>>

-----------------------------------------------------------------------------
(* Ticks.                                                                  *)

MayWait == \E place \in {"unmask", "pit", "panic"} : At(place)

(* handle_systick.  Below tick_slices the handler is done at once.         *)
systick ==
  /\ MayWait
  /\ LET ticks == run_for_ticks[m_current_proc] + 1
     IN IF ticks >= tick_slices
        THEN /\ run_for_ticks' = [run_for_ticks EXCEPT ![m_current_proc] = 0]
             /\ frame' = regs
             /\ it' = [at |-> m_current_proc, pid |-> 0, count |-> 0]
        ELSE /\ run_for_ticks' = [run_for_ticks EXCEPT ![m_current_proc] = ticks]
             /\ UNCHANGED tick
  /\ UNCHANGED <<vars, thread, m_current_proc, state>>

(* Mutant: the iterator stops at the end of the list.                      *)
NextWithoutWrap(k) == IF k = Len(processes) THEN k ELSE k + 1

Following(k) == IF k = Len(processes) THEN 1 ELSE k + 1

(* Mutant: the loop looks at one process too few.                          *)
SearchesOneLess == it.count + 1 < Len(processes) /\ it.pid # pid(m_current_proc)

Searches == it.count < Len(processes) /\ it.pid # pid(m_current_proc)

(* The code behind the loop: the process that it found runs from its       *)
(* entry.  What the frame held is read into a copy of the current one's    *)
(* registers, which is lost.                                               *)
SwitchTo(k) ==
  IF ~HasKernel(ram, processes[k].base)
  THEN Stop("no kernel") /\ UNCHANGED <<pc, regs, m_current_proc, tick>>
  ELSE /\ cr3' = processes[k].base
       /\ regs' = [Reset EXCEPT !.eip = Program(processes[k].entry)]
       /\ m_current_proc' = k
       /\ pc' = "program"
       /\ it' = NotSearching /\ frame' = NoFrame
       /\ UNCHANGED <<s_allocations, ram, processes, loading, panic>>

(* One turn of the loop, which does not count, or what follows it.         *)
reschedule ==
  /\ Running /\ frame # NoFrame
  /\ IF Searches
     THEN LET next == Following(it.at)
          IN /\ it' = [it EXCEPT !.at = next, !.pid = pid(next)]
             /\ UNCHANGED <<vars, pc, regs, frame, m_current_proc>>
     ELSE IF it.pid = pid(m_current_proc)
     THEN /\ it' = NotSearching /\ frame' = NoFrame /\ regs' = frame
          /\ UNCHANGED <<vars, pc, m_current_proc>>
     ELSE SwitchTo(it.at)
  /\ UNCHANGED <<passed, received, run_for_ticks, state>>

-----------------------------------------------------------------------------
(* Programs and system calls.                                              *)

Mapped(address) == Present(Walk(ram, cr3, address))

(* A process whose file was refused is entered at address zero.            *)
PageFault ==
  /\ At("program")
  /\ ~Mapped(regs.eip[2])
  /\ pc' = "panic"
  /\ UNCHANGED <<vars, regs, passed, received, sched, tick>>

argcount(code) ==
  CASE code \in {CLOSE, EXIT} -> 1
    [] code = OPEN -> 2
    [] code \in {WRITE, READ} -> 3

(* libc's syscall() and the stubs that put the arguments into registers.   *)
syscall(call) ==
  /\ At("program")
  /\ Mapped(regs.eip[2])
  /\ IF call.code >= SYSCALL_COUNT
     THEN UNCHANGED thread
     ELSE /\ pc' = "int 0x80"
          /\ passed' = [code |-> call.code, target |-> m_current_proc,
                        args |-> [k \in 1..3 |->
                                   IF k <= argcount(call.code) THEN call.args[k] ELSE 0]]
          /\ regs' = [regs EXCEPT
               !.eax = call.code, !.ebx = call.args[1],
               !.ecx = IF argcount(call.code) >= 2 THEN call.args[2] ELSE @,
               !.edx = IF argcount(call.code) >= 3 THEN call.args[3] ELSE @]
          /\ UNCHANGED received
  /\ UNCHANGED <<vars, sched, tick>>

(* What is read from the caller's frame is reset before anything uses it.  *)
setup_syscall_regs(caller, target) ==
  [Reset EXCEPT !.eip = x86_syscall_enter, !.ebp = target]

(* handle_syscall and start_syscall.  The registers saved in regs() go     *)
(* into a copy of the process's.                                           *)
handle_syscall ==
  /\ At("int 0x80")
  /\ IF state[m_current_proc] # "Running"
     THEN pc' = "panic" /\ UNCHANGED <<regs, state>>
     ELSE /\ pc' = "x86_syscall_enter"
          /\ state' = [state EXCEPT ![m_current_proc] = "SyscallTrigger"]
          /\ regs' = setup_syscall_regs(regs, m_current_proc)
  /\ UNCHANGED <<vars, passed, received, m_current_proc, run_for_ticks, tick>>

(* x86_syscall_enter pushes the arguments; do_syscall panics.              *)
do_syscall ==
  /\ At("x86_syscall_enter")
  /\ received' = [code |-> regs.eax, args |-> <<regs.ebx, regs.ecx, regs.edx>>,
                  target |-> regs.ebp]
  /\ pc' = "panic"
  /\ UNCHANGED <<vars, regs, passed, sched, tick>>

(* The panic has printed its reason and halts.                             *)
panic_notrace ==
  /\ At("panic")
  /\ panic' = IF received = NoCall THEN "no entry" ELSE "system call"
  /\ UNCHANGED <<s_allocations, ram, cr3, processes, loading,
                 thread, sched, tick>>

HaltedScheduler == Halted /\ UNCHANGED <<thread, sched, tick>>

NextScheduler ==
  \/ Create
  \/ Constructed
  \/ run
  \/ initialize
  \/ enter_scheduler
  \/ enter_scheduler_handler
  \/ systick
  \/ reschedule
  \/ PageFault
  \/ \E call \in Calls : syscall(call)
  \/ handle_syscall
  \/ do_syscall
  \/ panic_notrace
  \/ HaltedScheduler

(* The CPU goes on in a handler that is running.                           *)
SpecScheduler == InitScheduler /\ [][NextScheduler]_allVars /\ WF_allVars(reschedule)

-----------------------------------------------------------------------------
(* What must hold.                                                         *)

(* Whoever runs after the scheduler has started, a program or its system   *)
(* call, sees the address space of the current process; a program begins   *)
(* at its own entry, and a system call is told which process made it and   *)
(* finds it marked so (sched.cpp:49, process.hpp:28).                      *)
RunsForCurrent ==
  /\ pc \notin {"create", "run"} => cr3 = current.base
  /\ pc = "program" => regs.eip = Program(current.entry)
  /\ received # NoCall => /\ received.target = m_current_proc
                          /\ state[received.target] = "SyscallTrigger"

(* The tick takes nothing from the thread that it interrupts: no matter    *)
(* how many processes there are and where the current one is among them,   *)
(* the loop finds none before it comes back to it, so that the switch      *)
(* behind the loop does not happen, and when the handler ends, the         *)
(* registers and the directory are what they were (sched.cpp:79).          *)
TicksLeaveThread ==
  [][frame # NoFrame =>
       UNCHANGED <<pc, cr3, m_current_proc>>
       /\ (frame' = NoFrame => regs' = frame)]_allVars

(* reschedule's loop ends though it never counts (sched.cpp:80).           *)
TicksEnd == frame # NoFrame ~> frame = NoFrame

(* task/x86.s:13-17: x86_syscall_enter pushes "arg3", "arg2", "arg1" and   *)
(* "syscall num", so do_syscall is called with what the program passed.    *)
SyscallSeesArguments == received # NoCall => received = passed
=============================================================================
