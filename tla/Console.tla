------------------------------- MODULE Console -------------------------------
(***************************************************************************)
(* Kernel output: printf through KernelOutputDevice (VGA and serial port), *)
(* its spin lock and interrupt buffer, the interrupt-driven Serial driver, *)
(* the interrupt dispatch with the PIC, and panic.                         *)
(*                                                                         *)
(* The kernel runs with interrupts disabled except inside the busy wait of *)
(* Serial::write, so code outside that wait is interrupted nowhere.  The   *)
(* CPU is a stack of frames: the kernel's own thread of control at the     *)
(* bottom and an interrupt handler above whatever it interrupted; the top  *)
(* frame runs.  The two ring buffers are the queues that module Fifo       *)
(* specifies and RingBuffer implements.                                    *)
(***************************************************************************)
EXTENDS Integers, Sequences

CONSTANTS
  SerialSize,   (* capacity of Serial::m_buffer                            *)
  BackupSize,   (* capacity of KernelOutputDevice::m_interrupt_buffer      *)
  FifoSize,     (* fifo_size: bytes the UART takes at a time               *)
  Lengths,      (* the lengths of the messages that are printed            *)
  MaxMessages,  (* bound: messages printed other than by panic             *)
  MaxKeys,      (* bound: bytes the keyboard sends                         *)
  Crashes,      (* what may go wrong: pairs of a place and a kind          *)
  Uarts         (* the kinds of UART there may be                          *)

ASSUME ConsoleAssumption ==
  /\ SerialSize \in Nat \ {0} /\ BackupSize \in Nat \ {0} /\ FifoSize \in Nat \ {0}
  /\ Lengths \subseteq Nat /\ MaxMessages \in Nat /\ MaxKeys \in Nat
  /\ Crashes \subseteq {"idle", "keyboard", "trace"} \X {"assert", "fault", "trap"}
  /\ Uarts \subseteq {"slow", "quick", "lagging"}

(* A "slow" UART never empties its FIFO while a handler runs, unless that  *)
(* polls it, or before the busy wait has seen the room that was made; the  *)
(* FIFO of a "lagging" one runs empty before its shift register.           *)

VARIABLES
  chip,        (* the UART of this machine                                 *)
  stack,       (* the frames, the running one last                         *)
  ifFlag,      (* the CPU accepts interrupts                               *)
  is_in_isr,   (* the flag of kernel/interrupts.cpp                        *)
  inService,   (* the PIC's in-service register                            *)
  irr,         (* the PIC's interrupt request register                     *)
  locked,      (* KernelOutputDevice::s_m_lock                             *)
  s_panicking,
  backup,      (* m_interrupt_buffer                                       *)
  buffer,      (* Serial::m_buffer                                         *)
  vga,         (* all that was written to the screen                       *)
  sent,        (* all that was handed to the UART                          *)
  uart,        (* "sending" (FIFO not empty), "shifting" or "idle"         *)
  thri,        (* the UART's transmitter interrupt is pending              *)
  messages,    (* how many messages were printed                           *)
  keys         (* how many bytes the keyboard sent                         *)

cpu     == <<stack, ifFlag>>
intr    == <<is_in_isr, inService, irr>>
serial  == <<buffer, sent, uart, thri>>
console == <<locked, s_panicking, backup, vga>>
bounds  == <<messages, keys>>
vars    == <<chip, cpu, intr, serial, console, bounds>>

Keyboard == 1
Com1     == 4

MinOf(a, b) == IF a <= b THEN a ELSE b
Take(s, n)  == SubSeq(s, 1, MinOf(n, Len(s)))
Skip(s, n)  == SubSeq(s, MinOf(n, Len(s)) + 1, Len(s))

(* The bytes of message number m, told apart.                              *)
Message(m, length) == [i \in 1..length |-> <<m, i>>]

-----------------------------------------------------------------------------
(* Frames.  "ret" is where a frame goes on after a print, "after" where    *)
(* Serial::write returns to.                                               *)

Frame(irq, pc) ==
  [irq |-> irq, pc |-> pc, ret |-> "none", after |-> "none",
   msg |-> <<>>, s1 |-> <<>>, s2 |-> <<>>, rest |-> <<>>]

top == stack[Len(stack)]
At(pc) == top.pc = pc
Become(frame) == stack' = [stack EXCEPT ![Len(stack)] = frame]
Goto(pc) == Become([top EXCEPT !.pc = pc])

CallPrint(length, ret) ==
  /\ Become([top EXCEPT !.pc = "write", !.ret = ret,
                        !.msg = Message(messages + 1, length)])
  /\ messages' = messages + 1

(* init() and the end of Serial::Serial: the FIFOs are cleared and the     *)
(* transmitter interrupt is switched on, which an empty FIFO raises.       *)
UartReset == uart = "idle" /\ thri = TRUE /\ irr = {Com1}

Init ==
  /\ chip \in Uarts
  /\ stack = <<Frame(0, "idle")>>
  /\ ifFlag = FALSE /\ is_in_isr = FALSE
  /\ inService = {}
  /\ locked = FALSE /\ s_panicking = FALSE
  /\ backup = <<>> /\ buffer = <<>> /\ vga = <<>> /\ sent = <<>>
  /\ UartReset
  /\ messages = 0 /\ keys = 0

-----------------------------------------------------------------------------
(* Serial.                                                                 *)

Room == SerialSize - Len(buffer)

(* The line status shows TransmitterEmpty.                                 *)
ready_to_send == uart = "idle"

(* Mutant: the bytes that are sent stay in the buffer.                     *)
TransmitKeeping ==
  IF ready_to_send /\ buffer # <<>>
  THEN /\ sent' = sent \o Take(buffer, FifoSize)
       /\ uart' = "sending" /\ thri' = FALSE /\ UNCHANGED buffer
  ELSE UNCHANGED serial

(* transmit(): the FIFO is filled when the transmitter is empty.           *)
Transmit ==
  IF ready_to_send /\ buffer # <<>>
  THEN /\ sent' = sent \o Take(buffer, FifoSize)
       /\ buffer' = Skip(buffer, FifoSize)
       /\ uart' = "sending" /\ thri' = FALSE
  ELSE UNCHANGED serial

(* Mutant: a panic waits for interrupts, too.                              *)
SerialWriteAlwaysWaits(bytes, next) ==
  /\ buffer' = buffer \o Take(bytes, Room)
  /\ IF Len(bytes) <= Room
     THEN Goto(next) /\ UNCHANGED ifFlag
     ELSE /\ Become([top EXCEPT !.pc = "wait", !.after = next, !.rest = Skip(bytes, Room)])
          /\ ifFlag' = TRUE
  /\ UNCHANGED <<sent, uart, thri>>

(* Serial::write up to its return, to its busy wait with interrupts on, or *)
(* to its polling loop in a panic.                                         *)
SerialWrite(bytes, next) ==
  /\ buffer' = buffer \o Take(bytes, Room)
  /\ IF Len(bytes) <= Room
     THEN Goto(next) /\ UNCHANGED ifFlag
     ELSE /\ Become([top EXCEPT !.pc = IF s_panicking THEN "poll" ELSE "wait",
                                !.after = next, !.rest = Skip(bytes, Room)])
          /\ ifFlag' = ~s_panicking
  /\ UNCHANGED <<sent, uart, thri>>

(* Mutant: the second write starts again at the first byte.                *)
WriteRestFromStart ==
  /\ buffer' = buffer \o Take(top.msg, Len(top.rest))
  /\ Become([top EXCEPT !.pc = top.after, !.after = "none", !.rest = <<>>])

(* The second write into the buffer, when the loop found room for it.      *)
WriteRest ==
  /\ buffer' = buffer \o top.rest
  /\ Become([top EXCEPT !.pc = top.after, !.after = "none", !.rest = <<>>])

EndWait ==
  /\ At("wait")
  /\ Room >= Len(top.rest)
  /\ WriteRest
  /\ ifFlag' = FALSE
  /\ UNCHANGED <<chip, sent, uart, thri, intr, console, bounds>>

Spin ==
  /\ At("wait")
  /\ Room < Len(top.rest)
  /\ UNCHANGED vars

Poll ==
  /\ At("poll")
  /\ IF Room >= Len(top.rest)
     THEN WriteRest /\ UNCHANGED <<sent, uart, thri>>
     ELSE Transmit /\ UNCHANGED stack
  /\ UNCHANGED <<chip, ifFlag, intr, console, bounds>>

-----------------------------------------------------------------------------
(* KernelOutputDevice::write.                                              *)

(* printf from the kernel's thread.                                        *)
Printf ==
  /\ At("idle")
  /\ messages < MaxMessages
  /\ \E length \in Lengths : CallPrint(length, "idle")
  /\ UNCHANGED <<chip, ifFlag, intr, serial, console, keys>>

WriteBackup ==
  /\ At("write")
  /\ locked /\ is_in_isr
  /\ backup' = backup \o Take(top.msg, BackupSize - Len(backup))
  /\ Become([top EXCEPT !.pc = top.ret, !.ret = "none", !.msg = <<>>])
  /\ UNCHANGED <<chip, ifFlag, intr, serial, locked, s_panicking, vga, bounds>>

(* A frame that finds the lock taken spins: no action lets it go on.       *)
Lock ==
  /\ At("write")
  /\ ~(locked /\ is_in_isr)
  /\ ~locked
  /\ locked' = TRUE
  /\ Goto(IF backup = <<>> THEN "msg_to_vga" ELSE "views_to_vga")
  /\ UNCHANGED <<chip, ifFlag, intr, serial, s_panicking, backup, vga, bounds>>

(* read_nocopy and the screen; the views meet where the buffer wraps.      *)
ViewsToVga ==
  /\ At("views_to_vga")
  /\ vga' = vga \o backup
  /\ \E k \in 1..Len(backup) :
       Become([top EXCEPT !.pc = "s1_to_serial", !.s1 = Take(backup, k),
                          !.s2 = Skip(backup, k)])
  /\ UNCHANGED <<chip, ifFlag, intr, serial, locked, s_panicking, backup, bounds>>

S1ToSerial ==
  /\ At("s1_to_serial")
  /\ SerialWrite(top.s1, "s2_to_serial")
  /\ UNCHANGED <<chip, intr, console, bounds>>

S2ToSerial ==
  /\ At("s2_to_serial")
  /\ SerialWrite(top.s2, "clear")
  /\ UNCHANGED <<chip, intr, console, bounds>>

(* Mutant: the buffer is not cleared after it was shown.                   *)
ClearBackupLater ==
  /\ At("clear")
  /\ Become([top EXCEPT !.pc = "msg_to_vga", !.s1 = <<>>, !.s2 = <<>>])
  /\ UNCHANGED <<chip, ifFlag, intr, serial, locked, s_panicking, backup, vga, bounds>>

ClearBackup ==
  /\ At("clear")
  /\ backup' = <<>>
  /\ Become([top EXCEPT !.pc = "msg_to_vga", !.s1 = <<>>, !.s2 = <<>>])
  /\ UNCHANGED <<chip, ifFlag, intr, serial, locked, s_panicking, vga, bounds>>

MsgToVga ==
  /\ At("msg_to_vga")
  /\ vga' = vga \o top.msg
  /\ Goto("msg_to_serial")
  /\ UNCHANGED <<chip, ifFlag, intr, serial, locked, s_panicking, backup, bounds>>

MsgToSerial ==
  /\ At("msg_to_serial")
  /\ SerialWrite(top.msg, "unlock")
  /\ UNCHANGED <<chip, intr, console, bounds>>

(* Mutant: the guard in unlock always switches interrupts on.              *)
UnlockEnabling ==
  /\ At("unlock")
  /\ locked' = FALSE
  /\ ifFlag' = TRUE
  /\ Become([top EXCEPT !.pc = top.ret, !.ret = "none", !.msg = <<>>])
  /\ UNCHANGED <<chip, intr, serial, s_panicking, backup, vga, bounds>>

Unlock ==
  /\ At("unlock")
  /\ locked' = FALSE
  /\ Become([top EXCEPT !.pc = top.ret, !.ret = "none", !.msg = <<>>])
  /\ UNCHANGED <<chip, ifFlag, intr, serial, s_panicking, backup, vga, bounds>>

-----------------------------------------------------------------------------
(* Interrupts.                                                             *)

(* Mutant: nobody is told that a handler is running.                       *)
DeliverUnflagged(q) ==
  /\ ifFlag /\ q \in irr
  /\ \A s \in inService : q < s
  /\ irr' = irr \ {q}
  /\ inService' = inService \cup {q}
  /\ stack' = Append(stack, Frame(q, IF q = Com1 THEN "detect" ELSE "keyboard"))
  /\ ifFlag' = FALSE
  /\ UNCHANGED <<chip, is_in_isr, serial, console, bounds>>

(* The CPU takes a request that no request in service outranks (the lower  *)
(* number goes first) and enters handle_interrupt.                         *)
Deliver(q) ==
  /\ ifFlag /\ q \in irr
  /\ \A s \in inService : q < s
  /\ irr' = irr \ {q}
  /\ inService' = inService \cup {q}
  /\ stack' = Append(stack, Frame(q, IF q = Com1 THEN "detect" ELSE "keyboard"))
  /\ ifFlag' = FALSE
  /\ is_in_isr' = TRUE
  /\ UNCHANGED <<chip, serial, console, bounds>>

(* The loop of the serial handler: reading the interrupt register takes    *)
(* the transmitter interrupt back.                                         *)
ReadDetect ==
  /\ At("detect")
  /\ thri' = FALSE
  /\ Goto(IF thri THEN "line_status" ELSE "eoi")
  /\ UNCHANGED <<chip, ifFlag, intr, buffer, sent, uart, console, bounds>>

(* The line status decides on transmit(); if it shows errors (a byte came  *)
(* in, say) the handler prints them.                                       *)
ReadLineStatus ==
  /\ At("line_status")
  /\ Transmit
  /\ \/ Goto("detect") /\ UNCHANGED messages
     \/ /\ messages < MaxMessages
        /\ \E length \in Lengths : CallPrint(length, "detect")
  /\ UNCHANGED <<chip, ifFlag, intr, console, keys>>

(* PS2Keyboard::handle_message, when its assertions hold.  A scancode it   *)
(* does not know is printed.                                               *)
HandleKey ==
  /\ At("keyboard")
  /\ \/ Goto("eoi") /\ UNCHANGED messages
     \/ /\ messages < MaxMessages
        /\ \E length \in Lengths : CallPrint(length, "eoi")
  /\ UNCHANGED <<chip, ifFlag, intr, serial, console, keys>>

(* Mutant: the PIC is not told that the handler is done.                   *)
EndOfInterruptUnacknowledged ==
  /\ At("eoi")
  /\ is_in_isr' = FALSE
  /\ stack' = SubSeq(stack, 1, Len(stack) - 1)
  /\ ifFlag' = TRUE
  /\ UNCHANGED <<chip, inService, irr, serial, console, bounds>>

(* acknowledge, the end of handle_interrupt and iret.  The EOI takes the   *)
(* request of highest priority out of service, whichever that is.          *)
EndOfInterrupt ==
  /\ At("eoi")
  /\ inService' = {s \in inService : \E t \in inService : t < s}
  /\ is_in_isr' = FALSE
  /\ stack' = SubSeq(stack, 1, Len(stack) - 1)
  /\ ifFlag' = TRUE
  /\ UNCHANGED <<chip, irr, serial, console, bounds>>

-----------------------------------------------------------------------------
(* Panic.                                                                  *)

(* A failed assertion runs panic_in_code; an exception with an error code  *)
(* (a page fault) runs panic_from_interrupt; one without (an invalid       *)
(* opcode) passes through handle_interrupt first, which finds no handler.  *)
Crash ==
  /\ \E kind \in {"assert", "fault", "trap"} :
       /\ <<top.pc, kind>> \in Crashes
       /\ is_in_isr' = (is_in_isr /\ kind # "trap")
  /\ Goto("panic")
  /\ ifFlag' = FALSE
  /\ UNCHANGED <<chip, inService, irr, serial, console, bounds>>

(* The reason is printed before the kernel says that it is panicking.      *)
PanicReason ==
  /\ At("panic")
  /\ CallPrint(1, "panic_check")
  /\ UNCHANGED <<chip, ifFlag, intr, serial, console, keys>>

NestedPanicCheck ==
  /\ At("panic_check")
  /\ Goto(IF s_panicking THEN "flush" ELSE "trace")
  /\ s_panicking' = TRUE
  /\ UNCHANGED <<chip, ifFlag, intr, serial, locked, backup, vga, bounds>>

StackTrace ==
  /\ At("trace")
  /\ CallPrint(1, "flush")
  /\ UNCHANGED <<chip, ifFlag, intr, serial, console, keys>>

(* Mutant: one load of the FIFO is sent.                                   *)
FlushOnce ==
  /\ At("flush")
  /\ Transmit
  /\ Goto("halted")
  /\ UNCHANGED <<chip, ifFlag, intr, console, bounds>>

(* Serial::flush with interrupts off, then hlt.                            *)
Flush ==
  /\ At("flush")
  /\ IF buffer = <<>> THEN Goto("halted") /\ UNCHANGED serial
                      ELSE Transmit /\ UNCHANGED stack
  /\ UNCHANGED <<chip, ifFlag, intr, console, bounds>>

Halted == At("halted") /\ UNCHANGED vars

(* The kernel's thread does something else than print.                     *)
OtherCode == At("idle") /\ UNCHANGED vars

-----------------------------------------------------------------------------
(* The devices.                                                            *)

RaiseCom1 == irr' = IF thri THEN irr ELSE irr \cup {Com1}

MayEmpty ==
  chip = "slow" => \/ At("poll") \/ At("flush")
                   \/ Len(stack) = 1 /\ ~(At("wait") /\ Room >= Len(top.rest))

(* The FIFO runs empty: the transmitter interrupt is raised.               *)
UartFifoEmpty ==
  /\ uart = "sending"
  /\ MayEmpty
  /\ uart' = IF chip = "lagging" THEN "shifting" ELSE "idle"
  /\ thri' = TRUE
  /\ RaiseCom1
  /\ UNCHANGED <<chip, cpu, is_in_isr, inService, buffer, sent, console, bounds>>

(* The last byte leaves the shift register: TransmitterEmpty is set.       *)
UartShiftEmpty ==
  /\ uart = "shifting"
  /\ uart' = "idle"
  /\ UNCHANGED <<chip, cpu, intr, buffer, sent, thri, console, bounds>>

KeyboardSends ==
  /\ keys < MaxKeys
  /\ keys' = keys + 1
  /\ irr' = irr \cup {Keyboard}
  /\ UNCHANGED <<chip, cpu, is_in_isr, inService, serial, console, messages>>

-----------------------------------------------------------------------------

(* What the running frame does without being asked to print or to panic.   *)
CpuStep ==
  \/ EndWait \/ Poll \/ WriteBackup \/ Lock \/ ViewsToVga \/ S1ToSerial
  \/ S2ToSerial \/ ClearBackup \/ MsgToVga \/ MsgToSerial \/ Unlock
  \/ ReadDetect \/ ReadLineStatus \/ HandleKey \/ EndOfInterrupt
  \/ PanicReason \/ NestedPanicCheck \/ StackTrace \/ Flush

Next ==
  \/ Printf \/ Crash \/ CpuStep \/ Spin \/ Halted \/ OtherCode
  \/ Deliver(Keyboard) \/ Deliver(Com1)
  \/ UartFifoEmpty \/ UartShiftEmpty \/ KeyboardSends

Spec == Init /\ [][Next]_vars

(* The CPU goes on, takes interrupts it is offered, and the UART sends.    *)
Fairness ==
  /\ WF_vars(CpuStep)
  /\ WF_vars(Deliver(Keyboard)) /\ WF_vars(Deliver(Com1))
  /\ WF_vars(UartFifoEmpty) /\ WF_vars(UartShiftEmpty)

FairSpec == Spec /\ Fairness

-----------------------------------------------------------------------------

Bytes(lengths) == {<<m, i>> : m \in 1..(MaxMessages + 5), i \in 1..lengths}

Waiting == stack[1].pc = "wait"

(* Interrupts are on only in the busy wait of Serial::write, whose caller  *)
(* holds the lock, and no handler is running then: the guard objects of    *)
(* all that the handlers call never switch them on again underneath.       *)
WindowHoldsLock == ifFlag => locked /\ Len(stack) = 1 /\ Waiting

(* The frame that is about to print either gets the lock or is a handler   *)
(* that may use the backup buffer: nobody spins on a lock whose holder it  *)
(* interrupted (kerneloutputdevice.cpp:10, spinlock.cpp:12).               *)
NobodySpinsOnLock == At("write") /\ locked => is_in_isr

(* The serial port has sent, or holds, what the screen shows in the same   *)
(* order, whatever handler ran during a wait; they agree when no one is    *)
(* printing (kerneloutputdevice.cpp:22-30).                                *)
SerialMirrorsVga ==
  /\ Len(sent) + Len(buffer) <= Len(vga)
  /\ SubSeq(vga, 1, Len(sent) + Len(buffer)) = sent \o buffer
  /\ ~locked => vga = sent \o buffer

(* What is shown of a message is a beginning of it, in one piece and once, *)
(* whichever frame prints it, though the interrupt buffer may cut or lose  *)
(* what a handler prints (kerneloutputdevice.cpp:11 and 26).               *)
ShownInOnePiece ==
  /\ \A j, k \in DOMAIN vga : j # k => vga[j] # vga[k]
  /\ \A k \in DOMAIN vga :
       vga[k][2] > 1 => k > 1 /\ vga[k - 1] = <<vga[k][1], vga[k][2] - 1>>

(* A kernel that panicked and halts has sent all that the screen shows     *)
(* unless it was in the middle of a print.                                 *)
HaltedIsFlushed == At("halted") => buffer = <<>> /\ (~locked => sent = vga)

(* What the screen and the serial line promise together.                   *)
Log == INSTANCE OutputLog WITH shown <- vga, carried <- sent
ImplementsOutputLog == Log!Spec

(* serial.cpp:132: write blocks until the rest fits, so it blocks for a    *)
(* while only (unless a handler stops the machine).                        *)
WaitEnds == Waiting ~> ~Waiting \/ At("halted")

(* That is so with a UART slower than the code around it.                  *)
SlowWaitEnds == Waiting /\ chip = "slow" ~> ~Waiting \/ At("halted")

(* panic.cpp:111: it is safe to check for a nested panic late.  Whatever   *)
(* crashes while a panic is reported, the machine is halted in the end.    *)
PanicHalts == s_panicking ~> At("halted")

=============================================================================
