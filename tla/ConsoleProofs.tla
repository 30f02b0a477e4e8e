---------------------------- MODULE ConsoleProofs ----------------------------
(***************************************************************************)
(* For every size of the buffers, every UART, and any number of messages   *)
(* and keys: interrupts are on only where the lock is held and waited, no  *)
(* frame spins on the lock, the serial line follows the screen, and every  *)
(* message stays in one piece.                                             *)
(***************************************************************************)
EXTENDS Console, TLAPS, SequenceTheorems

Byte  == Nat \X Nat
Texts == Seq(Byte)
Cat(s, t) == s \o t

(* Where the kernel's thread holds the lock, and where a handler can be.   *)
Holding == {"views_to_vga", "s1_to_serial", "s2_to_serial", "clear", "msg_to_vga",
            "msg_to_serial", "unlock", "wait", "poll"}
Reporting == {"panic", "panic_check", "trace", "flush", "halted"}
Handling == {"detect", "line_status", "keyboard", "eoi", "write"} \cup Reporting
Nexts == {"s2_to_serial", "clear", "unlock"}
Stops == {"poll", "wait"}
Quiet == {"idle", "write", "views_to_vga", "msg_to_vga", "clear", "unlock"} \cup Reporting
Places == {"none", "idle"} \cup Handling \cup Holding

Frames ==
  [irq: Nat, pc: Places, ret: Places, after: Places,
   msg: Texts, s1: Texts, s2: Texts, rest: Texts]

ThreadOK(f) ==
  /\ f.pc \in {"idle", "write"} \cup Reporting \cup Holding
  /\ f.pc \in {"write"} \cup Holding => f.ret \in {"idle", "panic_check", "flush"}
  /\ f.pc \in Stops => f.after \in Nexts

HandlerOK(f) ==
  /\ f.pc \in Handling
  /\ f.pc = "write" => f.ret \in {"detect", "eoi", "panic_check", "flush"}

(* No exception without an error code is raised in a handler.              *)
TrapFree == \A place \in {"keyboard", "trace"} : <<place, "trap">> \notin Crashes

(* What a frame has shown and not yet given to the serial port; what that  *)
(* is after Serial::write, by where it returns to.                         *)
Later(f, next) == IF next = "s2_to_serial" THEN f.s2 ELSE <<>>

Pending(f) ==
  CASE f.pc = "s1_to_serial"  -> Cat(f.s1, f.s2)
    [] f.pc = "s2_to_serial"  -> f.s2
    [] f.pc = "msg_to_serial" -> f.msg
    [] f.pc \in Stops         -> Cat(f.rest, Later(f, f.after))
    [] OTHER                  -> <<>>

ConsoleType ==
  /\ stack \in Seq(Frames) /\ Len(stack) \in {1, 2}
  /\ vga \in Texts /\ sent \in Texts
  /\ buffer \in Texts /\ Len(buffer) <= SerialSize
  /\ backup \in Texts /\ Len(backup) <= BackupSize
  /\ messages \in Nat
  /\ s_panicking \in BOOLEAN

(* There is one handler at most, and it interrupted the thread's wait.     *)
LockInv ==
  /\ ThreadOK(stack[1])
  /\ (locked <=> stack[1].pc \in Holding)
  /\ (ifFlag <=> Len(stack) = 1 /\ stack[1].pc = "wait")
  /\ Len(stack) = 2 => stack[1].pc = "wait" /\ HandlerOK(stack[2])
  /\ is_in_isr => Len(stack) = 2
  /\ TrapFree /\ Len(stack) = 2 => is_in_isr

(* What is shown was sent, is in the buffer, or the thread still has it.   *)
MirrorInv ==
  /\ vga = Cat(Cat(sent, buffer), Pending(stack[1]))
  /\ top.pc = "halted" => buffer = <<>>

ConsoleInv == ConsoleType /\ LockInv /\ MirrorInv

-----------------------------------------------------------------------------
(* Texts.                                                                  *)

(* Texts can be put behind one another, and nothing adds nothing.          *)
LEMMA CatIs ==
  ASSUME NEW s \in Texts, NEW t \in Texts
  PROVE  /\ Cat(s, t) \in Texts /\ Len(Cat(s, t)) = Len(s) + Len(t)
         /\ Len(s) \in Nat
BY DEF Cat, Texts

(* Nothing adds nothing.                                                   *)
LEMMA CatNothing ==
  ASSUME NEW s \in Texts
  PROVE  <<>> \in Texts /\ Cat(s, <<>>) = s /\ Cat(<<>>, s) = s /\ Len(<<>>) = 0
<1>1. s \o <<>> = s /\ <<>> \o s = s
  BY ConcatEmptySeq DEF Texts
<1> QED
  BY <1>1 DEF Cat, Texts

(* Brackets do not matter.                                                 *)
LEMMA CatAssociative ==
  ASSUME NEW s \in Texts, NEW t \in Texts, NEW u \in Texts
  PROVE  Cat(Cat(s, t), u) = Cat(s, Cat(t, u))
<1>1. (s \o t) \o u = s \o (t \o u)
  BY ConcatAssociative DEF Texts
<1> QED
  BY <1>1 DEF Cat

(* A beginning of what is pending joins the buffer.                        *)
LEMMA Joined ==
  ASSUME NEW a \in Texts, NEW b \in Texts, NEW c \in Texts, NEW d \in Texts
  PROVE  Cat(Cat(a, b), Cat(c, d)) = Cat(Cat(a, Cat(b, c)), d)
<1>1. Cat(a, b) \in Texts /\ Cat(c, d) \in Texts
  BY CatIs
<1>2. Cat(Cat(a, b), Cat(c, d)) = Cat(Cat(Cat(a, b), c), d)
  BY <1>1, CatAssociative
<1>3. Cat(Cat(a, b), c) = Cat(a, Cat(b, c))
  BY CatAssociative
<1> QED
  BY <1>2, <1>3

(* The beginning of a text and what follows.                               *)
LEMMA TakeSkip ==
  ASSUME NEW s \in Texts, NEW n \in Nat
  PROVE  /\ Take(s, n) \in Texts /\ Skip(s, n) \in Texts
         /\ Cat(Take(s, n), Skip(s, n)) = s
         /\ Len(Take(s, n)) <= n
         /\ Len(s) <= n => Take(s, n) = s
<1> DEFINE k == MinOf(n, Len(s))
<1> USE DEF Texts
<1>1. k \in Nat /\ k <= n /\ k <= Len(s) /\ Len(s) \in Nat /\ (Len(s) <= n => k = Len(s))
  BY DEF MinOf
<1> HIDE DEF k
<1>2. /\ SubSeq(s, 1, k) \in Seq(Byte) /\ SubSeq(s, k + 1, Len(s)) \in Seq(Byte)
      /\ Len(SubSeq(s, 1, k)) = k
  BY <1>1
<1>3. SubSeq(s, 1, k) \o SubSeq(s, k + 1, Len(s)) = SubSeq(s, 1, Len(s))
  <2>1. 1 \in 1..(Len(s) + 1) /\ k \in (1 - 1)..Len(s) /\ Len(s) \in k..Len(s)
    BY <1>1
  <2> QED
    BY <2>1, ConcatAdjacentSubSeq, Zenon
<1>4. SubSeq(s, 1, Len(s)) = s
  OBVIOUS
<1> QED
  BY <1>1, <1>2, <1>3, <1>4 DEF Take, Skip, k, Cat

(* What comes first is a beginning.                                        *)
LEMMA Beginning ==
  ASSUME NEW s \in Texts, NEW t \in Texts
  PROVE  Len(s) <= Len(Cat(s, t)) /\ SubSeq(Cat(s, t), 1, Len(s)) = s
<1> USE DEF Texts
<1>1. /\ Len(s) \in Nat /\ Len(t) \in Nat /\ Len(s \o t) = Len(s) + Len(t)
      /\ s \o t \in Seq(Byte)
  OBVIOUS
<1>2. SubSeq(s \o t, 1, Len(s)) = s
  <2> DEFINE u == s \o t
             v == SubSeq(u, 1, Len(s))
  <2>1. \A i \in 1..Len(s) : u[i] = s[i]
    OBVIOUS
  <2>2. u \in Seq(Byte) /\ Len(u) = Len(s) + Len(t)
    BY <1>1
  <2> HIDE DEF u
  <2>3. v \in Seq(Byte) /\ Len(v) = Len(s) /\ \A i \in 1..Len(s) : v[i] = u[i]
    BY <1>1, <2>2
  <2> HIDE DEF v
  <2>4. v = s
    BY <2>1, <2>3
  <2> QED
    BY <2>4 DEF u, v
<1> QED
  BY <1>1, <1>2 DEF Cat

-----------------------------------------------------------------------------
(* The running frame goes on.                                              *)

(* What is on the stack when the running frame becomes another.            *)
LEMMA Becomes ==
  ASSUME ConsoleType, NEW f \in Frames, Become(f)
  PROVE  /\ stack' \in Seq(Frames) /\ Len(stack') = Len(stack) /\ top' = f
         /\ Len(stack) = 1 => stack'[1] = f
         /\ Len(stack) = 2 => stack'[1] = stack[1] /\ stack'[2] = f
<1> DEFINE n == Len(stack)
           after == [stack EXCEPT ![n] = f]
<1>1. stack \in Seq(Frames) /\ n \in 1..Len(stack) /\ n \in {1, 2}
  <2>1. stack \in Seq(Frames)
    BY DEF ConsoleType
  <2>2. Len(stack) \in {1, 2}
    BY DEF ConsoleType
  <2>3. Len(stack) \in 1..Len(stack)
    BY <2>2
  <2> QED
    BY <2>1, <2>2, <2>3
<1> HIDE DEF n
<1>2. /\ after \in Seq(Frames) /\ Len(after) = Len(stack)
      /\ \A i \in 1..Len(stack) : after[i] = IF i = n THEN f ELSE stack[i]
  BY <1>1, ExceptSeq
<1> HIDE DEF after
<1>3. stack' = after
  BY DEF Become, after, n
<1>4. n = Len(stack)
  BY DEF n
<1> QED
  BY <1>1, <1>2, <1>3, <1>4 DEF top

(* The thread, when nothing interrupted it.                                *)
LEMMA ThreadMoves ==
  ASSUME ConsoleInv, Len(stack) = 1, NEW f \in Frames, Become(f), ThreadOK(f),
         (locked' <=> f.pc \in Holding), (ifFlag' <=> f.pc = "wait"),
         is_in_isr' = is_in_isr \/ ~is_in_isr',
         vga' \in Texts, sent' \in Texts,
         buffer' \in Texts, Len(buffer') <= SerialSize,
         backup' \in Texts, Len(backup') <= BackupSize,
         messages' \in Nat, s_panicking' \in BOOLEAN,
         vga' = Cat(Cat(sent', buffer'), Pending(f)),
         f.pc = "halted" => buffer' = <<>>
  PROVE  ConsoleInv'
<1>1. /\ stack' \in Seq(Frames) /\ Len(stack') = 1 /\ stack'[1] = f /\ top' = f
  BY Becomes DEF ConsoleInv
<1>2. ~is_in_isr'
  BY DEF ConsoleInv, LockInv
<1> QED
  BY <1>1, <1>2 DEF ConsoleInv, ConsoleType, LockInv, MirrorInv

(* A handler, which has nothing on the screen.                             *)
LEMMA HandlerMoves ==
  ASSUME ConsoleInv, Len(stack) = 2, NEW f \in Frames, Become(f), HandlerOK(f),
         locked' = locked, ~ifFlag', vga' = vga, TrapFree => is_in_isr',
         sent' \in Texts, buffer' \in Texts, Len(buffer') <= SerialSize,
         Cat(sent', buffer') = Cat(sent, buffer),
         backup' \in Texts, Len(backup') <= BackupSize,
         messages' \in Nat, s_panicking' \in BOOLEAN,
         f.pc = "halted" => buffer' = <<>>
  PROVE  ConsoleInv'
<1>1. /\ stack' \in Seq(Frames) /\ Len(stack') = 2 /\ stack'[1] = stack[1]
      /\ stack'[2] = f /\ top' = f
  BY Becomes DEF ConsoleInv
<1> QED
  BY <1>1 DEF ConsoleInv, ConsoleType, LockInv, MirrorInv

(* The stack stays, and what is sent comes from the buffer.                *)
LEMMA NobodyMoves ==
  ASSUME ConsoleInv, UNCHANGED <<stack, locked, ifFlag, is_in_isr, vga, backup, messages,
                                 s_panicking>>,
         sent' \in Texts, buffer' \in Texts, Len(buffer') <= SerialSize,
         Cat(sent', buffer') = Cat(sent, buffer),
         top.pc = "halted" => buffer' = buffer
  PROVE  ConsoleInv'
BY DEF ConsoleInv, ConsoleType, LockInv, MirrorInv, top

(* Sending moves bytes from the buffer to the line.                        *)
LEMMA TransmitMoves ==
  ASSUME ConsoleType, Transmit
  PROVE  /\ sent' \in Texts /\ buffer' \in Texts /\ Len(buffer') <= SerialSize
         /\ Cat(sent', buffer') = Cat(sent, buffer)
<1>1. CASE UNCHANGED serial
  BY <1>1 DEF serial, ConsoleType
<1>2. CASE sent' = sent \o Take(buffer, FifoSize) /\ buffer' = Skip(buffer, FifoSize)
  <2> DEFINE t == Take(buffer, FifoSize)
             u == Skip(buffer, FifoSize)
  <2>1. t \in Texts /\ u \in Texts /\ Cat(t, u) = buffer /\ sent \in Texts
    BY TakeSkip, ConsoleAssumption DEF ConsoleType
  <2>2. sent' = Cat(sent, t) /\ buffer' = u
    BY <1>2 DEF Cat
  <2> HIDE DEF t, u
  <2>3. Cat(sent, t) \in Texts /\ Cat(Cat(sent, t), u) = Cat(sent, Cat(t, u))
    BY <2>1, CatIs, CatAssociative
  <2>4. Len(Cat(t, u)) = Len(t) + Len(u) /\ Len(u) \in Nat /\ Len(t) \in Nat
    BY <2>1, CatIs
  <2>5. Len(buffer) <= SerialSize /\ SerialSize \in Nat
    BY ConsoleAssumption DEF ConsoleType
  <2> QED
    BY <2>1, <2>2, <2>3, <2>4, <2>5
<1> QED
  BY <1>1, <1>2 DEF Transmit

(* Who runs where.                                                         *)
LEMMA WhoRuns ==
  ASSUME ConsoleInv
  PROVE  /\ top \in Frames
         /\ Len(stack) = 1 => top = stack[1] /\ ThreadOK(top)
         /\ Len(stack) = 2 => top = stack[2] /\ HandlerOK(top) /\ ~ifFlag /\ locked
         /\ top.pc \in {"idle"} \cup Holding => Len(stack) = 1
         /\ top.pc \in {"detect", "line_status", "keyboard", "eoi"} => Len(stack) = 2
<1>1. /\ stack \in Seq(Frames) /\ Len(stack) \in {1, 2}
      /\ Len(stack) = 1 => ThreadOK(stack[1])
      /\ Len(stack) = 2 => HandlerOK(stack[2]) /\ stack[1].pc = "wait"
      /\ (locked <=> stack[1].pc \in Holding)
      /\ (ifFlag <=> Len(stack) = 1 /\ stack[1].pc = "wait")
  BY DEF ConsoleInv, ConsoleType, LockInv
<1>2. top \in Frames /\ top = stack[Len(stack)]
  BY <1>1 DEF top
<1> QED
  BY <1>1, <1>2 DEF ThreadOK, HandlerOK, Holding, Handling, Reporting

-----------------------------------------------------------------------------
(* The actions.                                                            *)

(* What is pending where.                                                  *)
LEMMA PendingIs ==
  ASSUME NEW f \in Frames
  PROVE  /\ \A next \in Nexts : Later(f, next) \in Texts
         /\ f.pc \in Stops => Pending(f) = Cat(f.rest, Later(f, f.after))
         /\ f.pc \in Nexts => Pending(f) = Later(f, f.pc)
         /\ f.pc = "s1_to_serial" => Pending(f) = Cat(f.s1, f.s2)
         /\ f.pc = "msg_to_serial" => Pending(f) = f.msg
         /\ f.pc \in Quiet => Pending(f) = <<>>
<1>1. f.rest \in Texts /\ f.s2 \in Texts /\ <<>> \in Texts
  BY CatNothing DEF Frames
<1> QED
  BY <1>1 DEF Pending, Later, Reporting, Nexts, Stops, Quiet

(* Most of the time nothing is.                                            *)
LEMMA Silent ==
  ASSUME NEW f \in Frames, f.pc \in Quiet
  PROVE  Pending(f) = <<>>
BY PendingIs

(* A frame at another place, and one that Serial::write stopped there.     *)
PlacedAt(f, place) == [f EXCEPT !.pc = place]
StoppedAt(f, place, next, left) == [f EXCEPT !.pc = place, !.after = next, !.rest = left]

(* What these change and what not.                                         *)
LEMMA PlaceSet ==
  ASSUME NEW f \in Frames, NEW place \in Places
  PROVE  /\ PlacedAt(f, place) \in Frames
         /\ PlacedAt(f, place).pc = place /\ PlacedAt(f, place).ret = f.ret
         /\ PlacedAt(f, place).after = f.after /\ PlacedAt(f, place).msg = f.msg
         /\ PlacedAt(f, place).s1 = f.s1 /\ PlacedAt(f, place).s2 = f.s2
         /\ PlacedAt(f, place).rest = f.rest
BY DEF Frames, PlacedAt

(* The same with what is left to write.                                    *)
LEMMA RestSet ==
  ASSUME NEW f \in Frames, NEW place \in Places, NEW next \in Places, NEW left \in Texts
  PROVE  /\ StoppedAt(f, place, next, left) \in Frames
         /\ StoppedAt(f, place, next, left).pc = place
         /\ StoppedAt(f, place, next, left).ret = f.ret
         /\ StoppedAt(f, place, next, left).after = next
         /\ StoppedAt(f, place, next, left).s2 = f.s2
         /\ StoppedAt(f, place, next, left).rest = left
BY DEF Frames, StoppedAt

(* The frame of Serial::write at its return.                               *)
LEMMA Returned ==
  ASSUME NEW f \in Frames, ThreadOK(f), f.pc \in Holding,
         NEW next \in Nexts,
         NEW g, g = PlacedAt(f, next)
  PROVE  /\ g \in Frames /\ ThreadOK(g) /\ g.pc \in Holding
         /\ g.pc \notin {"wait", "halted"} /\ Pending(g) = Later(f, next)
<1>1. g \in Frames /\ g.pc = next /\ g.ret = f.ret /\ g.s2 = f.s2
  <2>1. next \in Places
    BY DEF Places, Holding, Nexts, Stops
  <2> QED
    BY <2>1, PlaceSet
<1>2. ThreadOK(g) /\ g.pc \in Holding /\ g.pc \notin {"wait", "halted"}
  BY <1>1 DEF ThreadOK, Holding, Nexts, Stops
<1>3. Pending(g) = Later(g, next)
  BY <1>1, PendingIs DEF Nexts, Stops
<1>4. Later(g, next) = Later(f, next)
  BY <1>1 DEF Later
<1> QED
  BY <1>1, <1>2, <1>3, <1>4

(* The frame of Serial::write while it waits or polls.                     *)
LEMMA Stopped ==
  ASSUME NEW f \in Frames, ThreadOK(f), f.pc \in Holding, NEW left \in Texts,
         NEW next \in Nexts, NEW at \in Stops,
         NEW g, g = StoppedAt(f, at, next, left)
  PROVE  /\ g \in Frames /\ ThreadOK(g) /\ g.pc \in Holding /\ g.pc = at
         /\ g.pc # "halted" /\ Pending(g) = Cat(left, Later(f, next))
<1>1. /\ g \in Frames /\ g.pc = at /\ g.ret = f.ret /\ g.s2 = f.s2
      /\ g.after = next /\ g.rest = left
  <2>1. next \in Places /\ at \in Places
    BY DEF Places, Holding, Nexts, Stops
  <2>2. \A p, n \in Places :
          LET h == StoppedAt(f, p, n, left) IN
          /\ h \in Frames /\ h.pc = p /\ h.ret = f.ret /\ h.s2 = f.s2
          /\ h.after = n /\ h.rest = left
    BY RestSet
  <2> QED
    BY <2>1, <2>2
<1>2. ThreadOK(g) /\ g.pc \in Holding /\ g.pc # "halted"
  BY <1>1 DEF ThreadOK, Holding, Nexts, Stops
<1>3. Pending(g) = Cat(left, Later(g, next))
  BY <1>1, PendingIs DEF Nexts, Stops
<1>4. Later(g, next) = Later(f, next)
  BY <1>1 DEF Later
<1> QED
  BY <1>1, <1>2, <1>3, <1>4

(* Types and the mirror, one by one.                                       *)
LEMMA Known ==
  ASSUME ConsoleInv
  PROVE  /\ sent \in Texts /\ buffer \in Texts /\ Len(buffer) <= SerialSize
         /\ vga \in Texts /\ backup \in Texts /\ Len(backup) <= BackupSize
         /\ messages \in Nat /\ s_panicking \in BOOLEAN
         /\ Len(stack) = 1 \/ Len(stack) = 2
BY DEF ConsoleInv, ConsoleType

(* What is written of some bytes, and what is left of them.                *)
LEMMA Written ==
  ASSUME ConsoleInv, NEW bytes \in Texts, NEW later \in Texts,
         Cat(Cat(sent, buffer), Cat(bytes, later)) = vga
  PROVE  LET taken == Take(bytes, Room)
             left == Skip(bytes, Room)
             after == Cat(buffer, taken)
         IN  /\ after \in Texts /\ Len(after) <= SerialSize /\ left \in Texts
             /\ vga = Cat(Cat(sent, after), Cat(left, later))
             /\ Len(bytes) <= Room => vga = Cat(Cat(sent, after), later)
<1> DEFINE taken == Take(bytes, Room)
           left == Skip(bytes, Room)
           after == Cat(buffer, taken)
<1>1. sent \in Texts /\ buffer \in Texts
  BY Known
<1>2. Room \in Nat /\ Len(buffer) + Room = SerialSize
  <2>1. Len(buffer) \in Nat /\ Len(buffer) <= SerialSize
    BY Known, CatIs
  <2> QED
    BY <2>1, ConsoleAssumption DEF Room
<1>3. /\ taken \in Texts /\ left \in Texts /\ Cat(taken, left) = bytes
      /\ Len(taken) <= Room /\ (Len(bytes) <= Room => taken = bytes)
  BY <1>2, TakeSkip
<1> HIDE DEF taken, left
<1>4. after \in Texts /\ Len(after) <= SerialSize
  <2>1. after \in Texts /\ Len(after) = Len(buffer) + Len(taken) /\ Len(taken) \in Nat
    BY <1>1, <1>3, CatIs
  <2>2. Len(buffer) \in Nat /\ SerialSize \in Nat
    BY <1>1, CatIs, ConsoleAssumption
  <2> HIDE DEF after
  <2> QED
    BY <1>2, <1>3, <2>1, <2>2
<1>5. Cat(bytes, later) = Cat(taken, Cat(left, later)) /\ Cat(left, later) \in Texts
  BY <1>3, CatAssociative, CatIs
<1>6. vga = Cat(Cat(sent, after), Cat(left, later))
  BY <1>1, <1>3, <1>5, Joined
<1>7. Len(bytes) <= Room => vga = Cat(Cat(sent, after), later)
  <2>1. vga = Cat(Cat(sent, Cat(buffer, bytes)), later)
    BY <1>1, Joined
  <2> QED
    BY <1>3, <2>1
<1> QED
  BY <1>3, <1>4, <1>6, <1>7 DEF taken, left

(* Serial::write up to its return, its wait or its polling.                *)
LEMMA Writes ==
  ASSUME ConsoleInv, Len(stack) = 1, top.pc \in Holding \ Stops,
         NEW bytes \in Texts, NEW next \in Nexts,
         SerialWrite(bytes, next), Pending(top) = Cat(bytes, Later(top, next)),
         UNCHANGED <<vga, locked, is_in_isr, backup, messages, s_panicking>>
  PROVE  ConsoleInv'
<1> DEFINE later == Later(top, next)
           left == Skip(bytes, Room)
<1>1. /\ top \in Frames /\ ThreadOK(top) /\ top = stack[1]
  BY WhoRuns
<1>2. vga = Cat(Cat(sent, buffer), Pending(top))
  BY <1>1 DEF ConsoleInv, MirrorInv
<1>8. (locked <=> top.pc \in Holding) /\ (ifFlag <=> top.pc = "wait") /\ ~is_in_isr
  BY <1>1 DEF ConsoleInv, LockInv
<1>9. locked' /\ ~ifFlag /\ ~is_in_isr'
  BY <1>8 DEF Stops
<1>3. later \in Texts
  BY <1>1, PendingIs
<1>4. /\ buffer' = Cat(buffer, Take(bytes, Room)) /\ sent' = sent
  BY DEF SerialWrite, Cat
<1>5. /\ buffer' \in Texts /\ Len(buffer') <= SerialSize /\ left \in Texts
      /\ vga' = Cat(Cat(sent', buffer'), Cat(left, later))
      /\ Len(bytes) <= Room => vga' = Cat(Cat(sent', buffer'), later)
  BY <1>2, <1>3, <1>4, Written
<1> HIDE DEF later
<1>6. CASE Len(bytes) <= Room
  <2>1. Become(PlacedAt(top, next)) /\ ifFlag' = ifFlag
    BY <1>6 DEF SerialWrite, Goto, PlacedAt
  <2> DEFINE g == PlacedAt(top, next)
  <2>2. g \in Frames /\ ThreadOK(g) /\ g.pc \in Holding /\ g.pc \notin {"wait", "halted"}
        /\ Pending(g) = later
    BY <1>1, Returned DEF later
  <2>3. vga' = Cat(Cat(sent', buffer'), Pending(g))
    BY <1>5, <1>6, <2>2
  <2>4. (locked' <=> g.pc \in Holding) /\ (ifFlag' <=> g.pc = "wait")
    BY <1>9, <2>1, <2>2
  <2> HIDE DEF g
  <2>5. Become(g)
    BY <2>1 DEF g
  <2> QED
    BY <1>4, <1>5, <2>5, <2>2, <2>3, <2>4, Known, ThreadMoves
<1>7. CASE ~(Len(bytes) <= Room)
  <2> DEFINE at == IF s_panicking THEN "poll" ELSE "wait"
             g == StoppedAt(top, at, next, left)
  <2>1. Become(g) /\ (ifFlag' <=> ~s_panicking)
    BY <1>7 DEF SerialWrite, StoppedAt
  <2>2. at \in Stops /\ (s_panicking <=> at # "wait")
    BY DEF Stops
  <2> HIDE DEF at
  <2>3. g \in Frames /\ ThreadOK(g) /\ g.pc \in Holding /\ g.pc = at /\ g.pc # "halted"
        /\ Pending(g) = Cat(left, later)
    BY <1>1, <1>5, <2>2, Stopped DEF later
  <2>4. vga' = Cat(Cat(sent', buffer'), Pending(g))
    BY <1>5, <2>3
  <2> HIDE DEF g
  <2>5. (locked' <=> g.pc \in Holding) /\ (ifFlag' <=> g.pc = "wait")
    BY <1>9, <2>1, <2>2, <2>3, Known
  <2> QED
    BY <1>4, <1>5, <2>1, <2>3, <2>4, <2>5, Known, ThreadMoves
<1> QED
  BY <1>6, <1>7

-----------------------------------------------------------------------------
(* The other ways a frame changes.                                         *)

CalledWith(f, ret, msg) == [f EXCEPT !.pc = "write", !.ret = ret, !.msg = msg]
BackFromPrint(f) == [f EXCEPT !.pc = f.ret, !.ret = "none", !.msg = <<>>]
BackFromWrite(f) == [f EXCEPT !.pc = f.after, !.after = "none", !.rest = <<>>]
WithViews(f, one, two) == [f EXCEPT !.pc = "s1_to_serial", !.s1 = one, !.s2 = two]
WithoutViews(f) == [f EXCEPT !.pc = "msg_to_vga", !.s1 = <<>>, !.s2 = <<>>]

(* A print is called.                                                      *)
LEMMA CallSet ==
  ASSUME NEW f \in Frames, NEW ret \in Places, NEW msg \in Texts
  PROVE  /\ CalledWith(f, ret, msg) \in Frames
         /\ CalledWith(f, ret, msg).pc = "write" /\ CalledWith(f, ret, msg).ret = ret
         /\ CalledWith(f, ret, msg).msg = msg
<1>1. "write" \in Places
  BY DEF Places, Handling
<1> QED
  BY <1>1 DEF Frames, CalledWith

(* A print returns.                                                        *)
LEMMA PrintReturns ==
  ASSUME NEW f \in Frames
  PROVE  BackFromPrint(f) \in Frames /\ BackFromPrint(f).pc = f.ret
<1>1. "none" \in Places /\ <<>> \in Texts
  BY CatNothing DEF Places, Texts
<1> QED
  BY <1>1 DEF Frames, BackFromPrint

(* The wait is over.                                                       *)
LEMMA WriteReturns ==
  ASSUME NEW f \in Frames
  PROVE  /\ BackFromWrite(f) \in Frames /\ BackFromWrite(f).pc = f.after
         /\ BackFromWrite(f).ret = f.ret /\ BackFromWrite(f).s2 = f.s2
<1>1. "none" \in Places /\ <<>> \in Texts
  BY DEF Places, Texts
<1> QED
  BY <1>1 DEF Frames, BackFromWrite

(* The interrupt buffer was cleared.                                       *)
LEMMA ViewsCleared ==
  ASSUME NEW f \in Frames
  PROVE  /\ WithoutViews(f) \in Frames /\ WithoutViews(f).ret = f.ret
         /\ WithoutViews(f).pc = "msg_to_vga"
<1>1. "msg_to_vga" \in Places /\ <<>> \in Texts
  BY DEF Places, Holding, Texts
<1> QED
  BY <1>1 DEF Frames, WithoutViews

(* What is printed is a text.                                              *)
LEMMA MessageText ==
  ASSUME NEW m \in Nat, NEW length \in Nat
  PROVE  Message(m, length) \in Texts
BY DEF Message, Texts, Byte

-----------------------------------------------------------------------------
(* The thread's actions.                                                   *)

(* Where the thread stands when nothing interrupted it.                    *)
LEMMA Alone ==
  ASSUME ConsoleInv, Len(stack) = 1
  PROVE  /\ top \in Frames /\ top = stack[1] /\ ThreadOK(top)
         /\ ~is_in_isr /\ (locked <=> top.pc \in Holding) /\ (ifFlag <=> top.pc = "wait")
         /\ vga = Cat(Cat(sent, buffer), Pending(top))
<1>1. top \in Frames /\ top = stack[1] /\ ThreadOK(top)
  BY WhoRuns
<1>2. vga = Cat(Cat(sent, buffer), Pending(top))
  BY <1>1 DEF ConsoleInv, MirrorInv
<1>3. ~is_in_isr /\ (locked <=> top.pc \in Holding) /\ (ifFlag <=> top.pc = "wait")
  BY <1>1 DEF ConsoleInv, LockInv
<1> QED
  BY <1>1, <1>2, <1>3

(* Where the thread stands when it holds the lock or is idle.              *)
LEMMA ThreadIs ==
  ASSUME ConsoleInv, top.pc \in {"idle"} \cup Holding
  PROVE  /\ Len(stack) = 1 /\ top \in Frames /\ top = stack[1] /\ ThreadOK(top)
         /\ ~is_in_isr /\ (locked <=> top.pc \in Holding) /\ (ifFlag <=> top.pc = "wait")
         /\ vga = Cat(Cat(sent, buffer), Pending(top))
<1>1. Len(stack) = 1
  BY WhoRuns
<1> QED
  BY <1>1, Alone

(* The rest is written, by the wait or by the polling.                     *)
LEMMA RestWritten ==
  ASSUME ConsoleInv, top.pc \in Stops, Room >= Len(top.rest), WriteRest, ~ifFlag',
         sent' = sent, UNCHANGED <<vga, locked, is_in_isr, backup, messages, s_panicking>>
  PROVE  ConsoleInv'
<1> DEFINE g == BackFromWrite(top)
           later == Later(top, top.after)
<1>1. top.pc \in Holding
  BY DEF Stops, Holding
<1>2. /\ Len(stack) = 1 /\ top \in Frames /\ top = stack[1] /\ ThreadOK(top)
      /\ ~is_in_isr /\ locked
      /\ vga = Cat(Cat(sent, buffer), Pending(top))
  BY <1>1, ThreadIs
<1>3. top.after \in Nexts /\ top.ret \in {"idle", "panic_check", "flush"}
  BY <1>1, <1>2 DEF ThreadOK
<1>4. Pending(top) = Cat(top.rest, later) /\ later \in Texts /\ top.rest \in Texts
  BY <1>2, <1>3, PendingIs DEF Frames
<1>5. Become(g) /\ buffer' = Cat(buffer, top.rest)
  BY DEF WriteRest, BackFromWrite, Cat
<1>6. buffer' \in Texts /\ Len(buffer') <= SerialSize
  <2>1. /\ Cat(buffer, top.rest) \in Texts
        /\ Len(Cat(buffer, top.rest)) = Len(buffer) + Len(top.rest)
        /\ Len(buffer) \in Nat /\ Len(top.rest) \in Nat
    BY <1>4, Known, CatIs
  <2> QED
    BY <1>5, <2>1, ConsoleAssumption DEF Room
<1>7. vga' = Cat(Cat(sent', buffer'), later)
  <2>1. vga = Cat(Cat(sent, Cat(buffer, top.rest)), later)
    BY <1>2, <1>4, Known, Joined
  <2> QED
    BY <1>5, <2>1
<1>8. g \in Frames /\ g.pc = top.after /\ g.ret = top.ret /\ g.s2 = top.s2
  BY <1>2, WriteReturns
<1> HIDE DEF g, later
<1>9. ThreadOK(g) /\ g.pc \in Holding /\ g.pc \notin {"wait", "halted"}
  BY <1>3, <1>8 DEF ThreadOK, Holding, Nexts, Stops
<1>10. Pending(g) = later
  <2>1. Pending(g) = Later(g, top.after)
    BY <1>3, <1>8, PendingIs
  <2> QED
    BY <1>8, <2>1 DEF later, Later
<1>11. (locked' <=> g.pc \in Holding) /\ (ifFlag' <=> g.pc = "wait") /\ ~is_in_isr'
  BY <1>2, <1>9
<1>12. vga' = Cat(Cat(sent', buffer'), Pending(g))
  BY <1>7, <1>10
<1> QED
  BY <1>2, <1>5, <1>6, <1>8, <1>9, <1>11, <1>12, Known, ThreadMoves

(* The wait ends.                                                          *)
LEMMA EndWaitSafe == ConsoleInv /\ EndWait => ConsoleInv'
<1> SUFFICES ASSUME ConsoleInv, EndWait PROVE ConsoleInv'
  OBVIOUS
<1> QED
  BY RestWritten DEF EndWait, At, Stops, intr, console, bounds

(* A panic polls.                                                          *)
LEMMA PollSafe == ConsoleInv /\ Poll => ConsoleInv'
<1> SUFFICES ASSUME ConsoleInv, Poll PROVE ConsoleInv'
  OBVIOUS
<1>1. top.pc = "poll" /\ UNCHANGED <<ifFlag, is_in_isr, locked, s_panicking, backup, vga, messages>>
  BY DEF Poll, At, intr, console, bounds
<1>2. ~ifFlag
  BY <1>1, ThreadIs DEF Holding
<1>3. CASE Room >= Len(top.rest)
  BY <1>1, <1>2, <1>3, RestWritten DEF Poll, Stops
<1>4. CASE ~(Room >= Len(top.rest))
  <2>1. Transmit /\ UNCHANGED stack
    BY <1>4 DEF Poll
  <2>2. ConsoleType
    BY DEF ConsoleInv
  <2> QED
    BY <1>1, <2>1, <2>2, TransmitMoves, NobodyMoves
<1> QED
  BY <1>3, <1>4

(* A message is printed from the thread.                                   *)
LEMMA PrintfSafe == ConsoleInv /\ Printf => ConsoleInv'
<1> SUFFICES ASSUME ConsoleInv, Printf PROVE ConsoleInv'
  OBVIOUS
<1>1. /\ top.pc = "idle" /\ ifFlag' = ifFlag /\ is_in_isr' = is_in_isr /\ sent' = sent
      /\ buffer' = buffer /\ locked' = locked /\ s_panicking' = s_panicking
      /\ backup' = backup /\ vga' = vga
  BY DEF Printf, At, intr, serial, console
<1>2. PICK length \in Lengths : CallPrint(length, "idle")
  BY DEF Printf
<1>3. length \in Nat /\ messages + 1 \in Nat
  BY Known, ConsoleAssumption
<1> DEFINE msg == Message(messages + 1, length)
           g == CalledWith(top, "idle", msg)
<1>4. msg \in Texts
  BY <1>3, MessageText
<1>5. Become(g) /\ messages' = messages + 1
  BY <1>2 DEF CallPrint, CalledWith
<1> HIDE DEF msg
<1>6. /\ Len(stack) = 1 /\ top \in Frames
      /\ ~is_in_isr /\ ~locked /\ ~ifFlag
      /\ vga = Cat(Cat(sent, buffer), Pending(top)) /\ Pending(top) = <<>>
  <2>1. "idle" \notin Holding /\ "idle" \in Quiet /\ "idle" # "wait"
    BY DEF Holding, Quiet
  <2>2. top.pc \in {"idle"} \cup Holding /\ top.pc \in Quiet
    BY <1>1, <2>1
  <2>3. top \in Frames
    BY <2>2, ThreadIs
  <2>4. Pending(top) = <<>>
    BY <2>2, <2>3, Silent
  <2>5. /\ Len(stack) = 1 /\ ~is_in_isr /\ (locked <=> top.pc \in Holding)
        /\ (ifFlag <=> top.pc = "wait") /\ vga = Cat(Cat(sent, buffer), Pending(top))
    BY <2>2, ThreadIs
  <2> QED
    BY <1>1, <2>1, <2>3, <2>4, <2>5
<1>7. g \in Frames /\ g.pc = "write" /\ g.ret = "idle"
  <2>1. "idle" \in Places
    BY DEF Places
  <2> QED
    BY <1>4, <1>6, <2>1, CallSet
<1> HIDE DEF g
<1>8. ThreadOK(g) /\ g.pc \notin Holding /\ g.pc \notin {"wait", "halted"} /\ Pending(g) = <<>>
  <2>1. ThreadOK(g) /\ g.pc \notin Holding /\ g.pc \in Quiet
    BY <1>7 DEF ThreadOK, Holding, Stops, Quiet
  <2>2. g.pc \notin {"wait", "halted"}
    BY <1>7
  <2>3. Pending(g) = <<>>
    BY <1>7, <2>1, Silent
  <2> QED
    BY <2>1, <2>2, <2>3
<1>9. (locked' <=> g.pc \in Holding) /\ (ifFlag' <=> g.pc = "wait") /\ ~is_in_isr'
  BY <1>1, <1>6, <1>8
<1>10. vga' = Cat(Cat(sent', buffer'), Pending(g))
  BY <1>1, <1>6, <1>8
<1> QED
  BY <1>1, <1>3, <1>5, <1>6, <1>7, <1>8, <1>9, <1>10, Known, ThreadMoves

(* The lock is taken by the thread: a handler runs while it is held.       *)
LEMMA LockSafe == ConsoleInv /\ Lock => ConsoleInv'
<1> SUFFICES ASSUME ConsoleInv, Lock PROVE ConsoleInv'
  OBVIOUS
<1>1. /\ top.pc = "write" /\ ~locked /\ locked' /\ ifFlag' = ifFlag /\ is_in_isr' = is_in_isr
      /\ sent' = sent /\ buffer' = buffer /\ s_panicking' = s_panicking
      /\ backup' = backup /\ vga' = vga /\ messages' = messages
  BY DEF Lock, At, intr, serial, bounds
<1>2. Len(stack) = 1 /\ top \in Frames /\ top = stack[1] /\ ThreadOK(top)
  BY <1>1, WhoRuns, Known
<1>3. ~is_in_isr /\ ~ifFlag /\ vga = Cat(Cat(sent, buffer), Pending(top))
  <2>1. ~is_in_isr /\ (ifFlag <=> stack[1].pc = "wait")
    BY <1>2 DEF ConsoleInv, LockInv
  <2>2. vga = Cat(Cat(sent, buffer), Pending(stack[1]))
    BY DEF ConsoleInv, MirrorInv
  <2> QED
    BY <1>1, <1>2, <2>1, <2>2
<1>4. Pending(top) = <<>>
  BY <1>1, <1>2, Silent DEF Quiet
<1> DEFINE place == IF backup = <<>> THEN "msg_to_vga" ELSE "views_to_vga"
           g == PlacedAt(top, place)
<1>5. place \in Places /\ place \in {"msg_to_vga", "views_to_vga"}
  BY DEF Places, Holding
<1>6. Become(g)
  BY DEF Lock, Goto, PlacedAt
<1> HIDE DEF place
<1>7. g \in Frames /\ g.pc = place /\ g.ret = top.ret
  BY <1>2, <1>5, PlaceSet
<1> HIDE DEF g
<1>8. ThreadOK(g) /\ g.pc \in Holding /\ g.pc \in Quiet /\ g.pc \notin {"wait", "halted"}
  BY <1>1, <1>2, <1>5, <1>7 DEF ThreadOK, Holding, Quiet, Stops
<1>9. Pending(g) = <<>>
  BY <1>7, <1>8, Silent
<1> QED
  BY <1>1, <1>2, <1>3, <1>4, <1>6, <1>7, <1>8, <1>9, Known, ThreadMoves

(* The thread with the two views in hand.                                  *)
LEMMA ViewsGo ==
  ASSUME NEW f \in Frames, ThreadOK(f), f.pc \in Holding, NEW one \in Texts, NEW two \in Texts
  PROVE  /\ WithViews(f, one, two) \in Frames /\ ThreadOK(WithViews(f, one, two))
         /\ WithViews(f, one, two).pc \in Holding
         /\ WithViews(f, one, two).pc \notin {"wait", "halted"}
         /\ Pending(WithViews(f, one, two)) = Cat(one, two)
<1> DEFINE g == WithViews(f, one, two)
<1>1. g \in Frames /\ g.pc = "s1_to_serial" /\ g.ret = f.ret /\ g.s1 = one /\ g.s2 = two
  <2>1. "s1_to_serial" \in Places
    BY DEF Places, Holding
  <2> QED
    BY <2>1 DEF Frames, WithViews
<1> HIDE DEF g
<1>2. ThreadOK(g) /\ g.pc \in Holding /\ g.pc \notin {"wait", "halted"}
  BY <1>1 DEF ThreadOK, Holding, Stops
<1>3. Pending(g) = Cat(g.s1, g.s2)
  BY <1>1, PendingIs
<1> QED
  BY <1>1, <1>2, <1>3 DEF g

(* The interrupt buffer is shown.                                          *)
LEMMA ViewsToVgaSafe == ConsoleInv /\ ViewsToVga => ConsoleInv'
<1> SUFFICES ASSUME ConsoleInv, ViewsToVga PROVE ConsoleInv'
  OBVIOUS
<1>1. /\ top.pc = "views_to_vga" /\ locked' = locked /\ ifFlag' = ifFlag
      /\ is_in_isr' = is_in_isr /\ sent' = sent /\ buffer' = buffer
      /\ s_panicking' = s_panicking /\ backup' = backup /\ messages' = messages
      /\ vga' = Cat(vga, backup)
  BY DEF ViewsToVga, At, intr, serial, bounds, Cat
<1>2. top.pc \in {"idle"} \cup Holding /\ top.pc \in Quiet
  BY <1>1 DEF Holding, Quiet
<1>3. /\ Len(stack) = 1 /\ top \in Frames /\ ThreadOK(top) /\ ~is_in_isr
      /\ (locked <=> top.pc \in Holding) /\ (ifFlag <=> top.pc = "wait")
      /\ vga = Cat(Cat(sent, buffer), Pending(top))
  BY <1>2, ThreadIs
<1>4. Pending(top) = <<>>
  BY <1>2, <1>3, Silent
<1>5. PICK k \in 1..Len(backup) :
        Become([top EXCEPT !.pc = "s1_to_serial", !.s1 = Take(backup, k), !.s2 = Skip(backup, k)])
  BY DEF ViewsToVga
<1> DEFINE front == Take(backup, k)
           back == Skip(backup, k)
           g == WithViews(top, front, back)
<1>6. front \in Texts /\ back \in Texts /\ Cat(front, back) = backup
  BY Known, TakeSkip
<1>7. Become(g)
  BY <1>5 DEF WithViews
<1> HIDE DEF front, back
<1>8. top.pc \in Holding
  BY <1>1 DEF Holding
<1>9. /\ g \in Frames /\ ThreadOK(g) /\ g.pc \in Holding /\ g.pc \notin {"wait", "halted"}
      /\ Pending(g) = Cat(front, back)
  BY <1>3, <1>6, <1>8, ViewsGo
<1> HIDE DEF g
<1>10. Pending(g) = backup
  BY <1>6, <1>9
<1>11. vga' = Cat(Cat(sent', buffer'), Pending(g))
  <2>1. Cat(sent, buffer) \in Texts
    BY Known, CatIs
  <2>2. vga = Cat(sent, buffer)
    BY <1>3, <1>4, <2>1, CatNothing
  <2> QED
    BY <1>1, <1>10, <2>2
<1>12. vga' \in Texts
  BY <1>1, Known, CatIs
<1>13. (locked' <=> g.pc \in Holding) /\ (ifFlag' <=> g.pc = "wait") /\ ~is_in_isr'
  BY <1>1, <1>2, <1>3, <1>9
<1> QED
  BY <1>1, <1>3, <1>7, <1>9, <1>11, <1>12, <1>13, Known, ThreadMoves

(* The serial port is given the first view, the second and the message.    *)
LEMMA ToSerialSafe ==
  ConsoleInv /\ (S1ToSerial \/ S2ToSerial \/ MsgToSerial) => ConsoleInv'
<1> SUFFICES ASSUME ConsoleInv, S1ToSerial \/ S2ToSerial \/ MsgToSerial PROVE ConsoleInv'
  OBVIOUS
<1>1. UNCHANGED <<vga, locked, is_in_isr, backup, messages, s_panicking>>
  BY DEF S1ToSerial, S2ToSerial, MsgToSerial, intr, console, bounds
<1>2. top.pc \in Holding \ Stops /\ Len(stack) = 1 /\ top \in Frames
  BY WhoRuns DEF S1ToSerial, S2ToSerial, MsgToSerial, At, Holding, Stops
<1>3. top.s1 \in Texts /\ top.s2 \in Texts /\ top.msg \in Texts
  BY <1>2 DEF Frames
<1>4. "s2_to_serial" \in Nexts /\ "clear" \in Nexts /\ "unlock" \in Nexts
  BY DEF Nexts
<1>5. /\ Later(top, "s2_to_serial") = top.s2 /\ Later(top, "clear") = <<>>
      /\ Later(top, "unlock") = <<>>
  BY DEF Later
<1>6. Cat(top.s2, <<>>) = top.s2 /\ Cat(top.msg, <<>>) = top.msg
  BY <1>3, CatNothing
<1>7. CASE S1ToSerial
  <2>1. SerialWrite(top.s1, "s2_to_serial") /\ top.pc = "s1_to_serial"
    BY <1>7 DEF S1ToSerial, At
  <2>2. Pending(top) = Cat(top.s1, Later(top, "s2_to_serial"))
    BY <1>2, <1>5, <2>1, PendingIs
  <2> QED
    BY <1>1, <1>2, <1>3, <1>4, <2>1, <2>2, Writes
<1>8. CASE S2ToSerial
  <2>1. SerialWrite(top.s2, "clear") /\ top.pc = "s2_to_serial"
    BY <1>8 DEF S2ToSerial, At
  <2>2. Pending(top) = Cat(top.s2, Later(top, "clear"))
    BY <1>2, <1>5, <1>6, <2>1 DEF Pending
  <2> QED
    BY <1>1, <1>2, <1>3, <1>4, <2>1, <2>2, Writes
<1>9. CASE MsgToSerial
  <2>1. SerialWrite(top.msg, "unlock") /\ top.pc = "msg_to_serial"
    BY <1>9 DEF MsgToSerial, At
  <2>2. Pending(top) = Cat(top.msg, Later(top, "unlock"))
    BY <1>2, <1>5, <1>6, <2>1, PendingIs
  <2> QED
    BY <1>1, <1>2, <1>3, <1>4, <2>1, <2>2, Writes
<1> QED
  BY <1>7, <1>8, <1>9

(* The interrupt buffer is cleared.                                        *)
LEMMA ClearBackupSafe == ConsoleInv /\ ClearBackup => ConsoleInv'
<1> SUFFICES ASSUME ConsoleInv, ClearBackup PROVE ConsoleInv'
  OBVIOUS
<1>1. /\ top.pc = "clear" /\ locked' = locked /\ ifFlag' = ifFlag
      /\ is_in_isr' = is_in_isr /\ sent' = sent /\ buffer' = buffer
      /\ s_panicking' = s_panicking /\ backup' = <<>> /\ messages' = messages
      /\ vga' = vga
  BY DEF ClearBackup, At, intr, serial, bounds
<1>2. top.pc \in {"idle"} \cup Holding /\ top.pc \in Quiet
  BY <1>1 DEF Holding, Quiet
<1>3. /\ Len(stack) = 1 /\ top \in Frames /\ ThreadOK(top) /\ ~is_in_isr
      /\ (locked <=> top.pc \in Holding) /\ (ifFlag <=> top.pc = "wait")
      /\ vga = Cat(Cat(sent, buffer), Pending(top))
  BY <1>2, ThreadIs
<1>4. Pending(top) = <<>>
  BY <1>2, <1>3, Silent
<1> DEFINE g == WithoutViews(top)
<1>5. Become(g)
  BY DEF ClearBackup, WithoutViews
<1>6. g \in Frames /\ g.ret = top.ret /\ g.pc = "msg_to_vga"
  BY <1>3, ViewsCleared
<1> HIDE DEF g
<1>7. ThreadOK(g) /\ g.pc \in Holding /\ g.pc \in Quiet /\ g.pc \notin {"wait", "halted"}
  BY <1>1, <1>3, <1>6 DEF ThreadOK, Holding, Quiet, Stops
<1>8. Pending(g) = <<>>
  BY <1>6, <1>7, Silent
<1>9. (locked' <=> g.pc \in Holding) /\ (ifFlag' <=> g.pc = "wait") /\ ~is_in_isr'
  BY <1>1, <1>2, <1>3, <1>7
<1>10. backup' \in Texts /\ Len(backup') <= BackupSize
  BY <1>1, Known, CatNothing, ConsoleAssumption
<1>11. vga' = Cat(Cat(sent', buffer'), Pending(g))
  BY <1>1, <1>3, <1>4, <1>8
<1> QED
  BY <1>1, <1>3, <1>5, <1>6, <1>7, <1>9, <1>10, <1>11, Known, ThreadMoves

(* The message is shown.                                                   *)
LEMMA MsgToVgaSafe == ConsoleInv /\ MsgToVga => ConsoleInv'
<1> SUFFICES ASSUME ConsoleInv, MsgToVga PROVE ConsoleInv'
  OBVIOUS
<1>1. /\ top.pc = "msg_to_vga" /\ locked' = locked /\ ifFlag' = ifFlag
      /\ is_in_isr' = is_in_isr /\ sent' = sent /\ buffer' = buffer
      /\ s_panicking' = s_panicking /\ backup' = backup /\ messages' = messages
      /\ vga' = Cat(vga, top.msg)
  BY DEF MsgToVga, At, intr, serial, bounds, Cat
<1>2. top.pc \in {"idle"} \cup Holding /\ top.pc \in Quiet
  BY <1>1 DEF Holding, Quiet
<1>3. /\ Len(stack) = 1 /\ top \in Frames /\ ThreadOK(top) /\ ~is_in_isr
      /\ (locked <=> top.pc \in Holding) /\ (ifFlag <=> top.pc = "wait")
      /\ vga = Cat(Cat(sent, buffer), Pending(top))
  BY <1>2, ThreadIs
<1>4. Pending(top) = <<>>
  BY <1>2, <1>3, Silent
<1> DEFINE g == PlacedAt(top, "msg_to_serial")
<1>5. Become(g)
  BY DEF MsgToVga, Goto, PlacedAt
<1>6. "msg_to_serial" \in Places
  BY DEF Places, Holding
<1>7. g \in Frames /\ g.ret = top.ret /\ g.pc = "msg_to_serial" /\ g.msg = top.msg
  BY <1>3, <1>6, PlaceSet
<1> HIDE DEF g
<1>8. ThreadOK(g) /\ g.pc \in Holding /\ g.pc \notin {"wait", "halted"}
  BY <1>1, <1>3, <1>7 DEF ThreadOK, Holding, Stops
<1>9. Pending(g) = top.msg /\ top.msg \in Texts
  <2>1. Pending(g) = g.msg
    BY <1>7, PendingIs
  <2>2. top.msg \in Texts
    BY <1>3 DEF Frames
  <2> QED
    BY <1>7, <2>1, <2>2
<1>10. (locked' <=> g.pc \in Holding) /\ (ifFlag' <=> g.pc = "wait") /\ ~is_in_isr'
  BY <1>1, <1>2, <1>3, <1>8
<1>11. vga' = Cat(Cat(sent', buffer'), Pending(g))
  <2>1. Cat(sent, buffer) \in Texts
    BY Known, CatIs
  <2>2. vga = Cat(sent, buffer)
    BY <1>3, <1>4, <2>1, CatNothing
  <2> QED
    BY <1>1, <1>9, <2>2
<1>12. vga' \in Texts
  BY <1>1, <1>9, Known, CatIs
<1> QED
  BY <1>1, <1>3, <1>5, <1>7, <1>8, <1>10, <1>11, <1>12, Known, ThreadMoves

(* The print returns and the lock is free.                                 *)
LEMMA UnlockSafe == ConsoleInv /\ Unlock => ConsoleInv'
<1> SUFFICES ASSUME ConsoleInv, Unlock PROVE ConsoleInv'
  OBVIOUS
<1>1. /\ top.pc = "unlock" /\ ~locked' /\ ifFlag' = ifFlag
      /\ is_in_isr' = is_in_isr /\ sent' = sent /\ buffer' = buffer
      /\ s_panicking' = s_panicking /\ backup' = backup /\ messages' = messages
      /\ vga' = vga
  BY DEF Unlock, At, intr, serial, bounds
<1>2. top.pc \in {"idle"} \cup Holding /\ top.pc \in Quiet /\ top.pc \in Holding
  BY <1>1 DEF Holding, Quiet
<1>3. /\ Len(stack) = 1 /\ top \in Frames /\ ThreadOK(top) /\ ~is_in_isr
      /\ (locked <=> top.pc \in Holding) /\ (ifFlag <=> top.pc = "wait")
      /\ vga = Cat(Cat(sent, buffer), Pending(top))
  BY <1>2, ThreadIs
<1>4. Pending(top) = <<>>
  BY <1>2, <1>3, Silent
<1> DEFINE g == BackFromPrint(top)
<1>5. Become(g)
  BY DEF Unlock, BackFromPrint
<1>6. g \in Frames /\ g.pc = top.ret
  BY <1>3, PrintReturns
<1>7. top.ret \in {"idle", "panic_check", "flush"}
  BY <1>2, <1>3 DEF ThreadOK
<1> HIDE DEF g
<1>8. ThreadOK(g) /\ g.pc \notin Holding /\ g.pc \in Quiet /\ g.pc \notin {"wait", "halted"}
  BY <1>6, <1>7 DEF ThreadOK, Holding, Quiet, Stops, Reporting
<1>9. Pending(g) = <<>>
  BY <1>6, <1>8, Silent
<1>10. (locked' <=> g.pc \in Holding) /\ (ifFlag' <=> g.pc = "wait") /\ ~is_in_isr'
  BY <1>1, <1>3, <1>8
<1>11. vga' = Cat(Cat(sent', buffer'), Pending(g))
  BY <1>1, <1>3, <1>4, <1>9
<1> QED
  BY <1>1, <1>3, <1>5, <1>6, <1>8, <1>10, <1>11, Known, ThreadMoves

-----------------------------------------------------------------------------
(* The handler's actions, and a panic's, which either may raise.           *)

(* Where a handler stands.                                                 *)
LEMMA HandlerIs ==
  ASSUME ConsoleInv, Len(stack) = 2
  PROVE  top \in Frames /\ HandlerOK(top) /\ ~ifFlag /\ locked /\ (TrapFree => is_in_isr)
<1>1. top \in Frames /\ HandlerOK(top) /\ ~ifFlag /\ locked
  BY WhoRuns
<1>2. TrapFree => is_in_isr
  BY DEF ConsoleInv, LockInv
<1> QED
  BY <1>1, <1>2

(* A step of the handler that changes nothing but its place and the UART.  *)
LEMMA HandlerGoes ==
  ASSUME ConsoleInv, Len(stack) = 2, NEW f \in Frames, Become(f), HandlerOK(f),
         f.pc # "halted", locked' = locked, ifFlag' = ifFlag, is_in_isr' = is_in_isr,
         vga' = vga, backup' = backup, s_panicking' = s_panicking,
         messages' \in Nat, sent' \in Texts, buffer' \in Texts, Len(buffer') <= SerialSize,
         Cat(sent', buffer') = Cat(sent, buffer)
  PROVE  ConsoleInv'
<1>1. ~ifFlag' /\ (TrapFree => is_in_isr')
  BY HandlerIs
<1>2. backup' \in Texts /\ Len(backup') <= BackupSize /\ s_panicking' \in BOOLEAN
  BY Known
<1> QED
  BY <1>1, <1>2, HandlerMoves

(* Interrupts are off while a panic is reported.                           *)
LEMMA PanicIsDeaf ==
  ASSUME ConsoleInv, top.pc \in Reporting
  PROVE  ~ifFlag
<1>1. top.pc # "wait"
  BY DEF Reporting
<1>2. CASE Len(stack) = 1
  BY <1>1, <1>2, Alone
<1>3. CASE Len(stack) = 2
  BY <1>3, HandlerIs
<1> QED
  BY <1>2, <1>3, Known

(* A step of a panic, or into one.                                         *)
LEMMA PanicGoes ==
  ASSUME ConsoleInv, top.pc \in {"idle", "keyboard"} \cup Reporting,
         NEW f \in Frames, Become(f), f.pc \in {"write"} \cup Reporting,
         f.pc = "write" => f.ret \in {"panic_check", "flush"},
         f.pc = "halted" => buffer = <<>>,
         ~ifFlag', locked' = locked, vga' = vga, sent' = sent, buffer' = buffer,
         backup' = backup, messages' \in Nat, s_panicking' \in BOOLEAN,
         is_in_isr' => is_in_isr, TrapFree /\ Len(stack) = 2 => is_in_isr'
  PROVE  ConsoleInv'
<1>1. /\ sent' \in Texts /\ buffer' \in Texts /\ Len(buffer') <= SerialSize /\ vga' \in Texts
      /\ backup' \in Texts /\ Len(backup') <= BackupSize
  BY Known
<1>2. CASE Len(stack) = 2
  <2>1. HandlerOK(f)
    BY DEF HandlerOK, Handling
  <2> QED
    BY <1>1, <1>2, <2>1, HandlerMoves
<1>3. CASE Len(stack) = 1
  <2>1. top \in Frames /\ ThreadOK(top)
    BY <1>3, Alone
  <2>2. top.pc \in Quiet /\ top.pc \notin Holding
    BY <2>1 DEF ThreadOK, Quiet, Holding, Reporting
  <2>3. vga = Cat(Cat(sent, buffer), Pending(top))
    BY <1>3, Alone
  <2>4. ~locked' /\ ~is_in_isr'
    <3>1. ~is_in_isr /\ (locked <=> top.pc \in Holding)
      BY <1>3, Alone
    <3> QED
      BY <2>2, <3>1
  <2>5. Pending(top) = <<>>
    BY <2>1, <2>2, Silent
  <2>6. ThreadOK(f) /\ f.pc \notin Holding /\ f.pc \in Quiet /\ f.pc # "wait"
    BY DEF ThreadOK, Holding, Quiet, Stops, Reporting
  <2>7. Pending(f) = <<>>
    BY <2>6, Silent
  <2>8. vga' = Cat(Cat(sent', buffer'), Pending(f))
    BY <2>3, <2>5, <2>7
  <2>9. (locked' <=> f.pc \in Holding) /\ (ifFlag' <=> f.pc = "wait")
    BY <2>4, <2>6
  <2> QED
    BY <1>1, <1>3, <2>4, <2>6, <2>8, <2>9, ThreadMoves
<1> QED
  BY <1>2, <1>3, Known

(* A handler prints into the interrupt buffer: the lock is held.           *)
LEMMA WriteBackupSafe == ConsoleInv /\ WriteBackup => ConsoleInv'
<1> SUFFICES ASSUME ConsoleInv, WriteBackup PROVE ConsoleInv'
  OBVIOUS
<1>1. /\ top.pc = "write" /\ is_in_isr /\ locked' = locked /\ ifFlag' = ifFlag
      /\ is_in_isr' = is_in_isr /\ vga' = vga /\ sent' = sent /\ buffer' = buffer
      /\ s_panicking' = s_panicking /\ messages' = messages
      /\ backup' = Cat(backup, Take(top.msg, BackupSize - Len(backup)))
  BY DEF WriteBackup, At, intr, serial, bounds, Cat
<1>2. Len(stack) = 2
  BY <1>1 DEF ConsoleInv, LockInv
<1>3. top \in Frames /\ HandlerOK(top) /\ ~ifFlag /\ (TrapFree => is_in_isr)
  BY <1>2, HandlerIs
<1> DEFINE room == BackupSize - Len(backup)
           taken == Take(top.msg, room)
           g == BackFromPrint(top)
<1>4. room \in Nat /\ Len(backup) + room = BackupSize /\ Len(backup) \in Nat
  <2>1. Len(backup) \in Nat /\ Len(backup) <= BackupSize
    BY Known, CatIs
  <2> QED
    BY <2>1, ConsoleAssumption
<1>5. top.msg \in Texts
  BY <1>3 DEF Frames
<1> HIDE DEF room
<1>6. taken \in Texts /\ Len(taken) <= room
  BY <1>4, <1>5, TakeSkip
<1>7. backup' = Cat(backup, taken)
  BY <1>1 DEF room
<1> HIDE DEF taken
<1>8. backup' \in Texts /\ Len(backup') <= BackupSize
  <2>1. /\ Cat(backup, taken) \in Texts /\ Len(Cat(backup, taken)) = Len(backup) + Len(taken)
        /\ Len(taken) \in Nat
    BY <1>6, Known, CatIs
  <2> QED
    BY <1>4, <1>6, <1>7, <2>1, ConsoleAssumption
<1>9. Become(g)
  BY DEF WriteBackup, BackFromPrint
<1>10. g \in Frames /\ g.pc = top.ret
  BY <1>3, PrintReturns
<1> HIDE DEF g
<1>11. HandlerOK(g) /\ g.pc # "halted"
  BY <1>1, <1>3, <1>10 DEF HandlerOK, Handling, Reporting
<1>12. sent' \in Texts /\ buffer' \in Texts /\ Len(buffer') <= SerialSize
  BY <1>1, Known
<1>13. Cat(sent', buffer') = Cat(sent, buffer)
  BY <1>1
<1>14. messages' \in Nat /\ s_panicking' \in BOOLEAN
  BY <1>1, Known
<1> QED
  BY <1>1, <1>2, <1>3, <1>8, <1>9, <1>10, <1>11, <1>12, <1>13, <1>14, HandlerMoves

(* The serial handler looks for the reason of its interrupt.               *)
LEMMA ReadDetectSafe == ConsoleInv /\ ReadDetect => ConsoleInv'
<1> SUFFICES ASSUME ConsoleInv, ReadDetect PROVE ConsoleInv'
  OBVIOUS
<1>1. /\ top.pc = "detect" /\ locked' = locked /\ ifFlag' = ifFlag
      /\ is_in_isr' = is_in_isr /\ vga' = vga /\ sent' = sent /\ buffer' = buffer
      /\ s_panicking' = s_panicking /\ messages' = messages /\ backup' = backup
  BY DEF ReadDetect, At, intr, console, bounds
<1>2. Len(stack) = 2
  BY <1>1, WhoRuns
<1>3. top \in Frames
  BY <1>2, HandlerIs
<1> DEFINE place == IF thri THEN "line_status" ELSE "eoi"
           g == PlacedAt(top, place)
<1>4. place \in Places /\ place \in {"line_status", "eoi"}
  BY DEF Places, Handling
<1>5. Become(g)
  BY DEF ReadDetect, Goto, PlacedAt
<1> HIDE DEF place
<1>6. g \in Frames /\ g.pc = place
  BY <1>3, <1>4, PlaceSet
<1> HIDE DEF g
<1>7. HandlerOK(g) /\ g.pc # "halted"
  BY <1>4, <1>6 DEF HandlerOK, Handling
<1>8. messages' \in Nat /\ sent' \in Texts /\ buffer' \in Texts /\ Len(buffer') <= SerialSize
  BY <1>1, Known
<1>9. Cat(sent', buffer') = Cat(sent, buffer)
  BY <1>1
<1> QED
  BY <1>1, <1>2, <1>5, <1>6, <1>7, <1>8, <1>9, HandlerGoes

(* How a handler goes on: it prints or it is done with this.               *)
LEMMA HandlerNext ==
  ASSUME ConsoleInv, Len(stack) = 2, NEW next \in {"detect", "eoi"},
         \/ Goto(next) /\ UNCHANGED messages
         \/ \E length \in Lengths : CallPrint(length, next)
  PROVE  \E f \in Frames : Become(f) /\ HandlerOK(f) /\ f.pc # "halted" /\ messages' \in Nat
<1>1. top \in Frames
  BY HandlerIs
<1>2. next \in Places
  BY DEF Places, Handling
<1>3. CASE Goto(next) /\ UNCHANGED messages
  <2> DEFINE g == PlacedAt(top, next)
  <2>1. Become(g)
    BY <1>3 DEF Goto, PlacedAt
  <2>2. g \in Frames /\ g.pc = next
    BY <1>1, <1>2, PlaceSet
  <2> HIDE DEF g
  <2>3. HandlerOK(g) /\ g.pc # "halted"
    BY <2>2 DEF HandlerOK, Handling
  <2>4. messages' \in Nat
    BY <1>3, Known
  <2> QED
    BY <2>1, <2>2, <2>3, <2>4
<1>4. ASSUME NEW length \in Lengths, CallPrint(length, next)
      PROVE  \E f \in Frames : Become(f) /\ HandlerOK(f) /\ f.pc # "halted" /\ messages' \in Nat
  <2> DEFINE msg == Message(messages + 1, length)
             g == CalledWith(top, next, msg)
  <2>1. Become(g) /\ messages' = messages + 1
    BY <1>4 DEF CallPrint, CalledWith
  <2>2. length \in Nat /\ messages + 1 \in Nat
    BY Known, ConsoleAssumption
  <2>3. msg \in Texts
    BY <2>2, MessageText
  <2> HIDE DEF msg
  <2>4. g \in Frames /\ g.pc = "write" /\ g.ret = next
    BY <1>1, <1>2, <2>3, CallSet
  <2> HIDE DEF g
  <2>5. HandlerOK(g) /\ g.pc # "halted"
    BY <2>4 DEF HandlerOK, Handling
  <2> QED
    BY <2>1, <2>2, <2>4, <2>5
<1> QED
  BY <1>3, <1>4

(* The serial handler sends, and prints if the line status shows errors.   *)
LEMMA ReadLineStatusSafe == ConsoleInv /\ ReadLineStatus => ConsoleInv'
<1> SUFFICES ASSUME ConsoleInv, ReadLineStatus PROVE ConsoleInv'
  OBVIOUS
<1>1. /\ top.pc = "line_status" /\ locked' = locked /\ ifFlag' = ifFlag
      /\ is_in_isr' = is_in_isr /\ vga' = vga
      /\ s_panicking' = s_panicking /\ backup' = backup /\ Transmit
  BY DEF ReadLineStatus, At, intr, console
<1>2. Len(stack) = 2
  BY <1>1, WhoRuns
<1>3. /\ sent' \in Texts /\ buffer' \in Texts /\ Len(buffer') <= SerialSize
      /\ Cat(sent', buffer') = Cat(sent, buffer)
  <2>1. ConsoleType
    BY DEF ConsoleInv
  <2> QED
    BY <1>1, <2>1, TransmitMoves
<1>4. \/ Goto("detect") /\ UNCHANGED messages
      \/ \E length \in Lengths : CallPrint(length, "detect")
  BY DEF ReadLineStatus
<1>5. PICK f \in Frames : Become(f) /\ HandlerOK(f) /\ f.pc # "halted" /\ messages' \in Nat
  BY <1>2, <1>4, HandlerNext
<1> QED
  BY <1>1, <1>2, <1>3, <1>5, HandlerGoes

(* The keyboard's handler takes a byte and prints if it does not know it.  *)
LEMMA HandleKeySafe == ConsoleInv /\ HandleKey => ConsoleInv'
<1> SUFFICES ASSUME ConsoleInv, HandleKey PROVE ConsoleInv'
  OBVIOUS
<1>1. /\ top.pc = "keyboard" /\ locked' = locked /\ ifFlag' = ifFlag
      /\ is_in_isr' = is_in_isr /\ vga' = vga /\ sent' = sent /\ buffer' = buffer
      /\ s_panicking' = s_panicking /\ backup' = backup
  BY DEF HandleKey, At, intr, serial, console
<1>2. Len(stack) = 2
  BY <1>1, WhoRuns
<1>3. /\ sent' \in Texts /\ buffer' \in Texts /\ Len(buffer') <= SerialSize
      /\ Cat(sent', buffer') = Cat(sent, buffer)
  BY <1>1, Known
<1>4. \/ Goto("eoi") /\ UNCHANGED messages
      \/ \E length \in Lengths : CallPrint(length, "eoi")
  BY DEF HandleKey
<1>5. PICK f \in Frames : Become(f) /\ HandlerOK(f) /\ f.pc # "halted" /\ messages' \in Nat
  BY <1>2, <1>4, HandlerNext
<1> QED
  BY <1>1, <1>2, <1>3, <1>5, HandlerGoes

(* The handler is done and the wait goes on.                               *)
LEMMA EndOfInterruptSafe == ConsoleInv /\ EndOfInterrupt => ConsoleInv'
<1> SUFFICES ASSUME ConsoleInv, EndOfInterrupt PROVE ConsoleInv'
  OBVIOUS
<1>1. /\ top.pc = "eoi" /\ locked' = locked /\ ifFlag'
      /\ ~is_in_isr' /\ vga' = vga /\ sent' = sent /\ buffer' = buffer
      /\ s_panicking' = s_panicking /\ messages' = messages /\ backup' = backup
      /\ stack' = SubSeq(stack, 1, Len(stack) - 1)
  BY DEF EndOfInterrupt, At, serial, console, bounds
<1>2. Len(stack) = 2
  BY <1>1, WhoRuns
<1>3. stack' \in Seq(Frames) /\ Len(stack') = 1 /\ stack'[1] = stack[1]
  <2>1. stack \in Seq(Frames)
    BY DEF ConsoleInv, ConsoleType
  <2>2. stack' = SubSeq(stack, 1, 1)
    BY <1>1, <1>2
  <2> QED
    BY <1>2, <2>1, <2>2
<1>4. top' = stack[1]
  BY <1>3 DEF top
<1>5. stack[1].pc = "wait"
  BY <1>2 DEF ConsoleInv, LockInv
<1>6. ConsoleType'
  BY <1>1, <1>3, Known DEF ConsoleType
<1>7. LockInv'
  <2>1. ThreadOK(stack[1]) /\ (locked <=> stack[1].pc \in Holding)
    BY DEF ConsoleInv, LockInv
  <2>2. /\ (locked' <=> stack'[1].pc \in Holding) /\ ThreadOK(stack'[1])
        /\ (ifFlag' <=> Len(stack') = 1 /\ stack'[1].pc = "wait")
    BY <1>1, <1>3, <1>5, <2>1
  <2>3. Len(stack') # 2
    BY <1>3
  <2> QED
    BY <1>1, <2>2, <2>3 DEF LockInv
<1>8. MirrorInv'
  <2>1. vga = Cat(Cat(sent, buffer), Pending(stack[1]))
    BY DEF ConsoleInv, MirrorInv
  <2> QED
    BY <1>1, <1>3, <1>4, <1>5, <2>1 DEF MirrorInv
<1> QED
  BY <1>6, <1>7, <1>8 DEF ConsoleInv

(* One more at the end of a sequence of one.                               *)
LEMMA OneOnTop ==
  ASSUME NEW S, NEW s \in Seq(S), Len(s) = 1, NEW f \in S
  PROVE  /\ Append(s, f) \in Seq(S) /\ Len(Append(s, f)) = 2
         /\ Append(s, f)[1] = s[1] /\ Append(s, f)[2] = f
<1>1. /\ Append(s, f) \in Seq(S) /\ Len(Append(s, f)) = Len(s) + 1
      /\ \A i \in 1..Len(s) : Append(s, f)[i] = s[i]
      /\ Append(s, f)[Len(s) + 1] = f
  BY AppendProperties, SMTT(60)
<1>2. Len(s) + 1 = 2 /\ 1 \in 1..Len(s)
  OBVIOUS
<1> QED
  BY <1>1, <1>2

(* A frame on top of another.                                              *)
LEMMA Pushed ==
  ASSUME NEW s \in Seq(Frames), Len(s) = 1, NEW f \in Frames
  PROVE  /\ Append(s, f) \in Seq(Frames) /\ Len(Append(s, f)) = 2
         /\ Append(s, f)[1] = s[1] /\ Append(s, f)[2] = f
BY OneOnTop, Zenon

(* An interrupt finds the thread waiting.                                  *)
LEMMA DeliverSafe == ASSUME NEW q \in {Keyboard, Com1}, ConsoleInv, Deliver(q) PROVE ConsoleInv'
<1> DEFINE place == IF q = Com1 THEN "detect" ELSE "keyboard"
           f == Frame(q, place)
<1>1. /\ locked' = locked /\ ifFlag /\ ~ifFlag'
      /\ is_in_isr' /\ vga' = vga /\ sent' = sent /\ buffer' = buffer
      /\ s_panicking' = s_panicking /\ messages' = messages /\ backup' = backup
      /\ stack' = Append(stack, f)
  BY DEF Deliver, serial, console, bounds
<1>2. Len(stack) = 1 /\ stack[1].pc = "wait"
  BY <1>1 DEF ConsoleInv, LockInv
<1>3. f \in Frames /\ f.pc \in {"detect", "keyboard"}
  <2>1. /\ place \in Places /\ "none" \in Places /\ <<>> \in Texts
        /\ place \in {"detect", "keyboard"}
    BY DEF Places, Handling, Texts
  <2>2. q \in Nat
    BY DEF Keyboard, Com1
  <2> HIDE DEF place
  <2> QED
    BY <2>1, <2>2 DEF Frame, Frames
<1> HIDE DEF f
<1>4. stack' \in Seq(Frames) /\ Len(stack') = 2 /\ stack'[1] = stack[1] /\ stack'[2] = f
  <2>1. stack \in Seq(Frames)
    BY DEF ConsoleInv, ConsoleType
  <2>2. Append(stack, f) \in Seq(Frames) /\ Len(Append(stack, f)) = 2
        /\ Append(stack, f)[1] = stack[1] /\ Append(stack, f)[2] = f
    BY <1>2, <1>3, <2>1, Pushed
  <2> QED
    BY <1>1, <2>2
<1>5. top' = f
  BY <1>4 DEF top
<1>6. ConsoleType'
  BY <1>1, <1>4, Known DEF ConsoleType
<1>7. LockInv'
  <2>1. ThreadOK(stack[1]) /\ (locked <=> stack[1].pc \in Holding)
    BY DEF ConsoleInv, LockInv
  <2>2. HandlerOK(f)
    BY <1>3 DEF HandlerOK, Handling
  <2> QED
    BY <1>1, <1>2, <1>4, <2>1, <2>2 DEF LockInv
<1>8. MirrorInv'
  <2>1. vga = Cat(Cat(sent, buffer), Pending(stack[1]))
    BY DEF ConsoleInv, MirrorInv
  <2> QED
    BY <1>1, <1>3, <1>4, <1>5, <2>1 DEF MirrorInv
<1> QED
  BY <1>6, <1>7, <1>8 DEF ConsoleInv

(* Something goes wrong, in the thread or in a handler.                    *)
LEMMA CrashSafe == ConsoleInv /\ Crash => ConsoleInv'
<1> SUFFICES ASSUME ConsoleInv, Crash PROVE ConsoleInv'
  OBVIOUS
<1>1. /\ locked' = locked /\ ~ifFlag' /\ vga' = vga /\ sent' = sent /\ buffer' = buffer
      /\ s_panicking' = s_panicking /\ messages' = messages /\ backup' = backup
      /\ Goto("panic")
  BY DEF Crash, serial, console, bounds
<1>2. PICK kind \in {"assert", "fault", "trap"} :
        <<top.pc, kind>> \in Crashes /\ is_in_isr' = (is_in_isr /\ kind # "trap")
  BY DEF Crash
<1>3. top.pc \in {"idle", "keyboard", "trace"}
  BY <1>2, ConsoleAssumption
<1>4. top \in Frames
  BY WhoRuns
<1> DEFINE g == PlacedAt(top, "panic")
<1>5. Become(g)
  BY <1>1 DEF Goto, PlacedAt
<1>6. g \in Frames /\ g.pc = "panic"
  <2>1. "panic" \in Places
    BY DEF Places, Handling, Reporting
  <2> QED
    BY <1>4, <2>1, PlaceSet
<1> HIDE DEF g
<1>7. g.pc \in {"write"} \cup Reporting /\ g.pc # "write" /\ g.pc # "halted"
  BY <1>6 DEF Reporting
<1>8. top.pc \in {"idle", "keyboard"} \cup Reporting
  BY <1>3 DEF Reporting
<1>9. is_in_isr' => is_in_isr
  BY <1>2
<1>10. TrapFree /\ Len(stack) = 2 => is_in_isr'
  <2> SUFFICES ASSUME TrapFree, Len(stack) = 2 PROVE is_in_isr'
    OBVIOUS
  <2>1. is_in_isr /\ HandlerOK(top)
    BY HandlerIs
  <2>2. top.pc \in {"keyboard", "trace"}
    BY <1>3, <2>1 DEF HandlerOK, Handling, Reporting
  <2>3. <<top.pc, "trap">> \notin Crashes
    BY <2>2 DEF TrapFree
  <2> QED
    BY <1>2, <2>1, <2>3
<1>11. messages' \in Nat /\ s_panicking' \in BOOLEAN
  BY <1>1, Known
<1> QED
  BY <1>1, <1>5, <1>6, <1>7, <1>8, <1>9, <1>10, <1>11, PanicGoes

(* Messages are counted.                                                   *)
LEMMA Count ==
  ASSUME ConsoleInv
  PROVE  messages + 1 \in Nat /\ 1 \in Nat
<1>1. messages \in Nat
  BY Known
<1> QED
  BY <1>1

(* A panic prints: the reason, or the trace.                               *)
LEMMA PanicPrintsSafe == ConsoleInv /\ (PanicReason \/ StackTrace) => ConsoleInv'
<1> SUFFICES ASSUME ConsoleInv, PanicReason \/ StackTrace PROVE ConsoleInv'
  OBVIOUS
<1>1. /\ locked' = locked /\ ifFlag' = ifFlag /\ vga' = vga /\ sent' = sent /\ buffer' = buffer
      /\ s_panicking' = s_panicking /\ backup' = backup /\ is_in_isr' = is_in_isr
      /\ top.pc \in {"panic", "trace"}
  BY DEF PanicReason, StackTrace, At, intr, serial, console
<1>2. PICK ret \in {"panic_check", "flush"} : CallPrint(1, ret)
  BY DEF PanicReason, StackTrace
<1>3. top \in Frames /\ ret \in Places /\ top.pc \in Reporting
  BY <1>1, WhoRuns DEF Places, Handling, Reporting
<1> DEFINE msg == Message(messages + 1, 1)
           g == CalledWith(top, ret, msg)
<1>4. Become(g) /\ messages' = messages + 1
  BY <1>2 DEF CallPrint, CalledWith
<1>5. msg \in Texts /\ messages' \in Nat
  <2>1. messages + 1 \in Nat /\ 1 \in Nat
    BY Count
  <2>2. msg \in Texts
    BY <2>1, MessageText
  <2> QED
    BY <1>4, <2>1, <2>2
<1> HIDE DEF msg
<1>6. g \in Frames /\ g.pc = "write" /\ g.ret = ret
  BY <1>3, <1>5, CallSet
<1> HIDE DEF g
<1>7. ~ifFlag'
  BY <1>1, PanicIsDeaf, <1>3
<1>8. TrapFree /\ Len(stack) = 2 => is_in_isr'
  BY <1>1, HandlerIs
<1>9. s_panicking' \in BOOLEAN
  BY <1>1, Known
<1> QED
  BY <1>1, <1>3, <1>4, <1>5, <1>6, <1>7, <1>8, <1>9, PanicGoes

(* A panic looks whether it is the first.                                  *)
LEMMA NestedPanicCheckSafe == ConsoleInv /\ NestedPanicCheck => ConsoleInv'
<1> SUFFICES ASSUME ConsoleInv, NestedPanicCheck PROVE ConsoleInv'
  OBVIOUS
<1>1. /\ locked' = locked /\ ifFlag' = ifFlag /\ vga' = vga /\ sent' = sent /\ buffer' = buffer
      /\ s_panicking' = TRUE /\ backup' = backup /\ is_in_isr' = is_in_isr
      /\ messages' = messages /\ top.pc = "panic_check"
  BY DEF NestedPanicCheck, At, intr, serial, bounds
<1> DEFINE place == IF s_panicking THEN "flush" ELSE "trace"
           g == PlacedAt(top, place)
<1>2. place \in {"flush", "trace"} /\ place \in Places
  BY DEF Places, Handling, Reporting
<1>3. top \in Frames /\ top.pc \in Reporting
  BY <1>1, WhoRuns DEF Reporting
<1>4. Become(g)
  BY DEF NestedPanicCheck, Goto, PlacedAt
<1> HIDE DEF place
<1>5. g \in Frames /\ g.pc = place
  BY <1>2, <1>3, PlaceSet
<1> HIDE DEF g
<1>6. g.pc \in {"write"} \cup Reporting /\ g.pc # "write" /\ g.pc # "halted"
  BY <1>2, <1>5 DEF Reporting
<1>7. ~ifFlag'
  BY <1>1, PanicIsDeaf, <1>3
<1>8. TrapFree /\ Len(stack) = 2 => is_in_isr'
  BY <1>1, HandlerIs
<1>9. s_panicking' \in BOOLEAN /\ messages' \in Nat
  BY <1>1, Known
<1> QED
  BY <1>1, <1>3, <1>4, <1>5, <1>6, <1>7, <1>8, <1>9, PanicGoes

(* A panic sends what is in the buffer, then halts.                        *)
LEMMA FlushSafe == ConsoleInv /\ Flush => ConsoleInv'
<1> SUFFICES ASSUME ConsoleInv, Flush PROVE ConsoleInv'
  OBVIOUS
<1>1. /\ locked' = locked /\ ifFlag' = ifFlag /\ vga' = vga
      /\ s_panicking' = s_panicking /\ backup' = backup /\ is_in_isr' = is_in_isr
      /\ messages' = messages /\ top.pc = "flush"
  BY DEF Flush, At, intr, console, bounds
<1>2. CASE buffer = <<>>
  <2> DEFINE g == PlacedAt(top, "halted")
  <2>1. Become(g) /\ sent' = sent /\ buffer' = buffer
    BY <1>2 DEF Flush, Goto, PlacedAt, serial
  <2>2. top \in Frames /\ top.pc \in Reporting
    BY <1>1, WhoRuns DEF Reporting
  <2>3. g \in Frames /\ g.pc = "halted"
    <3>1. "halted" \in Places
      BY DEF Places, Handling, Reporting
    <3> QED
      BY <2>2, <3>1, PlaceSet
  <2> HIDE DEF g
  <2>4. g.pc \in {"write"} \cup Reporting /\ g.pc # "write"
    BY <2>3 DEF Reporting
  <2>5. ~ifFlag'
    BY <1>1, PanicIsDeaf, <2>2
  <2>6. TrapFree /\ Len(stack) = 2 => is_in_isr'
    BY <1>1, HandlerIs
  <2>7. s_panicking' \in BOOLEAN /\ messages' \in Nat
    BY <1>1, Known
  <2> QED
    BY <1>1, <1>2, <2>1, <2>2, <2>3, <2>4, <2>5, <2>6, <2>7, PanicGoes
<1>3. CASE buffer # <<>>
  <2>1. Transmit /\ stack' = stack
    BY <1>3 DEF Flush
  <2>2. ConsoleType
    BY DEF ConsoleInv
  <2> QED
    BY <1>1, <2>1, <2>2, TransmitMoves, NobodyMoves
<1> QED
  BY <1>2, <1>3

-----------------------------------------------------------------------------
(* The invariant.                                                          *)

(* The devices leave the kernel alone.                                     *)
LEMMA DeviceSafe ==
  ConsoleInv /\ (UartFifoEmpty \/ UartShiftEmpty \/ KeyboardSends \/ Spin \/ Halted
                   \/ OtherCode \/ UNCHANGED vars) => ConsoleInv'
<1> SUFFICES ASSUME ConsoleInv,
                    UartFifoEmpty \/ UartShiftEmpty \/ KeyboardSends \/ Spin \/ Halted
                      \/ OtherCode \/ UNCHANGED vars
             PROVE  ConsoleInv'
  OBVIOUS
<1>1. /\ stack' = stack /\ locked' = locked /\ ifFlag' = ifFlag /\ is_in_isr' = is_in_isr
      /\ vga' = vga /\ backup' = backup /\ messages' = messages
      /\ s_panicking' = s_panicking /\ sent' = sent /\ buffer' = buffer
  BY DEF UartFifoEmpty, UartShiftEmpty, KeyboardSends, Spin, Halted, OtherCode, vars, cpu,
         intr, serial, console, bounds
<1> QED
  BY <1>1, Known, NobodyMoves

(* The first messages find everything in order.                            *)
LEMMA ConsoleStarts == Init => ConsoleInv
<1> SUFFICES ASSUME Init PROVE ConsoleInv
  OBVIOUS
<1> DEFINE f == Frame(0, "idle")
<1>1. f \in Frames /\ f.pc = "idle"
  <2>1. "idle" \in Places /\ "none" \in Places /\ <<>> \in Texts /\ 0 \in Nat
    BY DEF Places, Texts
  <2> QED
    BY <2>1 DEF Frame, Frames
<1>2. /\ stack = <<f>> /\ ~ifFlag /\ ~is_in_isr /\ ~locked /\ s_panicking = FALSE
      /\ backup = <<>> /\ buffer = <<>> /\ vga = <<>> /\ sent = <<>> /\ messages = 0
  BY DEF Init
<1> HIDE DEF f
<1>3. stack \in Seq(Frames) /\ Len(stack) = 1 /\ stack[1] = f /\ top = f
  BY <1>1, <1>2 DEF top
<1>4. ConsoleType
  <2>1. <<>> \in Texts /\ Len(<<>>) = 0
    BY DEF Texts
  <2>2. stack \in Seq(Frames) /\ Len(stack) \in {1, 2}
    BY <1>3
  <2>3. SerialSize \in Nat /\ BackupSize \in Nat
    BY ConsoleAssumption
  <2>4. /\ vga \in Texts /\ sent \in Texts /\ buffer \in Texts /\ backup \in Texts
        /\ Len(buffer) <= SerialSize /\ Len(backup) <= BackupSize
    BY <1>2, <2>1, <2>3
  <2>5. messages \in Nat /\ s_panicking \in BOOLEAN
    BY <1>2
  <2> QED
    BY <2>2, <2>4, <2>5 DEF ConsoleType
<1>5. ThreadOK(f) /\ f.pc \notin Holding /\ f.pc \in Quiet /\ f.pc # "wait"
  BY <1>1 DEF ThreadOK, Holding, Quiet, Stops
<1>6. LockInv
  BY <1>2, <1>3, <1>5 DEF LockInv
<1>7. MirrorInv
  <2>1. Pending(f) = <<>>
    BY <1>1, <1>5, Silent
  <2>2. Cat(Cat(<<>>, <<>>), <<>>) = <<>>
    BY DEF Cat
  <2> QED
    BY <1>2, <1>3, <2>1, <2>2 DEF MirrorInv
<1> QED
  BY <1>4, <1>6, <1>7 DEF ConsoleInv

(* Every step keeps the invariant.                                         *)
LEMMA ConsoleStep == ConsoleInv /\ [Next]_vars => ConsoleInv'
<1> SUFFICES ASSUME ConsoleInv, [Next]_vars PROVE ConsoleInv'
  OBVIOUS
<1>1. CASE CpuStep
  BY <1>1, EndWaitSafe, PollSafe, WriteBackupSafe, LockSafe, ViewsToVgaSafe, ToSerialSafe,
     ClearBackupSafe, MsgToVgaSafe, UnlockSafe, ReadDetectSafe, ReadLineStatusSafe,
     HandleKeySafe, EndOfInterruptSafe, PanicPrintsSafe, NestedPanicCheckSafe, FlushSafe
     DEF CpuStep
<1>2. CASE Printf
  BY <1>2, PrintfSafe
<1>3. CASE Crash
  BY <1>3, CrashSafe
<1>4. CASE Deliver(Keyboard)
  BY <1>4, DeliverSafe
<1>5. CASE Deliver(Com1)
  BY <1>5, DeliverSafe
<1>6. CASE UartFifoEmpty \/ UartShiftEmpty \/ KeyboardSends \/ Spin \/ Halted
             \/ OtherCode \/ UNCHANGED vars
  BY <1>6, DeviceSafe
<1> QED
  BY <1>1, <1>2, <1>3, <1>4, <1>5, <1>6 DEF Next

(* The invariant holds in every state of every run.                        *)
LEMMA ConsoleAlways == Spec => []ConsoleInv
<1>1. Init => ConsoleInv
  BY ConsoleStarts
<1>2. ConsoleInv /\ [Next]_vars => ConsoleInv'
  BY ConsoleStep
<1> QED
  BY <1>1, <1>2, PTL DEF Spec

-----------------------------------------------------------------------------
(* The theorems.                                                           *)

(* Interrupts are on only in the wait of Serial::write, with the lock held *)
(* and no handler running.                                                 *)
THEOREM WindowIsLocked == Spec => []WindowHoldsLock
<1>1. ConsoleInv => WindowHoldsLock
  BY DEF ConsoleInv, LockInv, WindowHoldsLock, Waiting, Holding
<1> QED
  BY <1>1, ConsoleAlways, PTL

(* If no handler raises an exception without an error code, no frame spins *)
(* on the lock.                                                            *)
THEOREM NobodySpins ==
  ASSUME TrapFree
  PROVE  Spec => []NobodySpinsOnLock
<1>1. ConsoleInv => NobodySpinsOnLock
  <2> SUFFICES ASSUME ConsoleInv, top.pc = "write", locked PROVE is_in_isr
    BY DEF NobodySpinsOnLock, At
  <2>1. CASE Len(stack) = 1
    <3>1. top.pc \notin Holding
      BY DEF Holding
    <3> QED
      BY <2>1, <3>1, Alone
  <2>2. CASE Len(stack) = 2
    BY <2>2, HandlerIs
  <2> QED
    BY <2>1, <2>2, Known
<1> QED
  BY <1>1, ConsoleAlways, PTL

(* Nothing is pending that is not a text.                                  *)
LEMMA PendingText ==
  ASSUME NEW f \in Frames, ThreadOK(f)
  PROVE  Pending(f) \in Texts
<1>1. f.s1 \in Texts /\ f.s2 \in Texts /\ f.msg \in Texts /\ f.rest \in Texts
  BY DEF Frames
<1>2. CASE f.pc \in Quiet
  BY <1>1, <1>2, Silent, CatNothing
<1>3. CASE f.pc \in Stops
  <2>1. Pending(f) = Cat(f.rest, Later(f, f.after)) /\ f.after \in Nexts
    BY <1>3, PendingIs DEF ThreadOK
  <2>2. Later(f, f.after) \in Texts
    BY <2>1, PendingIs
  <2> QED
    BY <1>1, <2>1, <2>2, CatIs
<1>4. CASE f.pc = "s1_to_serial"
  <2>1. Pending(f) = Cat(f.s1, f.s2)
    BY <1>4, PendingIs
  <2> QED
    BY <1>1, <2>1, CatIs
<1>5. CASE f.pc = "s2_to_serial"
  <2>1. f.pc \in Nexts
    BY <1>5 DEF Nexts
  <2> QED
    BY <2>1, PendingIs
<1>6. CASE f.pc = "msg_to_serial"
  BY <1>1, <1>6, PendingIs
<1>7. f.pc \in Quiet \/ f.pc \in Stops \/ f.pc \in {"s1_to_serial", "s2_to_serial", "msg_to_serial"}
  BY DEF ThreadOK, Quiet, Stops, Holding
<1> QED
  BY <1>2, <1>3, <1>4, <1>5, <1>6, <1>7

(* What the thread has pending.                                            *)
LEMMA ThreadPending ==
  ASSUME ConsoleInv
  PROVE  /\ Pending(stack[1]) \in Texts
         /\ vga = Cat(Cat(sent, buffer), Pending(stack[1]))
<1>1. stack \in Seq(Frames) /\ Len(stack) \in {1, 2} /\ ThreadOK(stack[1])
  BY DEF ConsoleInv, ConsoleType, LockInv
<1>2. stack[1] \in Frames
  BY <1>1
<1> QED
  BY <1>1, <1>2, PendingText DEF ConsoleInv, MirrorInv

(* The serial port sent or holds what the screen shows, in its order, and  *)
(* all of it when nobody prints.                                           *)
THEOREM SerialFollows == Spec => []SerialMirrorsVga
<1>1. ConsoleInv => SerialMirrorsVga
  <2> SUFFICES ASSUME ConsoleInv PROVE SerialMirrorsVga
    OBVIOUS
  <2> DEFINE s == Cat(sent, buffer)
             t == Pending(stack[1])
  <2>1. s \in Texts /\ Len(s) = Len(sent) + Len(buffer) /\ t \in Texts
    BY Known, CatIs, ThreadPending
  <2>2. vga = Cat(s, t)
    BY ThreadPending
  <2>3. ~locked => t = <<>>
    <3> SUFFICES ASSUME ~locked PROVE t = <<>>
      OBVIOUS
    <3>1. Len(stack) = 1
      BY Known, HandlerIs
    <3>2. top \in Frames /\ top = stack[1] /\ ThreadOK(top) /\ (locked <=> top.pc \in Holding)
      BY <3>1, Alone
    <3>3. top.pc \in Quiet
      BY <3>2 DEF ThreadOK, Quiet, Reporting
    <3> QED
      BY <3>2, <3>3, Silent
  <2>4. s = sent \o buffer
    BY DEF Cat
  <2> HIDE DEF s, t
  <2>5. Len(s) <= Len(vga) /\ SubSeq(vga, 1, Len(s)) = s
    BY <2>1, <2>2, Beginning
  <2>6. ~locked => vga = s
    BY <2>1, <2>2, <2>3, CatNothing
  <2> QED
    BY <2>1, <2>4, <2>5, <2>6 DEF SerialMirrorsVga
<1> QED
  BY <1>1, ConsoleAlways, PTL

(* A kernel that halted has sent all that the screen shows, unless it was  *)
(* in the middle of a print.                                               *)
THEOREM HaltedFlushed == Spec => []HaltedIsFlushed
<1>1. ConsoleInv /\ SerialMirrorsVga => HaltedIsFlushed
  <2> SUFFICES ASSUME ConsoleInv, SerialMirrorsVga, top.pc = "halted" PROVE
                 buffer = <<>> /\ (~locked => sent = vga)
    BY DEF HaltedIsFlushed, At
  <2>1. buffer = <<>>
    BY DEF ConsoleInv, MirrorInv
  <2>2. sent \in Texts
    BY Known
  <2>3. ~locked => vga = Cat(sent, buffer)
    BY DEF SerialMirrorsVga, Cat
  <2>4. Cat(sent, <<>>) = sent
    BY <2>2, CatNothing
  <2> QED
    BY <2>1, <2>3, <2>4
<1> QED
  BY <1>1, ConsoleAlways, SerialFollows, PTL

(* A step shows some text, sends some from the buffer, or does neither.    *)
LEMMA OutputStep ==
  ASSUME ConsoleInv, [Next]_vars
  PROVE  \/ sent' = sent /\ vga' = vga
         \/ sent' = sent /\ \E t \in Texts : vga' = Cat(vga, t)
         \/ vga' = vga /\ \E t \in Texts : sent' = Cat(sent, t)
<1>1. CASE ViewsToVga
  BY <1>1, Known DEF ViewsToVga, Cat, serial
<1>2. CASE MsgToVga
  <2>1. top.msg \in Texts
    BY WhoRuns DEF Frames
  <2> QED
    BY <1>2, <2>1 DEF MsgToVga, Cat, serial
<1>3. ASSUME Transmit
      PROVE  sent' = sent \/ \E t \in Texts : sent' = Cat(sent, t)
  <2>1. Take(buffer, FifoSize) \in Texts
    BY Known, TakeSkip, ConsoleAssumption
  <2> QED
    BY <1>3, <2>1 DEF Transmit, Cat, serial
<1>4. CASE Poll
  BY <1>3, <1>4 DEF Poll, console
<1>5. CASE ReadLineStatus
  BY <1>3, <1>5 DEF ReadLineStatus, console
<1>6. CASE Flush
  BY <1>3, <1>6 DEF Flush, console, serial
<1>7. CASE \/ S1ToSerial \/ S2ToSerial \/ MsgToSerial
  BY <1>7 DEF S1ToSerial, S2ToSerial, MsgToSerial, SerialWrite, console
<1>8. CASE \/ EndWait \/ WriteBackup \/ Lock \/ ClearBackup \/ Unlock \/ ReadDetect \/ HandleKey
           \/ EndOfInterrupt \/ PanicReason \/ NestedPanicCheck \/ StackTrace \/ Printf \/ Crash
  BY <1>8 DEF EndWait, WriteBackup, Lock, ClearBackup, Unlock, ReadDetect, HandleKey,
     EndOfInterrupt, PanicReason, NestedPanicCheck, StackTrace, Printf, Crash, console, serial
<1>9. CASE Deliver(Keyboard) \/ Deliver(Com1)
  BY <1>9 DEF Deliver, console, serial
<1>10. CASE UartFifoEmpty \/ UartShiftEmpty \/ KeyboardSends \/ Spin \/ Halted
             \/ OtherCode \/ UNCHANGED vars
  BY <1>10 DEF UartFifoEmpty, UartShiftEmpty, KeyboardSends, Spin, Halted, OtherCode, vars,
     console, serial
<1> QED
  BY <1>1, <1>2, <1>4, <1>5, <1>6, <1>7, <1>8, <1>9, <1>10 DEF Next, CpuStep

SentFirst == Log!Prefix(sent, vga)

(* What was sent is a beginning of what is shown.                          *)
LEMMA SentIsShown == ConsoleInv => SentFirst
<1> SUFFICES ASSUME ConsoleInv PROVE SentFirst
  OBVIOUS
<1> DEFINE p == Pending(stack[1])
<1>1. sent \in Texts /\ buffer \in Texts /\ p \in Texts /\ vga = Cat(Cat(sent, buffer), p)
  BY Known, ThreadPending
<1> HIDE DEF p
<1>2. vga = Cat(sent, Cat(buffer, p)) /\ Cat(buffer, p) \in Texts
  BY <1>1, CatAssociative, CatIs
<1> QED
  BY <1>1, <1>2, Beginning DEF SentFirst, Log!Prefix

(* The detailed output implements the abstract one: the screen's text only *)
(* grows, and the serial line carries it with nothing lost, doubled or out *)
(* of order.                                                               *)
THEOREM ConsoleImplementsLog == Spec => ImplementsOutputLog
<1>1. Init => Log!Init
  BY DEF Init, Log!Init
<1>2. ConsoleInv /\ SentFirst' /\ [Next]_vars => [Log!Next]_(Log!vars)
  <2> SUFFICES ASSUME ConsoleInv, SentFirst', [Next]_vars PROVE [Log!Next]_(Log!vars)
    OBVIOUS
  <2>1. CASE sent' = sent /\ vga' = vga
    BY <2>1 DEF Log!vars
  <2>2. CASE sent' = sent /\ \E t \in Texts : vga' = Cat(vga, t)
    <3>1. Log!Prefix(vga, vga')
      BY <2>2, Known, Beginning DEF Log!Prefix
    <3> QED
      BY <2>2, <3>1 DEF Log!Next, Log!Show
  <2>3. CASE vga' = vga /\ \E t \in Texts : sent' = Cat(sent, t)
    <3>1. Log!Prefix(sent, sent')
      BY <2>3, Known, Beginning DEF Log!Prefix
    <3>2. Log!Prefix(sent', vga')
      BY DEF SentFirst
    <3> QED
      BY <2>3, <3>1, <3>2 DEF Log!Next, Log!Carry
  <2> QED
    BY <2>1, <2>2, <2>3, OutputStep
<1> QED
  BY <1>1, <1>2, SentIsShown, ConsoleAlways, PTL DEF Spec, ImplementsOutputLog, Log!Spec

-----------------------------------------------------------------------------
(* What is shown and what will be.                                         *)

(* No byte is there twice, and none without the ones of its message that   *)
(* come before it.                                                         *)
InOnePiece(s) ==
  /\ \A j, k \in DOMAIN s : j # k => s[j] # s[k]
  /\ \A k \in DOMAIN s : s[k][2] > 1 => k > 1 /\ s[k - 1] = <<s[k][1], s[k][2] - 1>>

(* What the screen will get of what was printed, by the place where a      *)
(* frame is or where Serial::write returns to.  What handlers put in the   *)
(* interrupt buffer while that is being shown is lost.                     *)
Stage(f) == IF f.pc \in Stops THEN f.after ELSE f.pc
Before   == {"write", "views_to_vga"}
Midway   == {"s1_to_serial", "s2_to_serial", "clear", "msg_to_vga"}

Coming(f, queued) ==
  CASE Stage(f) \in Before -> Cat(queued, f.msg)
    [] Stage(f) \in Midway -> f.msg
    [] OTHER               -> queued

Shown == Cat(vga, Coming(stack[1], backup))

(* A handler has a message of its own to print.                            *)
Spoken == Len(stack) = 2 /\ top.pc = "write"

PieceInv ==
  /\ InOnePiece(Shown)
  /\ \A k \in DOMAIN Shown : Shown[k][1] <= messages
  /\ stack[1].pc = "msg_to_vga" => backup = <<>>
  /\ Spoken => /\ \A k \in DOMAIN Shown : Shown[k][1] < messages
               /\ \E length \in Nat : top.msg = Message(messages, length)

(* The bytes of a text.                                                    *)
LEMMA TextIs ==
  ASSUME NEW s \in Texts
  PROVE  /\ Len(s) \in Nat /\ DOMAIN s = 1..Len(s)
         /\ \A k \in 1..Len(s) : s[k] \in Byte /\ s[k][1] \in Nat /\ s[k][2] \in Nat
BY DEF Texts, Byte

(* The bytes of two texts.                                                 *)
LEMMA CatBytes ==
  ASSUME NEW s \in Texts, NEW t \in Texts
  PROVE  /\ Cat(s, t) \in Texts /\ Len(Cat(s, t)) = Len(s) + Len(t)
         /\ \A k \in 1..Len(s) : Cat(s, t)[k] = s[k]
         /\ \A k \in 1..Len(t) : Cat(s, t)[Len(s) + k] = t[k]
<1>1. Cat(s, t) \in Texts /\ Len(Cat(s, t)) = Len(s) + Len(t)
  BY CatIs
<1>2. \A k \in 1..Len(s) : Cat(s, t)[k] = s[k]
  BY DEF Cat, Texts
<1>3. \A k \in 1..Len(t) : Cat(s, t)[Len(s) + k] = t[k]
  BY DEF Cat, Texts
<1> QED
  BY <1>1, <1>2, <1>3

(* A beginning of what is in one piece is.                                 *)
LEMMA BeginningInPiece ==
  ASSUME NEW s \in Texts, NEW u \in Texts, InOnePiece(s), Len(u) <= Len(s),
         \A k \in 1..Len(u) : u[k] = s[k]
  PROVE  InOnePiece(u)
<1>1. /\ Len(s) \in Nat /\ DOMAIN s = 1..Len(s) /\ Len(u) \in Nat /\ DOMAIN u = 1..Len(u)
  BY TextIs
<1>2. \A k \in 1..Len(u) : k \in 1..Len(s) /\ (k > 1 => k - 1 \in 1..Len(u))
  BY <1>1
<1>3. \A j, k \in 1..Len(u) : j # k => u[j] # u[k]
  BY <1>1, <1>2 DEF InOnePiece
<1>4. ASSUME NEW k \in 1..Len(u), u[k][2] > 1
      PROVE  k > 1 /\ u[k - 1] = <<u[k][1], u[k][2] - 1>>
  <2>1. k \in 1..Len(s) /\ u[k] = s[k]
    BY <1>2
  <2>2. k > 1 /\ s[k - 1] = <<s[k][1], s[k][2] - 1>>
    BY <1>1, <1>4, <2>1 DEF InOnePiece
  <2>3. u[k - 1] = s[k - 1]
    BY <1>2, <2>2
  <2> QED
    BY <2>1, <2>2, <2>3
<1> QED
  BY <1>1, <1>3, <1>4 DEF InOnePiece

(* A text behind one with other messages.                                  *)
LEMMA JoinInPiece ==
  ASSUME NEW s \in Texts, NEW t \in Texts, NEW m \in Nat, InOnePiece(s), InOnePiece(t),
         \A k \in DOMAIN s : s[k][1] < m, \A k \in DOMAIN t : t[k][1] = m
  PROVE  /\ InOnePiece(Cat(s, t))
         /\ \A k \in DOMAIN Cat(s, t) : Cat(s, t)[k][1] <= m
<1> DEFINE u == Cat(s, t)
           n == Len(s)
<1>1. /\ n \in Nat /\ DOMAIN s = 1..n /\ Len(t) \in Nat /\ DOMAIN t = 1..Len(t)
      /\ \A k \in 1..n : s[k][1] \in Nat
  BY TextIs
<1>2. /\ u \in Texts /\ Len(u) = n + Len(t)
      /\ \A k \in 1..n : u[k] = s[k]
      /\ \A k \in 1..Len(t) : u[n + k] = t[k]
  BY CatBytes
<1>3. DOMAIN u = 1..Len(u)
  BY <1>2, TextIs
<1> HIDE DEF u, n
<1>4. ASSUME NEW k \in 1..Len(u)
      PROVE  \/ k \in 1..n /\ u[k] = s[k] /\ u[k][1] < m
             \/ k - n \in 1..Len(t) /\ u[k] = t[k - n] /\ u[k][1] = m
  <2>1. CASE k \in 1..n
    BY <1>1, <1>2, <2>1
  <2>2. CASE k \notin 1..n
    <3>1. k - n \in 1..Len(t) /\ k = n + (k - n)
      BY <1>1, <1>2, <2>2
    <3>2. u[k] = t[k - n]
      BY <1>2, <3>1
    <3> QED
      BY <1>1, <3>1, <3>2
  <2> QED
    BY <2>1, <2>2
<1>5. ASSUME NEW j \in 1..Len(u), NEW k \in 1..Len(u), j # k
      PROVE  u[j] # u[k]
  <2>1. CASE j \in 1..n /\ k \in 1..n /\ u[j] = s[j] /\ u[k] = s[k]
    BY <1>1, <1>5, <2>1 DEF InOnePiece
  <2>2. CASE j - n \in 1..Len(t) /\ u[j] = t[j - n] /\ k - n \in 1..Len(t) /\ u[k] = t[k - n]
    <3>1. j - n # k - n
      BY <1>1, <1>5
    <3> QED
      BY <1>1, <2>2, <3>1 DEF InOnePiece
  <2>3. CASE u[j][1] < m /\ u[k][1] = m
    BY <2>3
  <2>4. CASE u[j][1] = m /\ u[k][1] < m
    BY <2>4
  <2> QED
    BY <1>4, <2>1, <2>2, <2>3, <2>4
<1>6. ASSUME NEW k \in 1..Len(u), u[k][2] > 1
      PROVE  k > 1 /\ u[k - 1] = <<u[k][1], u[k][2] - 1>>
  <2>1. CASE k \in 1..n /\ u[k] = s[k]
    <3>1. k > 1 /\ s[k - 1] = <<s[k][1], s[k][2] - 1>>
      BY <1>1, <1>6, <2>1 DEF InOnePiece
    <3>2. k - 1 \in 1..n
      BY <1>1, <2>1, <3>1
    <3> QED
      BY <1>2, <2>1, <3>1, <3>2
  <2>2. CASE k - n \in 1..Len(t) /\ u[k] = t[k - n]
    <3>1. k - n > 1 /\ t[(k - n) - 1] = <<t[k - n][1], t[k - n][2] - 1>>
      BY <1>1, <1>6, <2>2 DEF InOnePiece
    <3>2. (k - n) - 1 \in 1..Len(t) /\ k - 1 = n + ((k - n) - 1) /\ k > 1
      BY <1>1, <2>2, <3>1
    <3>3. u[k - 1] = t[(k - n) - 1]
      BY <1>2, <3>2
    <3> QED
      BY <2>2, <3>1, <3>2, <3>3
  <2> QED
    BY <1>4, <2>1, <2>2
<1>7. \A k \in 1..Len(u) : u[k][1] <= m
  <2> SUFFICES ASSUME NEW k \in 1..Len(u) PROVE u[k][1] <= m
    OBVIOUS
  <2>1. u[k][1] < m \/ u[k][1] = m
    BY <1>4
  <2>2. u[k][1] \in Nat
    BY <1>2, TextIs
  <2> QED
    BY <2>1, <2>2
<1> QED
  BY <1>3, <1>5, <1>6, <1>7 DEF InOnePiece, u

(* A message is in one piece.                                              *)
LEMMA MessageInPiece ==
  ASSUME NEW m \in Nat, NEW length \in Nat
  PROVE  /\ Message(m, length) \in Texts /\ InOnePiece(Message(m, length))
         /\ \A k \in DOMAIN Message(m, length) : Message(m, length)[k][1] = m
<1> DEFINE s == Message(m, length)
<1>1. s \in Texts
  BY MessageText
<1>2. DOMAIN s = 1..length /\ \A k \in 1..length : s[k] = <<m, k>>
  BY DEF Message
<1> HIDE DEF s
<1>3. \A j, k \in 1..length : j # k => s[j] # s[k]
  BY <1>2
<1>4. \A k \in 1..length : s[k][2] > 1 => k > 1 /\ s[k - 1] = <<s[k][1], s[k][2] - 1>>
  <2> SUFFICES ASSUME NEW k \in 1..length, s[k][2] > 1
               PROVE  k > 1 /\ s[k - 1] = <<s[k][1], s[k][2] - 1>>
    OBVIOUS
  <2>1. s[k] = <<m, k>> /\ k > 1
    BY <1>2
  <2>2. k - 1 \in 1..length
    BY <2>1
  <2> QED
    BY <1>2, <2>1, <2>2
<1> QED
  BY <1>1, <1>2, <1>3, <1>4 DEF InOnePiece, s

(* So is what is taken of it.                                              *)
LEMMA TakenInPiece ==
  ASSUME NEW m \in Nat, NEW length \in Nat, NEW n \in Nat,
         NEW u, u = Take(Message(m, length), n)
  PROVE  u \in Texts /\ InOnePiece(u) /\ \A k \in DOMAIN u : u[k][1] = m
<1> DEFINE s == Message(m, length)
           v == Skip(s, n)
<1>1. s \in Texts /\ InOnePiece(s) /\ \A k \in DOMAIN s : s[k][1] = m
  BY MessageInPiece
<1> HIDE DEF s
<1>2. u \in Texts /\ v \in Texts /\ Cat(u, v) = s
  BY <1>1, TakeSkip DEF s
<1> HIDE DEF v
<1>3. /\ Len(s) = Len(u) + Len(v) /\ \A k \in 1..Len(u) : s[k] = u[k]
      /\ Len(u) \in Nat /\ Len(v) \in Nat /\ DOMAIN u = 1..Len(u) /\ DOMAIN s = 1..Len(s)
  <2>1. /\ Len(Cat(u, v)) = Len(u) + Len(v)
        /\ \A k \in 1..Len(u) : Cat(u, v)[k] = u[k]
    BY <1>2, CatBytes
  <2>2. Len(u) \in Nat /\ DOMAIN u = 1..Len(u)
    BY <1>2, TextIs
  <2>3. Len(v) \in Nat
    BY <1>2, TextIs
  <2>4. DOMAIN s = 1..Len(s)
    BY <1>1, TextIs
  <2> QED
    BY <1>2, <2>1, <2>2, <2>3, <2>4
<1>4. Len(u) <= Len(s) /\ \A k \in 1..Len(u) : k \in 1..Len(s)
  BY <1>3
<1>5. InOnePiece(u)
  BY <1>1, <1>2, <1>3, <1>4, BeginningInPiece
<1> QED
  BY <1>1, <1>2, <1>3, <1>4, <1>5

(* What will be shown of what a frame has.                                 *)
LEMMA ComingIs ==
  ASSUME NEW f \in Frames, NEW queued \in Texts
  PROVE  /\ Stage(f) \in Before => Coming(f, queued) = Cat(queued, f.msg)
         /\ Stage(f) \in Midway => Coming(f, queued) = f.msg
         /\ Stage(f) \notin Before \cup Midway => Coming(f, queued) = queued
         /\ Coming(f, queued) \in Texts /\ f.msg \in Texts
         /\ f.pc \notin Stops => Stage(f) = f.pc
<1>1. f.msg \in Texts
  BY DEF Frames
<1>2. Before \cap Midway = {}
  BY DEF Before, Midway
<1>3. Cat(queued, f.msg) \in Texts
  BY <1>1, CatIs
<1> QED
  BY <1>1, <1>2, <1>3 DEF Coming, Stage

(* Two places at which the screen will get the same.                       *)
Alike(f, g) ==
  /\ f.msg = g.msg
  /\ \/ Stage(f) \in Before /\ Stage(g) \in Before
     \/ Stage(f) \in Midway /\ Stage(g) \in Midway
     \/ Stage(f) \notin Before \cup Midway /\ Stage(g) \notin Before \cup Midway

(* It does.                                                                *)
LEMMA AlikeComing ==
  ASSUME NEW f \in Frames, NEW g \in Frames, NEW queued \in Texts, Alike(f, g)
  PROVE  Coming(f, queued) = Coming(g, queued)
BY ComingIs DEF Alike

(* What is shown and will be is a text.                                    *)
LEMMA ShownText ==
  ASSUME ConsoleInv
  PROVE  /\ stack[1] \in Frames /\ Coming(stack[1], backup) \in Texts /\ Shown \in Texts
         /\ DOMAIN Shown = 1..Len(Shown)
         /\ \A k \in DOMAIN Shown : Shown[k][1] \in Nat
<1>1. stack \in Seq(Frames) /\ Len(stack) \in {1, 2}
  BY DEF ConsoleInv, ConsoleType
<1>2. stack[1] \in Frames
  BY <1>1
<1>3. Coming(stack[1], backup) \in Texts
  BY <1>2, Known, ComingIs
<1>4. Shown \in Texts
  BY <1>3, Known, CatIs DEF Shown
<1>5. DOMAIN Shown = 1..Len(Shown) /\ \A k \in 1..Len(Shown) : Shown[k][1] \in Nat
  BY <1>4, TextIs
<1> QED
  BY <1>2, <1>3, <1>4, <1>5

(* Nothing new is printed.                                                 *)
LEMMA StaysInPiece ==
  ASSUME PieceInv, Shown' = Shown, messages' = messages,
         stack'[1].pc = "msg_to_vga" => backup' = <<>>,
         Spoken' => Spoken /\ top'.msg = top.msg
  PROVE  PieceInv'
BY Zenon DEF PieceInv

(* The thread goes on, and what will be shown is the same.                 *)
LEMMA ThreadKeeps ==
  ASSUME ConsoleInv, PieceInv, Len(stack) = 1, NEW f \in Frames, Become(f),
         Cat(vga', Coming(f, backup')) = Shown, messages' = messages,
         f.pc = "msg_to_vga" => backup' = <<>>
  PROVE  PieceInv'
<1>1. Len(stack') = 1 /\ stack'[1] = f
  BY Becomes DEF ConsoleInv
<1>2. Shown' = Shown
  BY <1>1 DEF Shown
<1>3. ~Spoken'
  BY <1>1 DEF Spoken
<1> QED
  BY <1>1, <1>2, <1>3, StaysInPiece

(* The thread goes on to where the screen will get the same.               *)
LEMMA ThreadMovesOn ==
  ASSUME ConsoleInv, PieceInv, Len(stack) = 1, NEW f \in Frames, Become(f), Alike(f, top),
         f.pc # "msg_to_vga", vga' = vga, backup' = backup, messages' = messages
  PROVE  PieceInv'
<1>1. top = stack[1] /\ top \in Frames
  BY Alone
<1>2. Coming(f, backup) = Coming(top, backup)
  BY <1>1, Known, AlikeComing
<1>3. Cat(vga', Coming(f, backup')) = Shown
  BY <1>1, <1>2 DEF Shown
<1> QED
  BY <1>3, ThreadKeeps

(* The thread prints.                                                      *)
LEMMA ThreadPrints ==
  ASSUME ConsoleInv, PieceInv, Len(stack) = 1, top.pc \in {"idle"} \cup Reporting,
         NEW ret \in Places, NEW length \in Nat, CallPrint(length, ret),
         vga' = vga, backup' = backup
  PROVE  PieceInv'
<1> DEFINE m == messages + 1
           msg == Message(m, length)
           g == CalledWith(top, ret, msg)
           u == Shown
<1>1. Become(g) /\ messages' = m
  BY DEF CallPrint, CalledWith
<1>2. m \in Nat /\ messages \in Nat /\ messages < m
  BY Known
<1>3. top = stack[1] /\ top \in Frames
  BY Alone
<1>4. msg \in Texts /\ InOnePiece(msg) /\ \A k \in DOMAIN msg : msg[k][1] = m
  BY <1>2, MessageInPiece
<1> HIDE DEF msg
<1>5. g \in Frames /\ g.pc = "write" /\ g.msg = msg
  BY <1>3, <1>4, CallSet
<1> HIDE DEF g
<1>6. Coming(top, backup) = backup
  <2>1. top.pc \notin Stops /\ top.pc \notin Before \cup Midway
    BY DEF Stops, Before, Midway, Reporting
  <2> QED
    BY <1>3, <2>1, Known, ComingIs
<1>7. Coming(g, backup) = Cat(backup, msg)
  <2>1. g.pc \notin Stops /\ g.pc \in Before
    BY <1>5 DEF Stops, Before
  <2> QED
    BY <1>5, <2>1, Known, ComingIs
<1>8. Len(stack') = 1 /\ stack'[1] = g
  BY <1>1, <1>5, Becomes DEF ConsoleInv
<1>9. u = Cat(vga, backup) /\ u \in Texts
  BY <1>3, <1>6, Known, CatIs DEF Shown
<1>10. Shown' = Cat(u, msg)
  <2>1. Shown' = Cat(vga, Cat(backup, msg))
    BY <1>7, <1>8 DEF Shown
  <2> QED
    BY <1>4, <1>9, <2>1, Known, CatAssociative
<1>11. InOnePiece(u) /\ \A k \in DOMAIN u : u[k][1] < m
  <2>1. InOnePiece(u) /\ \A k \in DOMAIN u : u[k][1] <= messages /\ u[k][1] \in Nat
    BY ShownText DEF PieceInv
  <2> HIDE DEF u, m
  <2> QED
    BY <1>2, <2>1
<1> HIDE DEF u, m
<1>12. /\ InOnePiece(Cat(u, msg))
       /\ \A k \in DOMAIN Cat(u, msg) : Cat(u, msg)[k][1] <= m
  BY <1>2, <1>4, <1>9, <1>11, JoinInPiece, Zenon
<1>13. ~Spoken' /\ stack'[1].pc # "msg_to_vga"
  BY <1>5, <1>8 DEF Spoken
<1> QED
  BY <1>1, <1>10, <1>12, <1>13 DEF PieceInv

(* What a handler does leaves the thread's frame alone.                    *)
LEMMA HandlerBecomes ==
  ASSUME ConsoleInv, Len(stack) = 2, NEW f \in Frames, Become(f),
         vga' = vga, backup' = backup
  PROVE  Shown' = Shown /\ stack'[1] = stack[1] /\ top' = f /\ Len(stack') = 2
<1>1. stack'[1] = stack[1] /\ top' = f /\ Len(stack') = 2
  BY Becomes DEF ConsoleInv
<1> QED
  BY <1>1 DEF Shown

(* A handler goes on without a print.                                      *)
LEMMA HandlerKeeps ==
  ASSUME ConsoleInv, PieceInv, Len(stack) = 2, NEW f \in Frames, Become(f),
         f.pc # "write", vga' = vga, backup' = backup, messages' = messages
  PROVE  PieceInv'
<1>1. Shown' = Shown /\ stack'[1] = stack[1] /\ top' = f
  BY HandlerBecomes
<1>2. ~Spoken'
  BY <1>1 DEF Spoken
<1>3. stack'[1].pc = "msg_to_vga" => backup' = <<>>
  BY <1>1 DEF PieceInv
<1> QED
  BY <1>1, <1>2, <1>3, StaysInPiece

(* A handler prints.                                                       *)
LEMMA HandlerPrints ==
  ASSUME ConsoleInv, PieceInv, Len(stack) = 2, NEW ret \in Places, NEW length \in Nat,
         CallPrint(length, ret), vga' = vga, backup' = backup
  PROVE  PieceInv'
<1> DEFINE m == messages + 1
           msg == Message(m, length)
           g == CalledWith(top, ret, msg)
           u == Shown
<1>1. Become(g) /\ messages' = m
  BY DEF CallPrint, CalledWith
<1>2. m \in Nat /\ messages \in Nat /\ messages < m
  BY Known
<1>3. top \in Frames
  BY HandlerIs
<1>4. msg \in Texts
  BY <1>2, MessageText
<1>5. g \in Frames /\ g.msg = msg
  BY <1>3, <1>4, CallSet
<1> HIDE DEF g
<1>6. Shown' = u /\ stack'[1] = stack[1] /\ top' = g
  BY <1>1, <1>5, HandlerBecomes
<1>7. InOnePiece(u) /\ \A k \in DOMAIN u : u[k][1] <= messages /\ u[k][1] \in Nat
  BY ShownText DEF PieceInv
<1>8. stack'[1].pc = "msg_to_vga" => backup' = <<>>
  BY <1>6 DEF PieceInv
<1>9. \E l \in Nat : top'.msg = Message(m, l)
  BY <1>5, <1>6
<1> HIDE DEF u, m, msg
<1>10. \A k \in DOMAIN u : u[k][1] < m /\ u[k][1] <= m
  BY <1>2, <1>7
<1> QED
  BY <1>1, <1>6, <1>7, <1>8, <1>9, <1>10 DEF PieceInv

(* Nobody moves.                                                           *)
LEMMA AllKeep ==
  ASSUME PieceInv, stack' = stack, vga' = vga, backup' = backup, messages' = messages
  PROVE  PieceInv'
<1>1. Shown' = Shown /\ top' = top /\ (Spoken' <=> Spoken)
  BY DEF Shown, top, Spoken
<1>2. stack'[1].pc = "msg_to_vga" => backup' = <<>>
  BY DEF PieceInv
<1> QED
  BY <1>1, <1>2, StaysInPiece

-----------------------------------------------------------------------------
(* The actions keep it in one piece.                                       *)

(* Serial::write goes on, waits or polls: for the screen it is all one.    *)
LEMMA WritesInPiece ==
  ASSUME ConsoleInv, PieceInv, Len(stack) = 1, top.pc \notin Stops,
         NEW bytes \in Texts, NEW next \in Nexts, SerialWrite(bytes, next),
         \/ top.pc \in Midway /\ next \in Midway
         \/ top.pc \notin Before \cup Midway /\ next \notin Before \cup Midway,
         UNCHANGED <<vga, backup, messages>>
  PROVE  PieceInv'
<1> DEFINE left == Skip(bytes, Room)
<1>1. top \in Frames /\ top = stack[1] /\ Stage(top) = top.pc
  BY Alone, ComingIs DEF Stage
<1>2. CASE Len(bytes) <= Room
  <2> DEFINE g == PlacedAt(top, next)
  <2>1. Become(g)
    BY <1>2 DEF SerialWrite, Goto, PlacedAt
  <2>2. next \in Places
    BY DEF Places, Holding, Nexts
  <2>3. g \in Frames /\ g.pc = next /\ g.msg = top.msg
    BY <1>1, <2>2, PlaceSet
  <2> HIDE DEF g
  <2>4. Stage(g) = next /\ g.pc # "msg_to_vga"
    BY <2>3 DEF Stage, Nexts, Stops
  <2>5. Alike(g, top)
    BY <1>1, <2>3, <2>4 DEF Alike
  <2> QED
    BY <2>1, <2>3, <2>4, <2>5, ThreadMovesOn
<1>3. CASE ~(Len(bytes) <= Room)
  <2> DEFINE at == IF s_panicking THEN "poll" ELSE "wait"
             g == StoppedAt(top, at, next, left)
  <2>1. Become(g)
    BY <1>3 DEF SerialWrite, StoppedAt
  <2>2. at \in Stops /\ at \in Places /\ next \in Places
    BY DEF Places, Holding, Nexts, Stops
  <2>3. left \in Texts
    <3>1. Room \in Nat
      <4>1. Len(buffer) \in Nat /\ Len(buffer) <= SerialSize
        BY Known, CatIs
      <4> QED
        BY <4>1, ConsoleAssumption DEF Room
    <3> QED
      BY <3>1, TakeSkip
  <2> HIDE DEF at, left
  <2>4. g \in Frames /\ g.pc = at /\ g.after = next
    BY <1>1, <2>2, <2>3, RestSet
  <2>5. g.msg = top.msg
    BY <1>1 DEF StoppedAt, Frames
  <2> HIDE DEF g
  <2>6. Stage(g) = next /\ g.pc # "msg_to_vga"
    BY <2>2, <2>4 DEF Stage, Stops
  <2>7. Alike(g, top)
    BY <1>1, <2>5, <2>6 DEF Alike
  <2> QED
    BY <2>1, <2>4, <2>6, <2>7, ThreadMovesOn
<1> QED
  BY <1>2, <1>3

(* The wait ends, or the polling does.                                     *)
LEMMA RestInPiece ==
  ASSUME ConsoleInv, PieceInv, top.pc \in Stops, WriteRest, UNCHANGED <<vga, backup, messages>>
  PROVE  PieceInv'
<1> DEFINE g == BackFromWrite(top)
<1>1. top.pc \in {"idle"} \cup Holding
  BY DEF Stops, Holding
<1>2. Len(stack) = 1 /\ top \in Frames /\ ThreadOK(top)
  BY <1>1, ThreadIs
<1>3. top.after \in Nexts
  BY <1>2 DEF ThreadOK
<1>4. Become(g)
  BY DEF WriteRest, BackFromWrite
<1>5. g \in Frames /\ g.pc = top.after
  BY <1>2, WriteReturns
<1>6. g.msg = top.msg
  BY <1>2 DEF BackFromWrite, Frames
<1> HIDE DEF g
<1>7. g.pc # "msg_to_vga" /\ Stage(g) = top.after /\ Stage(top) = top.after
  BY <1>3, <1>5 DEF Stage, Nexts, Stops
<1>8. Alike(g, top)
  BY <1>6, <1>7 DEF Alike
<1> QED
  BY <1>2, <1>4, <1>5, <1>7, <1>8, ThreadMovesOn

(* The thread's actions that show nothing.                                 *)
LEMMA EndWaitInPiece == ConsoleInv /\ PieceInv /\ EndWait => PieceInv'
<1> SUFFICES ASSUME ConsoleInv, PieceInv, EndWait PROVE PieceInv'
  OBVIOUS
<1> QED
  BY RestInPiece DEF EndWait, At, Stops, console, bounds

(* A panic polls.                                                          *)
LEMMA PollInPiece == ConsoleInv /\ PieceInv /\ Poll => PieceInv'
<1> SUFFICES ASSUME ConsoleInv, PieceInv, Poll PROVE PieceInv'
  OBVIOUS
<1>1. UNCHANGED <<vga, backup, messages>> /\ top.pc \in Stops
  BY DEF Poll, At, Stops, console, bounds
<1>2. WriteRest \/ stack' = stack
  BY DEF Poll
<1> QED
  BY <1>1, <1>2, RestInPiece, AllKeep

(* The serial port is given the first view, the second and the message.    *)
LEMMA ToSerialInPiece ==
  ConsoleInv /\ PieceInv /\ (S1ToSerial \/ S2ToSerial \/ MsgToSerial) => PieceInv'
<1> SUFFICES ASSUME ConsoleInv, PieceInv, S1ToSerial \/ S2ToSerial \/ MsgToSerial
             PROVE  PieceInv'
  OBVIOUS
<1>1. UNCHANGED <<vga, backup, messages>>
  BY DEF S1ToSerial, S2ToSerial, MsgToSerial, console, bounds
<1>2. top.pc \in Holding \ Stops /\ Len(stack) = 1 /\ top \in Frames
  BY WhoRuns DEF S1ToSerial, S2ToSerial, MsgToSerial, At, Holding, Stops
<1>3. top.s1 \in Texts /\ top.s2 \in Texts /\ top.msg \in Texts
  BY <1>2 DEF Frames
<1>4. "s2_to_serial" \in Nexts /\ "clear" \in Nexts /\ "unlock" \in Nexts
  BY DEF Nexts
<1>5. CASE S1ToSerial
  <2>1. SerialWrite(top.s1, "s2_to_serial") /\ top.pc \in Midway /\ "s2_to_serial" \in Midway
    BY <1>5 DEF S1ToSerial, At, Midway
  <2> QED
    BY <1>1, <1>2, <1>3, <1>4, <2>1, WritesInPiece
<1>6. CASE S2ToSerial
  <2>1. SerialWrite(top.s2, "clear") /\ top.pc \in Midway /\ "clear" \in Midway
    BY <1>6 DEF S2ToSerial, At, Midway
  <2> QED
    BY <1>1, <1>2, <1>3, <1>4, <2>1, WritesInPiece
<1>7. CASE MsgToSerial
  <2>1. /\ SerialWrite(top.msg, "unlock") /\ top.pc \notin Before \cup Midway
        /\ "unlock" \notin Before \cup Midway
    BY <1>7 DEF MsgToSerial, At, Before, Midway
  <2> QED
    BY <1>1, <1>2, <1>3, <1>4, <2>1, WritesInPiece
<1> QED
  BY <1>5, <1>6, <1>7

(* The lock is taken: the interrupt buffer comes first, if it has bytes.   *)
LEMMA LockInPiece == ConsoleInv /\ PieceInv /\ Lock => PieceInv'
<1> SUFFICES ASSUME ConsoleInv, PieceInv, Lock PROVE PieceInv'
  OBVIOUS
<1>1. /\ top.pc = "write" /\ ~locked /\ backup' = backup /\ vga' = vga /\ messages' = messages
  BY DEF Lock, At, bounds
<1>2. Len(stack) = 1 /\ top \in Frames /\ top = stack[1]
  BY <1>1, WhoRuns, Known
<1> DEFINE place == IF backup = <<>> THEN "msg_to_vga" ELSE "views_to_vga"
           g == PlacedAt(top, place)
<1>3. /\ place \in Places /\ place \notin Stops
      /\ \/ place = "msg_to_vga" /\ backup = <<>>
         \/ place = "views_to_vga" /\ backup # <<>>
  BY DEF Places, Holding, Stops
<1>4. Become(g)
  BY DEF Lock, Goto, PlacedAt
<1> HIDE DEF place
<1>5. g \in Frames /\ g.pc = place /\ g.msg = top.msg /\ g.msg \in Texts
  <2>1. g \in Frames /\ g.pc = place /\ g.msg = top.msg
    BY <1>2, <1>3, PlaceSet
  <2> HIDE DEF g
  <2> QED
    BY <2>1, ComingIs, Known
<1> HIDE DEF g
<1>6. Coming(top, backup) = Cat(backup, top.msg)
  <2>1. top.pc \notin Stops /\ top.pc \in Before
    BY <1>1 DEF Stops, Before
  <2> QED
    BY <1>2, <2>1, Known, ComingIs
<1>7. Coming(g, backup) = Cat(backup, top.msg)
  <2>1. CASE place = "msg_to_vga" /\ backup = <<>>
    <3>1. Coming(g, backup) = g.msg
      <4>1. g.pc \notin Stops /\ g.pc \in Midway
        BY <1>5, <2>1 DEF Stops, Midway
      <4> QED
        BY <1>5, <4>1, Known, ComingIs
    <3>2. Cat(backup, g.msg) = g.msg
      BY <1>5, <2>1, CatNothing
    <3> QED
      BY <1>5, <3>1, <3>2
  <2>2. CASE place = "views_to_vga"
    <3>1. g.pc \notin Stops /\ g.pc \in Before
      BY <1>5, <2>2 DEF Stops, Before
    <3> QED
      BY <1>5, <3>1, Known, ComingIs
  <2> QED
    BY <1>3, <2>1, <2>2
<1>8. Cat(vga', Coming(g, backup')) = Shown
  BY <1>1, <1>2, <1>6, <1>7 DEF Shown
<1>9. g.pc = "msg_to_vga" => backup' = <<>>
  BY <1>1, <1>3, <1>5
<1> QED
  BY <1>1, <1>2, <1>4, <1>5, <1>8, <1>9, ThreadKeeps

(* The interrupt buffer is shown; what comes into it now will be cleared.  *)
LEMMA ViewsToVgaInPiece == ConsoleInv /\ PieceInv /\ ViewsToVga => PieceInv'
<1> SUFFICES ASSUME ConsoleInv, PieceInv, ViewsToVga PROVE PieceInv'
  OBVIOUS
<1>1. /\ top.pc = "views_to_vga" /\ backup' = backup /\ messages' = messages
      /\ vga' = Cat(vga, backup)
  BY DEF ViewsToVga, At, bounds, Cat
<1>2. /\ Len(stack) = 1 /\ top \in Frames /\ top = stack[1] /\ ThreadOK(top)
      /\ top.pc \in Holding
  BY <1>1, ThreadIs DEF Holding
<1>3. PICK k \in 1..Len(backup) :
        Become([top EXCEPT !.pc = "s1_to_serial", !.s1 = Take(backup, k), !.s2 = Skip(backup, k)])
  BY DEF ViewsToVga
<1> DEFINE front == Take(backup, k)
           back == Skip(backup, k)
           g == WithViews(top, front, back)
<1>4. front \in Texts /\ back \in Texts
  BY Known, TakeSkip
<1>5. Become(g)
  BY <1>3 DEF WithViews
<1> HIDE DEF front, back
<1>6. g \in Frames
  BY <1>2, <1>4, ViewsGo
<1>7. g.pc = "s1_to_serial" /\ g.msg = top.msg
  BY <1>2 DEF WithViews, Frames
<1> HIDE DEF g
<1>8. Coming(top, backup) = Cat(backup, top.msg) /\ top.msg \in Texts
  <2>1. top.pc \notin Stops /\ top.pc \in Before
    BY <1>1 DEF Stops, Before
  <2> QED
    BY <1>2, <2>1, Known, ComingIs
<1>9. Coming(g, backup) = top.msg /\ g.pc # "msg_to_vga"
  <2>1. g.pc \notin Stops /\ g.pc \in Midway
    BY <1>7 DEF Stops, Midway
  <2> QED
    BY <1>6, <1>7, <2>1, Known, ComingIs
<1>10. Cat(vga', Coming(g, backup')) = Shown
  <2>1. Cat(Cat(vga, backup), top.msg) = Cat(vga, Cat(backup, top.msg))
    BY <1>8, Known, CatAssociative
  <2> QED
    BY <1>1, <1>2, <1>8, <1>9, <2>1 DEF Shown
<1> QED
  BY <1>1, <1>2, <1>5, <1>6, <1>9, <1>10, ThreadKeeps

(* It is cleared, with what handlers added meanwhile.                      *)
LEMMA ClearBackupInPiece == ConsoleInv /\ PieceInv /\ ClearBackup => PieceInv'
<1> SUFFICES ASSUME ConsoleInv, PieceInv, ClearBackup PROVE PieceInv'
  OBVIOUS
<1>1. top.pc = "clear" /\ backup' = <<>> /\ messages' = messages /\ vga' = vga
  BY DEF ClearBackup, At, bounds
<1>2. Len(stack) = 1 /\ top \in Frames /\ top = stack[1]
  BY <1>1, ThreadIs DEF Holding
<1> DEFINE g == WithoutViews(top)
<1>3. Become(g)
  BY DEF ClearBackup, WithoutViews
<1>4. g \in Frames /\ g.pc = "msg_to_vga"
  BY <1>2, ViewsCleared
<1>5. g.msg = top.msg
  BY <1>2 DEF WithoutViews, Frames
<1> HIDE DEF g
<1>6. Coming(top, backup) = top.msg
  <2>1. top.pc \notin Stops /\ top.pc \in Midway
    BY <1>1 DEF Stops, Midway
  <2> QED
    BY <1>2, <2>1, Known, ComingIs
<1>7. Coming(g, backup') = top.msg
  <2>1. g.pc \notin Stops /\ g.pc \in Midway /\ backup' \in Texts
    BY <1>1, <1>4, CatNothing DEF Stops, Midway, Texts
  <2> QED
    BY <1>4, <1>5, <2>1, ComingIs
<1>8. Cat(vga', Coming(g, backup')) = Shown
  BY <1>1, <1>2, <1>6, <1>7 DEF Shown
<1> QED
  BY <1>1, <1>2, <1>3, <1>4, <1>8, ThreadKeeps

(* The message is shown.                                                   *)
LEMMA MsgToVgaInPiece == ConsoleInv /\ PieceInv /\ MsgToVga => PieceInv'
<1> SUFFICES ASSUME ConsoleInv, PieceInv, MsgToVga PROVE PieceInv'
  OBVIOUS
<1>1. /\ top.pc = "msg_to_vga" /\ backup' = backup /\ messages' = messages
      /\ vga' = Cat(vga, top.msg)
  BY DEF MsgToVga, At, bounds, Cat
<1>2. Len(stack) = 1 /\ top \in Frames /\ top = stack[1]
  BY <1>1, ThreadIs DEF Holding
<1>3. backup = <<>>
  BY <1>1, <1>2 DEF PieceInv
<1> DEFINE g == PlacedAt(top, "msg_to_serial")
<1>4. Become(g)
  BY DEF MsgToVga, Goto, PlacedAt
<1>5. "msg_to_serial" \in Places
  BY DEF Places, Holding
<1>6. g \in Frames /\ g.pc = "msg_to_serial"
  BY <1>2, <1>5, PlaceSet
<1> HIDE DEF g
<1>7. Coming(top, backup) = top.msg /\ top.msg \in Texts
  <2>1. top.pc \notin Stops /\ top.pc \in Midway
    BY <1>1 DEF Stops, Midway
  <2> QED
    BY <1>2, <2>1, Known, ComingIs
<1>8. Coming(g, backup) = backup /\ g.pc # "msg_to_vga"
  <2>1. g.pc \notin Stops /\ g.pc \notin Before \cup Midway
    BY <1>6 DEF Stops, Before, Midway
  <2> QED
    BY <1>6, <2>1, Known, ComingIs
<1>9. Cat(vga', Coming(g, backup')) = Shown
  <2>1. Cat(vga, top.msg) \in Texts
    BY <1>7, Known, CatIs
  <2>2. Cat(Cat(vga, top.msg), backup) = Cat(vga, top.msg)
    BY <1>3, <2>1, CatNothing
  <2> QED
    BY <1>1, <1>2, <1>7, <1>8, <2>2 DEF Shown
<1> QED
  BY <1>1, <1>2, <1>4, <1>6, <1>8, <1>9, ThreadKeeps

(* The print returns.                                                      *)
LEMMA UnlockInPiece == ConsoleInv /\ PieceInv /\ Unlock => PieceInv'
<1> SUFFICES ASSUME ConsoleInv, PieceInv, Unlock PROVE PieceInv'
  OBVIOUS
<1>1. top.pc = "unlock" /\ backup' = backup /\ messages' = messages /\ vga' = vga
  BY DEF Unlock, At, bounds
<1>2. /\ Len(stack) = 1 /\ top \in Frames /\ top = stack[1] /\ ThreadOK(top)
      /\ top.pc \in Holding
  BY <1>1, ThreadIs DEF Holding
<1> DEFINE g == BackFromPrint(top)
<1>3. Become(g)
  BY DEF Unlock, BackFromPrint
<1>4. g \in Frames /\ g.pc = top.ret
  BY <1>2, PrintReturns
<1> HIDE DEF g
<1>5. g.pc \in {"idle", "panic_check", "flush"}
  BY <1>2, <1>4 DEF ThreadOK
<1>6. Coming(top, backup) = backup
  <2>1. top.pc \notin Stops /\ top.pc \notin Before \cup Midway
    BY <1>1 DEF Stops, Before, Midway
  <2> QED
    BY <1>2, <2>1, Known, ComingIs
<1>7. Coming(g, backup) = backup /\ g.pc # "msg_to_vga"
  <2>1. g.pc \notin Stops /\ g.pc \notin Before \cup Midway /\ g.pc # "msg_to_vga"
    BY <1>5 DEF Stops, Before, Midway
  <2> QED
    BY <1>4, <2>1, Known, ComingIs
<1>8. Cat(vga', Coming(g, backup')) = Shown
  BY <1>1, <1>2, <1>6, <1>7 DEF Shown
<1> QED
  BY <1>1, <1>2, <1>3, <1>4, <1>7, <1>8, ThreadKeeps

(* A handler's message, or what of it has room, is behind all that will be *)
(* shown, or it will be cleared.                                           *)
LEMMA WriteBackupInPiece == ConsoleInv /\ PieceInv /\ WriteBackup => PieceInv'
<1> SUFFICES ASSUME ConsoleInv, PieceInv, WriteBackup PROVE PieceInv'
  OBVIOUS
<1>1. /\ top.pc = "write" /\ is_in_isr /\ vga' = vga /\ messages' = messages
      /\ backup' = Cat(backup, Take(top.msg, BackupSize - Len(backup)))
  BY DEF WriteBackup, At, bounds, Cat
<1>2. Len(stack) = 2
  BY <1>1 DEF ConsoleInv, LockInv
<1>3. top \in Frames /\ HandlerOK(top) /\ stack[1].pc = "wait" /\ ThreadOK(stack[1])
  BY <1>2, HandlerIs DEF ConsoleInv, LockInv
<1> DEFINE room == BackupSize - Len(backup)
           taken == Take(top.msg, room)
           g == BackFromPrint(top)
           u == Shown
           f == stack[1]
<1>4. room \in Nat
  <2>1. Len(backup) \in Nat /\ Len(backup) <= BackupSize
    BY Known, CatIs
  <2> QED
    BY <2>1, ConsoleAssumption
<1>5. InOnePiece(u) /\ \A k \in DOMAIN u : u[k][1] < messages
  BY <1>1, <1>2 DEF PieceInv, Spoken
<1>6. PICK length \in Nat : top.msg = Message(messages, length)
  BY <1>1, <1>2 DEF PieceInv, Spoken
<1>7. u \in Texts /\ f \in Frames /\ \A k \in DOMAIN u : u[k][1] \in Nat
  BY ShownText
<1>8. backup' = Cat(backup, taken)
  BY <1>1
<1> HIDE DEF room
<1>9. messages \in Nat
  BY Known
<1>10. taken \in Texts /\ InOnePiece(taken) /\ \A k \in DOMAIN taken : taken[k][1] = messages
  <2>1. taken = Take(Message(messages, length), room)
    BY <1>6
  <2> HIDE DEF taken
  <2> QED
    BY <1>4, <1>9, <2>1, TakenInPiece
<1> HIDE DEF taken
<1>11. Become(g)
  BY DEF WriteBackup, BackFromPrint
<1>12. g \in Frames /\ g.pc = top.ret
  BY <1>3, PrintReturns
<1> HIDE DEF g
<1>13. g.pc # "write"
  BY <1>1, <1>3, <1>12 DEF HandlerOK
<1>14. Len(stack') = 2 /\ stack'[1] = f /\ top' = g
  BY <1>2, <1>11, <1>12, Becomes DEF ConsoleInv
<1>15. ~Spoken' /\ stack'[1].pc # "msg_to_vga"
  BY <1>3, <1>13, <1>14 DEF Spoken
<1>16. backup' \in Texts /\ backup \in Texts /\ vga \in Texts
  BY <1>8, <1>10, Known, CatIs
<1>17. Shown' = u \/ Shown' = Cat(u, taken)
  <2>1. Stage(f) \in Nexts
    BY <1>3 DEF Stage, Stops, ThreadOK
  <2>2. u = Cat(vga, Coming(f, backup)) /\ Shown' = Cat(vga, Coming(f, backup'))
    BY <1>1, <1>14 DEF Shown
  <2>3. Stage(f) \in Midway \/ Stage(f) \notin Before \cup Midway
    BY <2>1 DEF Nexts, Before, Midway
  <2> HIDE DEF u, f
  <2>4. CASE Stage(f) \in Midway
    <3>1. Coming(f, backup) = f.msg /\ Coming(f, backup') = f.msg
      BY <1>7, <1>16, <2>4, ComingIs
    <3> QED
      BY <2>2, <3>1
  <2>5. CASE Stage(f) \notin Before \cup Midway
    <3>1. Coming(f, backup) = backup /\ Coming(f, backup') = backup'
      BY <1>7, <1>16, <2>5, ComingIs
    <3>2. Cat(vga, Cat(backup, taken)) = Cat(Cat(vga, backup), taken)
      BY <1>10, <1>16, CatAssociative
    <3> QED
      BY <1>8, <2>2, <3>1, <3>2
  <2> QED
    BY <2>3, <2>4, <2>5
<1> HIDE DEF u, f
<1>18. CASE Shown' = u
  <2>1. \A k \in DOMAIN u : u[k][1] <= messages
    BY <1>5, <1>7, <1>9
  <2> QED
    BY <1>1, <1>5, <1>15, <1>18, <2>1 DEF PieceInv
<1>19. CASE Shown' = Cat(u, taken)
  <2>1. /\ InOnePiece(Cat(u, taken))
        /\ \A k \in DOMAIN Cat(u, taken) : Cat(u, taken)[k][1] <= messages
    BY <1>5, <1>7, <1>9, <1>10, JoinInPiece, Zenon
  <2> QED
    BY <1>1, <1>15, <1>19, <2>1 DEF PieceInv
<1> QED
  BY <1>17, <1>18, <1>19

(* A step of a panic, or into one, by the thread or by a handler.          *)
LEMMA PanicGoesInPiece ==
  ASSUME ConsoleInv, PieceInv, top.pc \in {"idle", "keyboard"} \cup Reporting,
         NEW place \in Reporting, Goto(place), UNCHANGED <<vga, backup, messages>>
  PROVE  PieceInv'
<1> DEFINE g == PlacedAt(top, place)
<1>1. Become(g)
  BY DEF Goto, PlacedAt
<1>2. top \in Frames /\ place \in Places
  BY WhoRuns DEF Places, Handling
<1>3. g \in Frames /\ g.pc = place /\ g.msg = top.msg
  BY <1>2, PlaceSet
<1> HIDE DEF g
<1>4. g.pc \notin {"write", "msg_to_vga"}
  BY <1>3 DEF Reporting
<1>5. Alike(g, top)
  <2>1. Stage(g) \notin Before \cup Midway
    BY <1>3 DEF Stage, Stops, Before, Midway, Reporting
  <2>2. Stage(top) \notin Before \cup Midway
    BY DEF Stage, Stops, Before, Midway, Reporting
  <2> QED
    BY <1>3, <2>1, <2>2 DEF Alike
<1>6. CASE Len(stack) = 1
  BY <1>1, <1>3, <1>4, <1>5, <1>6, ThreadMovesOn
<1>7. CASE Len(stack) = 2
  BY <1>1, <1>3, <1>4, <1>7, HandlerKeeps
<1> QED
  BY <1>6, <1>7, Known

(* Something goes wrong, a panic looks whether it is the first, or sends   *)
(* what is left.                                                           *)
LEMMA PanicInPiece ==
  ConsoleInv /\ PieceInv /\ (Crash \/ NestedPanicCheck \/ Flush) => PieceInv'
<1> SUFFICES ASSUME ConsoleInv, PieceInv, Crash \/ NestedPanicCheck \/ Flush
             PROVE  PieceInv'
  OBVIOUS
<1>1. UNCHANGED <<vga, backup, messages>>
  BY DEF Crash, NestedPanicCheck, Flush, console, bounds
<1>2. top.pc \in {"idle", "keyboard"} \cup Reporting
  BY ConsoleAssumption DEF Crash, NestedPanicCheck, Flush, At, Reporting
<1>3. stack' = stack \/ \E place \in Reporting : Goto(place)
  <2>1. {"panic", "flush", "trace", "halted"} \subseteq Reporting
    BY DEF Reporting
  <2>2. CASE Crash
    BY <2>1, <2>2 DEF Crash
  <2>3. CASE NestedPanicCheck
    BY <2>1, <2>3 DEF NestedPanicCheck
  <2>4. CASE Flush
    BY <2>1, <2>4 DEF Flush
  <2> QED
    BY <2>2, <2>3, <2>4
<1> QED
  BY <1>1, <1>2, <1>3, PanicGoesInPiece, AllKeep

(* A print is called, by the thread or by a handler.                       *)
LEMMA CallInPiece ==
  ASSUME ConsoleInv, PieceInv, top.pc \in {"idle", "line_status", "keyboard"} \cup Reporting,
         NEW ret \in Places, NEW length \in Nat, CallPrint(length, ret),
         vga' = vga, backup' = backup
  PROVE  PieceInv'
<1>1. CASE Len(stack) = 1
  <2>1. top.pc \in {"idle"} \cup Reporting
    BY <1>1, WhoRuns
  <2> QED
    BY <1>1, <2>1, ThreadPrints
<1>2. CASE Len(stack) = 2
  BY <1>2, HandlerPrints
<1> QED
  BY <1>1, <1>2, Known

(* printf, the reason of a panic and its trace.                            *)
LEMMA PrintsInPiece ==
  ConsoleInv /\ PieceInv /\ (Printf \/ PanicReason \/ StackTrace) => PieceInv'
<1> SUFFICES ASSUME ConsoleInv, PieceInv, Printf \/ PanicReason \/ StackTrace
             PROVE  PieceInv'
  OBVIOUS
<1>1. vga' = vga /\ backup' = backup
  BY DEF Printf, PanicReason, StackTrace, console
<1>2. top.pc \in {"idle", "line_status", "keyboard"} \cup Reporting
  BY DEF Printf, PanicReason, StackTrace, At, Reporting
<1>3. {"idle", "panic_check", "flush"} \subseteq Places
  BY DEF Places, Handling, Reporting
<1>4. \E ret \in Places, length \in Lengths \cup {1} : CallPrint(length, ret)
  BY <1>3 DEF Printf, PanicReason, StackTrace
<1>5. \A length \in Lengths \cup {1} : length \in Nat
  BY ConsoleAssumption
<1> QED
  BY <1>1, <1>2, <1>4, <1>5, CallInPiece

(* A handler goes on or prints.                                            *)
LEMMA HandlerInPiece ==
  ConsoleInv /\ PieceInv /\ (ReadDetect \/ ReadLineStatus \/ HandleKey) => PieceInv'
<1> SUFFICES ASSUME ConsoleInv, PieceInv, ReadDetect \/ ReadLineStatus \/ HandleKey
             PROVE  PieceInv'
  OBVIOUS
<1>1. vga' = vga /\ backup' = backup
  BY DEF ReadDetect, ReadLineStatus, HandleKey, console
<1>2. top.pc \in {"detect", "line_status", "keyboard"}
  BY DEF ReadDetect, ReadLineStatus, HandleKey, At
<1>3. Len(stack) = 2 /\ top \in Frames
  BY <1>2, WhoRuns
<1>4. \/ \E place \in {"detect", "line_status", "eoi"} : Goto(place) /\ messages' = messages
      \/ \E ret \in {"detect", "eoi"}, length \in Lengths : CallPrint(length, ret)
  BY DEF ReadDetect, ReadLineStatus, HandleKey, bounds
<1>5. ASSUME NEW place \in {"detect", "line_status", "eoi"}, Goto(place), messages' = messages
      PROVE  PieceInv'
  <2> DEFINE g == PlacedAt(top, place)
  <2>1. Become(g)
    BY <1>5 DEF Goto, PlacedAt
  <2>2. place \in Places
    BY DEF Places, Handling
  <2>3. g \in Frames /\ g.pc = place
    BY <1>3, <2>2, PlaceSet
  <2> HIDE DEF g
  <2> QED
    BY <1>1, <1>3, <1>5, <2>1, <2>3, HandlerKeeps
<1>6. ASSUME NEW ret \in {"detect", "eoi"}, NEW length \in Lengths, CallPrint(length, ret)
      PROVE  PieceInv'
  <2>1. ret \in Places /\ length \in Nat
    BY ConsoleAssumption DEF Places, Handling
  <2> QED
    BY <1>1, <1>3, <1>6, <2>1, HandlerPrints
<1> QED
  BY <1>4, <1>5, <1>6

(* The handler is done: the thread is where it was.                        *)
LEMMA EndOfInterruptInPiece == ConsoleInv /\ PieceInv /\ EndOfInterrupt => PieceInv'
<1> SUFFICES ASSUME ConsoleInv, PieceInv, EndOfInterrupt PROVE PieceInv'
  OBVIOUS
<1>1. /\ top.pc = "eoi" /\ vga' = vga /\ messages' = messages /\ backup' = backup
      /\ stack' = SubSeq(stack, 1, Len(stack) - 1)
  BY DEF EndOfInterrupt, At, console, bounds
<1>2. Len(stack) = 2 /\ stack \in Seq(Frames)
  BY <1>1, WhoRuns DEF ConsoleInv, ConsoleType
<1>3. Len(stack') = 1 /\ stack'[1] = stack[1]
  <2>1. stack' = SubSeq(stack, 1, 1)
    BY <1>1, <1>2
  <2> QED
    BY <1>2, <2>1
<1>4. Shown' = Shown /\ ~Spoken'
  <2>1. vga' = vga /\ backup' = backup
    BY <1>1
  <2>2. Shown' = Shown
    BY <1>3, <2>1 DEF Shown
  <2>3. ~Spoken'
    BY <1>3 DEF Spoken
  <2> QED
    BY <2>2, <2>3
<1>5. stack'[1].pc = "msg_to_vga" => backup' = <<>>
  BY <1>1, <1>3 DEF PieceInv
<1> QED
  BY <1>1, <1>4, <1>5, StaysInPiece

(* An interrupt is taken.                                                  *)
LEMMA DeliverInPiece ==
  ASSUME NEW q \in {Keyboard, Com1}, ConsoleInv, PieceInv, Deliver(q)
  PROVE  PieceInv'
<1> DEFINE place == IF q = Com1 THEN "detect" ELSE "keyboard"
           f == Frame(q, place)
<1>1. /\ ifFlag /\ vga' = vga /\ messages' = messages /\ backup' = backup
      /\ stack' = Append(stack, f)
  BY DEF Deliver, console, bounds
<1>2. Len(stack) = 1 /\ stack \in Seq(Frames)
  BY <1>1 DEF ConsoleInv, LockInv, ConsoleType
<1>3. f \in Frames /\ f.pc \in {"detect", "keyboard"}
  <2>1. /\ place \in Places /\ "none" \in Places /\ <<>> \in Texts
        /\ place \in {"detect", "keyboard"}
    BY DEF Places, Handling, Texts
  <2>2. q \in Nat
    BY DEF Keyboard, Com1
  <2> HIDE DEF place
  <2> QED
    BY <2>1, <2>2 DEF Frame, Frames
<1> HIDE DEF f
<1>4. Len(stack') = 2 /\ stack'[1] = stack[1] /\ stack'[2] = f
  <2>1. /\ Len(Append(stack, f)) = 2 /\ Append(stack, f)[1] = stack[1]
        /\ Append(stack, f)[2] = f
    BY <1>2, <1>3, Pushed
  <2> QED
    BY <1>1, <2>1
<1>5. top' = f
  BY <1>4 DEF top
<1>6. Shown' = Shown /\ ~Spoken'
  BY <1>1, <1>3, <1>4, <1>5 DEF Shown, Spoken
<1>7. stack'[1].pc = "msg_to_vga" => backup' = <<>>
  BY <1>1, <1>4 DEF PieceInv
<1> QED
  BY <1>1, <1>6, <1>7, StaysInPiece

(* Nothing is shown at first.                                              *)
LEMMA PieceStarts == Init => PieceInv
<1> SUFFICES ASSUME Init PROVE PieceInv
  OBVIOUS
<1> DEFINE f == Frame(0, "idle")
<1>1. f.pc = "idle"
  BY DEF Frame
<1>2. stack = <<f>> /\ backup = <<>> /\ vga = <<>> /\ messages = 0
  BY DEF Init
<1> HIDE DEF f
<1>3. Len(stack) = 1 /\ stack[1] = f
  BY <1>2
<1>4. Coming(f, backup) = <<>>
  BY <1>1, <1>2 DEF Coming, Stage, Stops, Before, Midway
<1>5. Shown = <<>>
  BY <1>2, <1>3, <1>4 DEF Shown, Cat
<1>6. InOnePiece(<<>>) /\ DOMAIN <<>> = {}
  BY DEF InOnePiece
<1>7. ~Spoken /\ stack[1].pc # "msg_to_vga"
  BY <1>1, <1>3 DEF Spoken
<1> QED
  BY <1>5, <1>6, <1>7 DEF PieceInv

(* Every step keeps it in one piece.                                       *)
LEMMA PieceStep == ConsoleInv /\ PieceInv /\ [Next]_vars => PieceInv'
<1> SUFFICES ASSUME ConsoleInv, PieceInv, [Next]_vars PROVE PieceInv'
  OBVIOUS
<1>1. CASE CpuStep
  BY <1>1, EndWaitInPiece, PollInPiece, WriteBackupInPiece, LockInPiece, ViewsToVgaInPiece,
     ToSerialInPiece, ClearBackupInPiece, MsgToVgaInPiece, UnlockInPiece, HandlerInPiece,
     EndOfInterruptInPiece, PrintsInPiece, PanicInPiece DEF CpuStep
<1>2. CASE Printf
  BY <1>2, PrintsInPiece
<1>3. CASE Crash
  BY <1>3, PanicInPiece
<1>4. CASE Deliver(Keyboard) \/ Deliver(Com1)
  BY <1>4, DeliverInPiece
<1>5. CASE UartFifoEmpty \/ UartShiftEmpty \/ KeyboardSends \/ Spin \/ Halted
             \/ OtherCode \/ UNCHANGED vars
  <2>1. stack' = stack /\ vga' = vga /\ backup' = backup /\ messages' = messages
    BY <1>5 DEF UartFifoEmpty, UartShiftEmpty, KeyboardSends, Spin, Halted, OtherCode, vars,
                cpu, intr, serial, console, bounds
  <2> QED
    BY <2>1, AllKeep
<1> QED
  BY <1>1, <1>2, <1>3, <1>4, <1>5 DEF Next

(* Whoever prints, and whatever the interrupt buffer cuts or loses, what   *)
(* the screen shows of a message is a beginning of it, in one piece, once. *)
THEOREM MessagesStayInOnePiece == Spec => []ShownInOnePiece
<1>1. Init => ConsoleInv /\ PieceInv
  BY ConsoleStarts, PieceStarts
<1>2. ConsoleInv /\ PieceInv /\ [Next]_vars => (ConsoleInv /\ PieceInv)'
  BY ConsoleStep, PieceStep
<1>3. ConsoleInv /\ PieceInv => ShownInOnePiece
  <2> SUFFICES ASSUME ConsoleInv, PieceInv PROVE ShownInOnePiece
    OBVIOUS
  <2> DEFINE c == Coming(stack[1], backup)
  <2>1. vga \in Texts /\ c \in Texts /\ Shown \in Texts /\ InOnePiece(Shown)
    BY ShownText, Known DEF PieceInv
  <2>2. Shown = Cat(vga, c)
    BY DEF Shown
  <2> HIDE DEF c
  <2>3. /\ Len(Cat(vga, c)) = Len(vga) + Len(c)
        /\ \A k \in 1..Len(vga) : Cat(vga, c)[k] = vga[k]
    BY <2>1, CatBytes
  <2>4. Len(vga) \in Nat /\ Len(c) \in Nat
    BY <2>1, TextIs
  <2>5. Len(vga) <= Len(Shown) /\ \A k \in 1..Len(vga) : vga[k] = Shown[k]
    BY <2>2, <2>3, <2>4
  <2>6. InOnePiece(vga)
    BY <2>1, <2>5, BeginningInPiece
  <2> QED
    BY <2>6 DEF InOnePiece, ShownInOnePiece
<1> QED
  BY <1>1, <1>2, <1>3, PTL DEF Spec

=============================================================================
