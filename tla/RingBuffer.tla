----------------------------- MODULE RingBuffer -----------------------------
(***************************************************************************)
(* bu::SizedRingBuffer<N> (bustd/ringbuffer.hpp): the byte queue behind    *)
(* the serial port, the console's interrupt buffer, the keyboard driver's  *)
(* command queue and the keyboard file.  Slots are numbered from 0 as in   *)
(* the code; a caller's buffer is a sequence.                              *)
(***************************************************************************)
EXTENDS Integers, Sequences

CONSTANTS
  Byte,      (* the values a byte can take                                 *)
  N,         (* the template parameter: the number of slots                *)
  MaxChunk,  (* the longest buffer a caller passes                         *)
  Zero       (* the value of a slot nothing was written to yet             *)

ASSUME RingAssumption ==
  /\ N \in Nat \ {0}
  /\ MaxChunk \in Nat \ {0}
  /\ Zero \in Byte

VARIABLES
  m_buffer_start,
  m_current_size,
  m_buffer,
  result     (* what the last operation gave back: a count and some bytes  *)

state == <<m_buffer_start, m_current_size, m_buffer>>
vars  == <<m_buffer_start, m_current_size, m_buffer, result>>

Slots == 0..(N - 1)

Chunks == UNION {[1..k -> Byte] : k \in 0..MaxChunk}

MinOf(a, b) == IF a <= b THEN a ELSE b

Reply(count, bytes) == [count |-> count, bytes |-> bytes]

(* memcpy(dst + at, src + from, n) into the slots.                         *)
Memcpy(dst, at, src, from, n) ==
  [i \in DOMAIN dst |-> IF i \in at..(at + n - 1) THEN src[i - at + from + 1]
                                                  ELSE dst[i]]

(* memcpy of the n slots that begin at slot "at" out of the buffer.        *)
SlotRun(at, n) == [j \in 1..n |-> m_buffer[at + j - 1]]

remaining_space == N - m_current_size

Init ==
  /\ m_buffer_start = 0
  /\ m_current_size = 0
  /\ m_buffer = [i \in Slots |-> Zero]
  /\ result = Reply(0, <<>>)

(* Mutant: the last byte held is overwritten.                              *)
WriteOverLast(data) ==
  LET to_write == MinOf(Len(data), remaining_space)
      at       == IF m_current_size = 0 THEN m_buffer_start
                  ELSE (m_buffer_start + m_current_size - 1) % N
  IN
  /\ m_buffer' = IF to_write = 0 THEN m_buffer ELSE Memcpy(m_buffer, at, data, 0, 1)
  /\ m_current_size' = m_current_size + to_write
  /\ result' = Reply(to_write, <<>>)
  /\ UNCHANGED m_buffer_start

(* The three cases of write: straight, cut at the end, all past the end.   *)
write(data) ==
  LET to_write      == MinOf(Len(data), remaining_space)
      append_offset == m_buffer_start + m_current_size
      margin_to_end == N - append_offset
  IN
  /\ \/ /\ append_offset + to_write <= N
        /\ m_buffer' = Memcpy(m_buffer, append_offset, data, 0, to_write)
     \/ /\ append_offset + to_write > N
        /\ append_offset < N
        /\ m_buffer' = Memcpy(Memcpy(m_buffer, append_offset, data, 0, margin_to_end),
                              0, data, margin_to_end, to_write - margin_to_end)
     \/ /\ append_offset + to_write > N
        /\ append_offset >= N
        /\ m_buffer' = Memcpy(m_buffer, append_offset - N, data, 0, to_write)
  /\ m_current_size' = m_current_size + to_write
  /\ result' = Reply(to_write, <<>>)
  /\ UNCHANGED m_buffer_start

(* Mutant: the two parts are copied in the wrong order.                    *)
ReadBytesSwapped(upto) ==
  LET to_read == MinOf(upto, m_current_size)
      margin  == N - m_buffer_start
  IN IF margin > to_read
     THEN SlotRun(m_buffer_start, to_read)
     ELSE SlotRun(0, to_read - margin) \o SlotRun(m_buffer_start, margin)

(* The bytes read() copies out when it is asked for upto of them.          *)
ReadBytes(upto) ==
  LET to_read == MinOf(upto, m_current_size)
      margin  == N - m_buffer_start
  IN IF margin > to_read
     THEN SlotRun(m_buffer_start, to_read)
     ELSE SlotRun(m_buffer_start, margin) \o SlotRun(0, to_read - margin)

read(upto) ==
  /\ result' = Reply(MinOf(upto, m_current_size), ReadBytes(upto))
  /\ UNCHANGED state

(* The state change of drop(n).                                            *)
Advance(n) ==
  LET to_drop == MinOf(n, m_current_size)
      start   == m_buffer_start + to_drop
  IN
  /\ m_current_size' = m_current_size - to_drop
  /\ m_buffer_start' = IF start >= N THEN start - N ELSE start
  /\ UNCHANGED m_buffer

drop(n) ==
  /\ Advance(n)
  /\ result' = Reply(MinOf(n, m_current_size), <<>>)

take(upto) ==
  /\ Advance(MinOf(upto, m_current_size))
  /\ result' = Reply(MinOf(upto, m_current_size), ReadBytes(upto))

push(byte) == write(<<byte>>)

(* pop and head return only when there is a byte: they assert it.          *)
pop ==
  /\ MinOf(1, m_current_size) = 1
  /\ take(1)

head ==
  /\ MinOf(1, m_current_size) = 1
  /\ read(1)

(* The two views, first_part and second_part, one after the other.         *)
read_nocopy ==
  LET margin      == N - m_buffer_start
      first_part  == SlotRun(m_buffer_start, MinOf(margin, m_current_size))
      second_part == IF m_current_size > margin
                     THEN SlotRun(0, m_current_size - margin) ELSE <<>>
  IN
  /\ m_current_size # 0
  /\ result' = Reply(m_current_size, first_part \o second_part)
  /\ UNCHANGED state

clear == drop(m_current_size)

Next ==
  \/ \E data \in Chunks : write(data)
  \/ \E n \in 0..(MaxChunk + N) : read(n) \/ take(n) \/ drop(n)
  \/ \E byte \in Byte : push(byte)
  \/ pop
  \/ head
  \/ read_nocopy
  \/ clear

Spec == Init /\ [][Next]_vars

-----------------------------------------------------------------------------

(* The slot that holds the byte number k, counted from 0 at the oldest.    *)
SlotOf(k) ==
  IF m_buffer_start + k >= N THEN m_buffer_start + k - N ELSE m_buffer_start + k

Occupied == {SlotOf(k) : k \in 0..(m_current_size - 1)}

Contents == [j \in 1..m_current_size |-> m_buffer[SlotOf(j - 1)]]

(* The start stays inside the array (drop wraps it at once) and the size   *)
(* never passes the capacity.                                              *)
TypeOK ==
  /\ m_buffer_start \in Slots
  /\ m_current_size \in 0..N
  /\ m_buffer \in [Slots -> Byte]
  /\ result \in [count : Nat, bytes : Seq(Byte)]

(* Whatever the wrapping, the buffer behaves as a bounded queue: every     *)
(* operation returns and leaves what the queue would.                      *)
Queue == INSTANCE Fifo WITH queue <- Contents
ImplementsFifo == Queue!Spec

(* No operation disturbs a byte that is held: the views that read_nocopy   *)
(* hands out stay good while an interrupt writes behind them, which        *)
(* KernelOutputDevice::write relies on while it prints them.               *)
ViewsStayGood == [][\A i \in Occupied : m_buffer'[i] = m_buffer[i]]_vars

=============================================================================
