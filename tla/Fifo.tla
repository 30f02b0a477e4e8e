-------------------------------- MODULE Fifo --------------------------------
(***************************************************************************)
(* What a bounded byte queue promises to the code that uses it: bytes come *)
(* out in the order they went in, a write that does not fit is cut short   *)
(* and says how much it took, a read or a removal returns the oldest bytes *)
(* there are.  RingBuffer implements this specification.                   *)
(***************************************************************************)
EXTENDS Integers, Sequences

CONSTANTS
  Byte,      (* the values a byte can take                                 *)
  N,         (* the capacity                                               *)
  MaxChunk   (* the longest buffer a caller passes                         *)

VARIABLES
  queue,     (* the bytes held, oldest first                               *)
  result     (* what the last operation gave back: a count and some bytes  *)

vars == <<queue, result>>

MinOf(a, b) == IF a <= b THEN a ELSE b

Chunks == UNION {[1..k -> Byte] : k \in 0..MaxChunk}

Reply(count, bytes) == [count |-> count, bytes |-> bytes]

Init ==
  /\ queue = <<>>
  /\ result = Reply(0, <<>>)

Accept(data) ==
  LET n == MinOf(Len(data), N - Len(queue)) IN
  /\ queue' = queue \o SubSeq(data, 1, n)
  /\ result' = Reply(n, <<>>)

Peek(upto) ==
  LET n == MinOf(upto, Len(queue)) IN
  /\ result' = Reply(n, SubSeq(queue, 1, n))
  /\ queue' = queue

Remove(upto) ==
  LET n == MinOf(upto, Len(queue)) IN
  /\ result' = Reply(n, SubSeq(queue, 1, n))
  /\ queue' = SubSeq(queue, n + 1, Len(queue))

Discard(upto) ==
  LET n == MinOf(upto, Len(queue)) IN
  /\ result' = Reply(n, <<>>)
  /\ queue' = SubSeq(queue, n + 1, Len(queue))

Next ==
  \/ \E data \in Chunks : Accept(data)
  \/ \E upto \in 0..(MaxChunk + N) : Peek(upto) \/ Remove(upto) \/ Discard(upto)

Spec == Init /\ [][Next]_vars

=============================================================================
