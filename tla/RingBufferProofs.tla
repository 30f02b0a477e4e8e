-------------------------- MODULE RingBufferProofs --------------------------
(***************************************************************************)
(* For every capacity, byte set and buffer length: the ring buffer's state *)
(* is well formed, it implements the bounded queue, and no operation       *)
(* disturbs a byte that is held.                                           *)
(***************************************************************************)
EXTENDS RingBuffer, SequenceTheorems, TLAPS

-----------------------------------------------------------------------------
(* Sequences.                                                              *)

(* A function on 1..n with values in S is a sequence of length n.          *)
LEMMA MadeSeq ==
  ASSUME NEW S, NEW n \in Nat, NEW s \in [1..n -> S]
  PROVE  s \in Seq(S) /\ Len(s) = n
OBVIOUS

(* What a caller passes is a sequence of bytes.                            *)
LEMMA ChunkIsSeq ==
  ASSUME NEW data \in Chunks
  PROVE  data \in Seq(Byte) /\ Len(data) \in Nat
<1>1. PICK k \in 0..MaxChunk : data \in [1..k -> Byte]
  BY DEF Chunks
<1>2. k \in Nat
  BY RingAssumption
<1> QED
  BY <1>1, <1>2, MadeSeq

(* A single byte is a buffer of length one.                                *)
LEMMA ByteIsChunk ==
  ASSUME NEW byte \in Byte
  PROVE  <<byte>> \in Chunks
<1>1. <<byte>> \in [1..1 -> Byte]
  OBVIOUS
<1>2. 1 \in 0..MaxChunk
  BY RingAssumption
<1> QED
  BY <1>1, <1>2 DEF Chunks

-----------------------------------------------------------------------------
(* What the operators compute.                                             *)

(* The bytes held, oldest first, are as many as the size says.             *)
LEMMA ContentsSeq ==
  ASSUME TypeOK
  PROVE  /\ Contents \in Seq(Byte)
         /\ Len(Contents) = m_current_size
         /\ m_current_size \in Nat
         /\ \A k \in 0..(m_current_size - 1) : SlotOf(k) \in Slots
<1>1. m_current_size \in Nat /\ \A k \in 0..(m_current_size - 1) : SlotOf(k) \in Slots
  BY RingAssumption DEF TypeOK, SlotOf, Slots
<1>2. \A j \in 1..m_current_size : m_buffer[SlotOf(j - 1)] \in Byte
  BY <1>1 DEF TypeOK
<1>3. Contents \in [1..m_current_size -> Byte]
  BY <1>2 DEF Contents
<1> QED
  BY <1>1, <1>3, MadeSeq

(* A run of slots that stays inside the array is a sequence of bytes.      *)
LEMMA SlotRunSeq ==
  ASSUME TypeOK, NEW at \in Nat, NEW n \in Nat, at + n <= N
  PROVE  SlotRun(at, n) \in Seq(Byte) /\ Len(SlotRun(at, n)) = n
<1>1. \A j \in 1..n : m_buffer[at + j - 1] \in Byte
  BY RingAssumption DEF TypeOK, Slots
<1>2. SlotRun(at, n) \in [1..n -> Byte]
  BY <1>1 DEF SlotRun
<1> QED
  BY <1>2, MadeSeq

(* One run, or one run to the end of the array and one from its start, is  *)
(* a prefix of the bytes held.                                             *)
LEMMA RunsArePrefix ==
  ASSUME TypeOK, NEW n \in 0..m_current_size
  PROVE  /\ N - m_buffer_start >= n =>
              SlotRun(m_buffer_start, n) = SubSeq(Contents, 1, n)
         /\ N - m_buffer_start <= n =>
              SlotRun(m_buffer_start, N - m_buffer_start)
                \o SlotRun(0, n - (N - m_buffer_start)) = SubSeq(Contents, 1, n)
<1> DEFINE pre == SubSeq(Contents, 1, n)
<1>1. /\ pre \in Seq(Byte) /\ Len(pre) = n
      /\ \A j \in 1..n : pre[j] = m_buffer[SlotOf(j - 1)]
  BY ContentsSeq DEF Contents
<1>2. n \in Nat /\ m_buffer_start \in Nat /\ N \in Nat /\ m_buffer_start < N
      /\ n <= N
  BY RingAssumption DEF TypeOK, Slots
<1>3. ASSUME N - m_buffer_start >= n
      PROVE  SlotRun(m_buffer_start, n) = pre
  <2>1. SlotRun(m_buffer_start, n) \in Seq(Byte) /\ Len(SlotRun(m_buffer_start, n)) = n
    BY <1>2, <1>3, SlotRunSeq
  <2>2. \A j \in 1..n : SlotRun(m_buffer_start, n)[j] = pre[j]
    BY <1>1, <1>2, <1>3 DEF SlotRun, SlotOf
  <2> QED
    BY <1>1, <2>1, <2>2, SeqEqual
<1>4. ASSUME N - m_buffer_start <= n
      PROVE  SlotRun(m_buffer_start, N - m_buffer_start)
               \o SlotRun(0, n - (N - m_buffer_start)) = pre
  <2> DEFINE margin == N - m_buffer_start
             left   == SlotRun(m_buffer_start, margin)
             right  == SlotRun(0, n - margin)
  <2>0. /\ margin \in Nat /\ m_buffer_start + margin <= N
        /\ n - margin \in Nat /\ 0 + (n - margin) <= N
    BY <1>2, <1>4
  <2>1. left \in Seq(Byte) /\ Len(left) = margin
    <3> HIDE DEF margin
    <3> QED
      BY <1>2, <2>0, SlotRunSeq
  <2>2. right \in Seq(Byte) /\ Len(right) = n - margin
    <3> HIDE DEF margin
    <3> QED
      BY <1>2, <2>0, SlotRunSeq
  <2>3. /\ left \o right \in Seq(Byte)
        /\ Len(left \o right) = n
        /\ \A j \in 1..n : (left \o right)[j] = IF j <= margin THEN left[j]
                                                              ELSE right[j - margin]
    <3> HIDE DEF left, right
    <3> QED
      BY <2>1, <2>2, <1>2, <1>4
  <2>4. \A j \in 1..n : (left \o right)[j] = pre[j]
    <3> SUFFICES ASSUME NEW j \in 1..n
                 PROVE  (left \o right)[j] = pre[j]
      OBVIOUS
    <3>1. CASE j <= margin
      <4>1. left[j] = m_buffer[m_buffer_start + j - 1]
        BY <3>1, <1>2 DEF SlotRun
      <4>2. SlotOf(j - 1) = m_buffer_start + j - 1
        BY <3>1, <1>2 DEF SlotOf
      <4>3. (left \o right)[j] = left[j]
        BY <3>1, <2>3
      <4> HIDE DEF left, right, pre
      <4> QED
        BY <4>1, <4>2, <4>3, <1>1
    <3>2. CASE j > margin
      <4>1. right[j - margin] = m_buffer[0 + (j - margin) - 1]
        BY <3>2, <1>2 DEF SlotRun
      <4>2. SlotOf(j - 1) = 0 + (j - margin) - 1
        BY <3>2, <1>2 DEF SlotOf
      <4>3. (left \o right)[j] = right[j - margin]
        BY <3>2, <2>3, <1>2
      <4>4. pre[j] = m_buffer[SlotOf(j - 1)]
        BY <1>1
      <4> HIDE DEF left, right, pre, margin
      <4> QED
        BY <4>1, <4>2, <4>3, <4>4
    <3>3. j <= margin \/ j > margin
      BY <1>2
    <3> QED
      BY <3>1, <3>2, <3>3
  <2>5. left \o right = pre
    <3> HIDE DEF left, right, pre
    <3> QED
      BY <1>1, <2>3, <2>4, SeqEqual
  <2> QED
    BY <2>5
<1> QED
  BY <1>3, <1>4

(* read copies out the oldest bytes.                                       *)
LEMMA ReadBytesIsPrefix ==
  ASSUME TypeOK, NEW upto \in Nat
  PROVE  /\ ReadBytes(upto) = SubSeq(Contents, 1, MinOf(upto, m_current_size))
         /\ ReadBytes(upto) \in Seq(Byte)
         /\ MinOf(upto, m_current_size) \in Nat
<1>1. MinOf(upto, m_current_size) \in 0..m_current_size
  BY DEF TypeOK, MinOf
<1>2. /\ m_buffer_start \in Int /\ N \in Int
      /\ MinOf(upto, m_current_size) \in Int
  BY <1>1, RingAssumption DEF TypeOK, Slots
<1> DEFINE n == MinOf(upto, m_current_size)
<1> HIDE DEF n
<1>3. ReadBytes(upto) = SubSeq(Contents, 1, n)
  <2>1. CASE N - m_buffer_start > n
    <3>1. N - m_buffer_start >= n
      BY <1>2, <2>1 DEF n
    <3> QED
      BY <1>1, <2>1, <3>1, RunsArePrefix DEF ReadBytes, n
  <2>2. CASE ~(N - m_buffer_start > n)
    <3>1. N - m_buffer_start <= n
      BY <1>2, <2>2 DEF n
    <3> QED
      BY <1>1, <2>2, <3>1, RunsArePrefix DEF ReadBytes, n
  <2> QED
    BY <2>1, <2>2
<1>4. n \in Nat /\ SubSeq(Contents, 1, n) \in Seq(Byte)
  BY <1>1, ContentsSeq DEF n
<1> QED
  BY <1>3, <1>4 DEF n

(* The two views of read_nocopy, put together, are the bytes held.         *)
LEMMA ViewsAreContents ==
  ASSUME TypeOK, read_nocopy
  PROVE  result' = Reply(Len(Contents), Contents)
<1>1. /\ m_current_size \in 0..m_current_size
      /\ m_buffer_start \in Nat /\ N \in Nat /\ m_current_size \in Nat
  BY RingAssumption DEF TypeOK, Slots
<1>2. SubSeq(Contents, 1, m_current_size) = Contents /\ Len(Contents) = m_current_size
  BY ContentsSeq
<1>3. CASE m_current_size > N - m_buffer_start
  <2>1. MinOf(N - m_buffer_start, m_current_size) = N - m_buffer_start
    BY <1>1, <1>3 DEF MinOf
  <2>2. N - m_buffer_start <= m_current_size
    BY <1>1, <1>3
  <2> QED
    BY <1>1, <1>2, <1>3, <2>1, <2>2, RunsArePrefix DEF read_nocopy
<1>4. CASE ~(m_current_size > N - m_buffer_start)
  <2>1. MinOf(N - m_buffer_start, m_current_size) = m_current_size
    BY <1>1, <1>4 DEF MinOf
  <2>2. N - m_buffer_start >= m_current_size
    BY <1>1, <1>4
  <2>3. SlotRun(m_buffer_start, m_current_size) = Contents
    BY <1>1, <1>2, <2>2, RunsArePrefix
  <2>4. Contents \o <<>> = Contents
    BY ContentsSeq
  <2> QED
    BY <1>2, <1>4, <2>1, <2>3, <2>4 DEF read_nocopy
<1> QED
  BY <1>3, <1>4

(* Dropping removes the oldest bytes and leaves the rest in order.         *)
LEMMA AdvanceRemoves ==
  ASSUME TypeOK, NEW n \in Nat, Advance(n)
  PROVE  /\ m_buffer_start' \in Slots /\ m_current_size' \in 0..N /\ m_buffer' = m_buffer
         /\ Contents' = SubSeq(Contents, MinOf(n, m_current_size) + 1, Len(Contents))
<1> DEFINE d == MinOf(n, m_current_size)
<1>1. /\ m_buffer_start \in Nat /\ m_current_size \in Nat /\ N \in Nat
      /\ m_buffer_start < N /\ m_current_size <= N
      /\ d \in Nat /\ d <= m_current_size
  BY RingAssumption DEF TypeOK, Slots, MinOf
<1>2. /\ m_current_size' = m_current_size - d
      /\ m_buffer_start + d >= N => m_buffer_start' = m_buffer_start + d - N
      /\ ~(m_buffer_start + d >= N) => m_buffer_start' = m_buffer_start + d
      /\ m_buffer' = m_buffer
  BY <1>1 DEF Advance
<1> HIDE DEF d
<1>3. m_buffer_start' \in Slots /\ m_current_size' \in 0..N
  BY <1>1, <1>2 DEF Slots
<1>4. \A j \in 1..(m_current_size - d) : SlotOf(j - 1)' = SlotOf(j + d - 1)
  BY <1>1, <1>2 DEF SlotOf
<1>5. Contents' = [j \in 1..(m_current_size - d) |-> m_buffer[SlotOf(j + d - 1)]]
  BY <1>2, <1>4 DEF Contents
<1> DEFINE rest == SubSeq(Contents, d + 1, m_current_size)
<1>6. /\ rest \in Seq(Byte) /\ Len(rest) = m_current_size - d
      /\ \A j \in 1..(m_current_size - d) : rest[j] = Contents[j + d]
  BY <1>1, ContentsSeq
<1>7. rest = [j \in 1..(m_current_size - d) |-> rest[j]]
  <2> HIDE DEF rest
  <2>1. rest \in [1..(m_current_size - d) -> Byte]
    BY <1>6, LenProperties
  <2> QED
    BY <2>1
<1>8. \A j \in 1..(m_current_size - d) : Contents[j + d] = m_buffer[SlotOf(j + d - 1)]
  BY <1>1 DEF Contents
<1>9. rest = Contents'
  <2> HIDE DEF rest
  <2> QED
    BY <1>5, <1>6, <1>7, <1>8
<1> QED
  BY <1>2, <1>3, <1>9, ContentsSeq DEF d

(* memcpy from inside a sequence of bytes leaves bytes in the slots.       *)
LEMMA MemcpyType ==
  ASSUME NEW dst \in [Slots -> Byte], NEW data \in Seq(Byte),
         NEW at \in Nat, NEW from \in Nat, NEW n \in Nat, from + n <= Len(data)
  PROVE  Memcpy(dst, at, data, from, n) \in [Slots -> Byte]
<1>1. ASSUME NEW i \in Slots, i \in at..(at + n - 1)
      PROVE  data[i - at + from + 1] \in Byte
  <2>1. i - at + from + 1 \in 1..Len(data)
    BY <1>1 DEF Slots
  <2> QED
    BY <2>1
<1>2. DOMAIN dst = Slots /\ \A i \in Slots : dst[i] \in Byte
  OBVIOUS
<1> QED
  BY <1>1, <1>2 DEF Memcpy

(* A write that fits as far as it is taken leaves the bytes held where     *)
(* they are and puts the new ones in the slots behind them.                *)
LEMMA WriteSlots ==
  ASSUME TypeOK, NEW data \in Chunks, write(data)
  PROVE  LET n == MinOf(Len(data), N - m_current_size) IN
         /\ n \in Nat /\ n <= Len(data) /\ m_current_size + n <= N
         /\ m_current_size' = m_current_size + n
         /\ m_buffer_start' = m_buffer_start
         /\ result' = Reply(n, <<>>)
         /\ m_buffer' \in [Slots -> Byte]
         /\ \A k \in 0..(m_current_size + n - 1) :
              m_buffer'[SlotOf(k)] = IF k < m_current_size THEN m_buffer[SlotOf(k)]
                                     ELSE data[k - m_current_size + 1]
<1> DEFINE n      == MinOf(Len(data), N - m_current_size)
           offset == m_buffer_start + m_current_size
<1>1. /\ data \in Seq(Byte) /\ Len(data) \in Nat
      /\ \A j \in 1..Len(data) : data[j] \in Byte
  BY ChunkIsSeq
<1>2. /\ m_buffer_start \in Nat /\ m_current_size \in Nat /\ N \in Nat
      /\ m_buffer_start < N /\ m_current_size <= N
      /\ m_buffer \in [Slots -> Byte]
  BY RingAssumption DEF TypeOK, Slots
<1>3. n \in Nat /\ n <= Len(data) /\ m_current_size + n <= N
  BY <1>1, <1>2 DEF MinOf
<1>4. /\ m_current_size' = m_current_size + n
      /\ m_buffer_start' = m_buffer_start
      /\ result' = Reply(n, <<>>)
  BY DEF write, remaining_space
<1>5. \/ /\ offset + n <= N
         /\ m_buffer' = Memcpy(m_buffer, offset, data, 0, n)
      \/ /\ offset + n > N /\ offset < N
         /\ m_buffer' = Memcpy(Memcpy(m_buffer, offset, data, 0, N - offset),
                               0, data, N - offset, n - (N - offset))
      \/ /\ offset + n > N /\ offset >= N
         /\ m_buffer' = Memcpy(m_buffer, offset - N, data, 0, n)
  BY DEF write, remaining_space
<1> HIDE DEF n
<1>6. /\ m_buffer' \in [Slots -> Byte]
      /\ \A k \in 0..(m_current_size + n - 1) :
           m_buffer'[SlotOf(k)] = IF k < m_current_size THEN m_buffer[SlotOf(k)]
                                  ELSE data[k - m_current_size + 1]
  <2>1. CASE /\ offset + n <= N
             /\ m_buffer' = Memcpy(m_buffer, offset, data, 0, n)
    <3>1. m_buffer' = [i \in Slots |-> IF i \in offset..(offset + n - 1)
                                       THEN data[i - offset + 0 + 1] ELSE m_buffer[i]]
      BY <1>2, <2>1 DEF Memcpy
    <3>2. m_buffer' \in [Slots -> Byte]
      BY <1>1, <1>2, <1>3, <2>1, MemcpyType
    <3>3. ASSUME NEW k \in 0..(m_current_size + n - 1)
          PROVE  m_buffer'[SlotOf(k)] = IF k < m_current_size THEN m_buffer[SlotOf(k)]
                                        ELSE data[k - m_current_size + 1]
      BY <1>2, <1>3, <2>1, <3>1 DEF Slots, SlotOf
    <3> QED
      BY <3>2, <3>3
  <2>2. CASE /\ offset + n > N /\ offset < N
             /\ m_buffer' = Memcpy(Memcpy(m_buffer, offset, data, 0, N - offset),
                                   0, data, N - offset, n - (N - offset))
    <3>1. m_buffer' = [i \in Slots |->
                         IF i \in 0..(n - (N - offset) - 1)
                         THEN data[i - 0 + (N - offset) + 1]
                         ELSE IF i \in offset..(N - 1) THEN data[i - offset + 0 + 1]
                         ELSE m_buffer[i]]
      BY <1>2, <1>3, <2>2 DEF Memcpy, Slots
    <3>2. m_buffer' \in [Slots -> Byte]
      <4>1. /\ N - offset \in Nat /\ n - (N - offset) \in Nat /\ offset \in Nat
            /\ 0 + (N - offset) <= Len(data)
            /\ (N - offset) + (n - (N - offset)) <= Len(data)
        BY <1>1, <1>2, <1>3, <2>2
      <4>2. Memcpy(m_buffer, offset, data, 0, N - offset) \in [Slots -> Byte]
        BY <1>1, <1>2, <4>1, MemcpyType
      <4> QED
        BY <1>1, <2>2, <4>1, <4>2, MemcpyType
    <3>3. ASSUME NEW k \in 0..(m_current_size + n - 1)
          PROVE  m_buffer'[SlotOf(k)] = IF k < m_current_size THEN m_buffer[SlotOf(k)]
                                        ELSE data[k - m_current_size + 1]
      BY <1>2, <1>3, <2>2, <3>1 DEF Slots, SlotOf
    <3> QED
      BY <3>2, <3>3
  <2>3. CASE /\ offset + n > N /\ offset >= N
             /\ m_buffer' = Memcpy(m_buffer, offset - N, data, 0, n)
    <3>1. m_buffer' = [i \in Slots |-> IF i \in (offset - N)..(offset - N + n - 1)
                                       THEN data[i - (offset - N) + 0 + 1]
                                       ELSE m_buffer[i]]
      BY <1>2, <2>3 DEF Memcpy
    <3>2. m_buffer' \in [Slots -> Byte]
      <4>1. offset - N \in Nat
        BY <1>2, <2>3
      <4> QED
        BY <1>1, <1>2, <1>3, <2>3, <4>1, MemcpyType
    <3>3. ASSUME NEW k \in 0..(m_current_size + n - 1)
          PROVE  m_buffer'[SlotOf(k)] = IF k < m_current_size THEN m_buffer[SlotOf(k)]
                                        ELSE data[k - m_current_size + 1]
      BY <1>2, <1>3, <2>3, <3>1 DEF Slots, SlotOf
    <3> QED
      BY <3>2, <3>3
  <2> QED
    BY <1>5, <2>1, <2>2, <2>3
<1> QED
  BY <1>3, <1>4, <1>6 DEF n

(* A write appends what it takes to the bytes held.                        *)
LEMMA WriteAppends ==
  ASSUME TypeOK, NEW data \in Chunks, write(data)
  PROVE  /\ TypeOK'
         /\ Contents' = Contents \o SubSeq(data, 1, MinOf(Len(data), N - Len(Contents)))
         /\ result' = Reply(MinOf(Len(data), N - Len(Contents)), <<>>)
         /\ \A i \in Occupied : m_buffer'[i] = m_buffer[i]
<1> DEFINE n == MinOf(Len(data), N - m_current_size)
<1>1. /\ n \in Nat /\ n <= Len(data) /\ m_current_size + n <= N
      /\ m_current_size' = m_current_size + n
      /\ m_buffer_start' = m_buffer_start
      /\ result' = Reply(n, <<>>)
      /\ m_buffer' \in [Slots -> Byte]
      /\ \A k \in 0..(m_current_size + n - 1) :
           m_buffer'[SlotOf(k)] = IF k < m_current_size THEN m_buffer[SlotOf(k)]
                                  ELSE data[k - m_current_size + 1]
  BY WriteSlots
<1> HIDE DEF n
<1>2. /\ Contents \in Seq(Byte) /\ Len(Contents) = m_current_size
      /\ m_current_size \in Nat
  BY ContentsSeq
<1>3. data \in Seq(Byte) /\ Len(data) \in Nat
  BY ChunkIsSeq
<1>4. TypeOK'
  <2>1. m_current_size' \in 0..N
    BY <1>1, <1>2, RingAssumption
  <2>2. result' \in [count : Nat, bytes : Seq(Byte)]
    BY <1>1 DEF Reply
  <2> QED
    BY <1>1, <2>1, <2>2 DEF TypeOK
<1>5. \A i \in Occupied : m_buffer'[i] = m_buffer[i]
  BY <1>1, <1>2 DEF Occupied
<1>6. \A k \in 0..(m_current_size + n - 1) : SlotOf(k)' = SlotOf(k)
  BY <1>1 DEF SlotOf
<1>7. Contents' = [j \in 1..(m_current_size + n) |-> m_buffer'[SlotOf(j - 1)]]
  BY <1>1, <1>2, <1>6 DEF Contents
<1> DEFINE new  == SubSeq(data, 1, n)
           both == Contents \o new
<1>8. /\ new \in Seq(Byte) /\ Len(new) = n
      /\ \A j \in 1..n : new[j] = data[j]
  BY <1>1, <1>3
<1>9. /\ both \in Seq(Byte)
      /\ Len(both) = m_current_size + n
      /\ \A j \in 1..(m_current_size + n) :
           both[j] = IF j <= m_current_size THEN Contents[j] ELSE new[j - m_current_size]
  <2> HIDE DEF new
  <2>1. n \in Nat /\ m_current_size \in Nat
    BY <1>1, <1>2
  <2> QED
    BY <2>1, <1>2, <1>8, ConcatProperties
<1>10. \A j \in 1..(m_current_size + n) : both[j] = m_buffer'[SlotOf(j - 1)]
  <2> HIDE DEF new, both
  <2> SUFFICES ASSUME NEW j \in 1..(m_current_size + n)
               PROVE  both[j] = m_buffer'[SlotOf(j - 1)]
    OBVIOUS
  <2>1. CASE j <= m_current_size
    <3>1. Contents[j] = m_buffer[SlotOf(j - 1)]
      BY <1>2, <2>1 DEF Contents
    <3>2. j - 1 \in 0..(m_current_size + n - 1) /\ j - 1 < m_current_size
      BY <1>1, <1>2, <2>1
    <3> QED
      BY <1>1, <1>9, <2>1, <3>1, <3>2
  <2>2. CASE ~(j <= m_current_size)
    <3>1. /\ j - 1 \in 0..(m_current_size + n - 1) /\ ~(j - 1 < m_current_size)
          /\ j - m_current_size \in 1..n
          /\ j - 1 - m_current_size + 1 = j - m_current_size
      BY <1>1, <1>2, <2>2
    <3>2. m_buffer'[SlotOf(j - 1)] = data[j - m_current_size]
      BY <1>1, <3>1
    <3> QED
      BY <1>8, <1>9, <2>2, <3>1, <3>2
  <2> QED
    BY <2>1, <2>2
<1>11. both = Contents'
  <2> HIDE DEF both
  <2>1. both \in [1..(m_current_size + n) -> Byte]
    BY <1>9, LenProperties
  <2> QED
    BY <1>7, <1>10, <2>1
<1> QED
  BY <1>1, <1>2, <1>4, <1>5, <1>11 DEF n

-----------------------------------------------------------------------------
(* The theorems.                                                           *)

(* Every operation keeps the state well formed: the start and the size     *)
(* stay in range whatever is written, taken and dropped.                   *)
LEMMA TypeStep == TypeOK /\ [Next]_vars => TypeOK'
<1> SUFFICES ASSUME TypeOK, [Next]_vars
             PROVE  TypeOK'
  OBVIOUS
<1>1. ASSUME NEW n \in Nat, read(n)
      PROVE  TypeOK'
  <2>1. ReadBytes(n) \in Seq(Byte) /\ MinOf(n, m_current_size) \in Nat
    BY ReadBytesIsPrefix
  <2> QED
    BY <1>1, <2>1 DEF read, state, TypeOK, Reply
<1>2. ASSUME NEW n \in Nat, take(n)
      PROVE  TypeOK'
  <2>1. ReadBytes(n) \in Seq(Byte) /\ MinOf(n, m_current_size) \in Nat
    BY ReadBytesIsPrefix
  <2>2. Advance(MinOf(n, m_current_size)) /\ result' = Reply(MinOf(n, m_current_size), ReadBytes(n))
    BY <1>2 DEF take
  <2>3. m_buffer_start' \in Slots /\ m_current_size' \in 0..N /\ m_buffer' = m_buffer
    BY <2>1, <2>2, AdvanceRemoves
  <2> QED
    BY <2>1, <2>2, <2>3 DEF TypeOK, Reply
<1>3. ASSUME NEW n \in Nat, drop(n)
      PROVE  TypeOK'
  <2>1. MinOf(n, m_current_size) \in Nat
    BY DEF MinOf, TypeOK
  <2>2. Advance(n) /\ result' = Reply(MinOf(n, m_current_size), <<>>)
    BY <1>3 DEF drop
  <2>3. m_buffer_start' \in Slots /\ m_current_size' \in 0..N /\ m_buffer' = m_buffer
    BY <2>2, AdvanceRemoves
  <2> QED
    BY <2>1, <2>2, <2>3 DEF TypeOK, Reply
<1>4. ASSUME NEW data \in Chunks, write(data)
      PROVE  TypeOK'
  BY <1>4, WriteAppends
<1>5. CASE read_nocopy
  <2>1. result' = Reply(Len(Contents), Contents)
    BY <1>5, ViewsAreContents
  <2>2. result' \in [count : Nat, bytes : Seq(Byte)]
    BY <2>1, ContentsSeq DEF Reply
  <2>3. UNCHANGED state
    BY <1>5 DEF read_nocopy
  <2> QED
    BY <2>2, <2>3 DEF state, TypeOK
<1>6. CASE UNCHANGED vars
  BY <1>6 DEF vars, TypeOK
<1>7. 0..(MaxChunk + N) \subseteq Nat /\ 1 \in Nat /\ m_current_size \in Nat
  BY RingAssumption DEF TypeOK
<1> QED
  BY <1>1, <1>2, <1>3, <1>4, <1>5, <1>6, <1>7, ByteIsChunk
  DEF Next, push, pop, head, clear

(* The start and the size stay in range and every slot holds a byte.       *)
THEOREM RingTypeCorrect == Spec => []TypeOK
<1>1. Init => TypeOK
  BY RingAssumption DEF Init, TypeOK, Slots, Reply
<1> QED
  BY <1>1, TypeStep, PTL DEF Spec

(* No operation of the buffer changes a byte that is held in a slot.       *)
THEOREM RingViewsStayGood == Spec => ViewsStayGood
<1>1. TypeOK /\ [Next]_vars => [\A i \in Occupied : m_buffer'[i] = m_buffer[i]]_vars
  <2> SUFFICES ASSUME TypeOK, Next
               PROVE  \A i \in Occupied : m_buffer'[i] = m_buffer[i]
    OBVIOUS
  <2>1. ASSUME NEW data \in Chunks, write(data)
        PROVE  \A i \in Occupied : m_buffer'[i] = m_buffer[i]
    BY <2>1, WriteAppends
  <2>2. CASE m_buffer' = m_buffer
    BY <2>2
  <2> QED
    BY <2>1, <2>2, ByteIsChunk
    DEF Next, push, pop, head, clear, read, take, drop, read_nocopy, Advance, state
<1> QED
  BY <1>1, RingTypeCorrect, PTL DEF Spec, ViewsStayGood

(* What an operation returns and leaves is what the bounded queue would:   *)
(* the ring buffer implements Fifo, for every capacity.                    *)
THEOREM RingImplementsFifo == Spec => ImplementsFifo
<1>1. Init => Queue!Init
  BY DEF Init, Queue!Init, Contents, Reply, Queue!Reply
<1>2. TypeOK /\ [Next]_vars => [Queue!Next]_(Queue!vars)
  <2> SUFFICES ASSUME TypeOK, [Next]_vars
               PROVE  Queue!Next \/ (Contents' = Contents /\ result' = result)
    BY DEF Queue!vars
  <2> USE DEF MinOf, Queue!MinOf, Reply, Queue!Reply
  <2>0. Len(Contents) = m_current_size /\ m_current_size \in Nat
    BY ContentsSeq
  <2>1. ASSUME NEW data \in Chunks, write(data)
        PROVE  Queue!Next
    <3>1. Queue!Accept(data)
      BY <2>1, WriteAppends DEF Queue!Accept
    <3> QED
      BY <3>1 DEF Queue!Next, Chunks, Queue!Chunks
  <2>2. ASSUME NEW n \in 0..(MaxChunk + N), read(n)
        PROVE  Queue!Next
    <3>1. n \in Nat
      BY RingAssumption
    <3>2. Contents' = Contents
      BY <2>2 DEF read, state, Contents, SlotOf
    <3>3. Queue!Peek(n)
      BY <2>0, <2>2, <3>1, <3>2, ReadBytesIsPrefix DEF read, Queue!Peek
    <3> QED
      BY <3>3 DEF Queue!Next
  <2>3. ASSUME NEW n \in 0..(MaxChunk + N), take(n)
        PROVE  Queue!Next
    <3> DEFINE m == MinOf(n, m_current_size)
    <3>1. n \in Nat /\ m \in Nat /\ MinOf(m, m_current_size) = m
      BY <2>0, RingAssumption
    <3>2. Advance(m) /\ result' = Reply(m, ReadBytes(n))
      BY <2>3 DEF take
    <3>3. Contents' = SubSeq(Contents, m + 1, Len(Contents))
      BY <3>1, <3>2, AdvanceRemoves
    <3>4. Queue!Remove(n)
      BY <2>0, <3>1, <3>2, <3>3, ReadBytesIsPrefix DEF Queue!Remove
    <3> QED
      BY <3>4 DEF Queue!Next
  <2>4. ASSUME NEW n \in 0..(MaxChunk + N), drop(n)
        PROVE  Queue!Next
    <3>1. n \in Nat
      BY RingAssumption
    <3>2. Contents' = SubSeq(Contents, MinOf(n, m_current_size) + 1, Len(Contents))
      BY <2>4, <3>1, AdvanceRemoves DEF drop
    <3>3. Queue!Discard(n)
      BY <2>0, <2>4, <3>2 DEF drop, Queue!Discard
    <3> QED
      BY <3>3 DEF Queue!Next
  <2>5. CASE read_nocopy
    <3>1. result' = Reply(m_current_size, Contents)
      BY <2>0, <2>5, ViewsAreContents
    <3>2. Contents' = Contents
      BY <2>5 DEF read_nocopy, state, Contents, SlotOf
    <3>3. SubSeq(Contents, 1, m_current_size) = Contents
      BY ContentsSeq
    <3>4. Queue!Peek(m_current_size)
      BY <2>0, <3>1, <3>2, <3>3 DEF Queue!Peek
    <3>5. m_current_size \in 0..(MaxChunk + N)
      BY RingAssumption DEF TypeOK
    <3> QED
      BY <3>4, <3>5 DEF Queue!Next
  <2>6. CASE UNCHANGED vars
    BY <2>6 DEF vars, Contents, SlotOf
  <2>7. 1 \in 0..(MaxChunk + N) /\ m_current_size \in 0..(MaxChunk + N)
    BY RingAssumption DEF TypeOK
  <2> QED
    BY <2>1, <2>2, <2>3, <2>4, <2>5, <2>6, <2>7, ByteIsChunk
    DEF Next, push, pop, head, clear
<1> QED
  BY <1>1, <1>2, RingTypeCorrect, PTL DEF Spec, ImplementsFifo, Queue!Spec

=============================================================================
