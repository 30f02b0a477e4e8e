--------------------------- MODULE KeyboardProofs ---------------------------
(***************************************************************************)
(* For every number of keys, processes and places in the file: a process   *)
(* reads what was typed after it opened the file, each key once and in     *)
(* order, although the handler types into the file at any time; the driver *)
(* is sent no key before the answers that it awaits, leaves the keyboard   *)
(* in set 3 and decodes every letter that is typed.                        *)
(***************************************************************************)
EXTENDS Keyboard, TLAPS, SequenceTheorems, FiniteSetTheorems

Increasing(s) == \A i, j \in 1..Len(s) : i < j => s[i] < s[j]

Calls == {NoCall} \cup [op: {"open", "close"}] \cup [op: {"read"}, length: 1..BufferSize]

KeyboardType ==
  /\ m_shift_count \in 0..255
  /\ delivered \in Seq(Keys \X BOOLEAN)
  /\ m_buffer \in Seq(Nat) /\ got \in Seq(Nat)
  /\ openedAt \in Nat
  /\ call \in Calls

(* What was read and what will be is in the order in which it came,        *)
(* whoever owns the file.  While the file is being opened what was typed   *)
(* before may still be in it, but nothing was read.                        *)
KeysInv ==
  /\ KeyboardType
  /\ openedAt <= Len(delivered)
  /\ LET seen == got \o m_buffer
     IN /\ Increasing(seen)
        /\ \A i \in 1..Len(seen) : seen[i] <= Len(delivered)
        /\ m_owning_pid # 0 /\ call.op # "open" =>
             \A i \in 1..Len(seen) : seen[i] > openedAt
  /\ call.op = "open" => got = <<>>

(* The invariant says what the owner reads.                                *)
LEMMA InvInOrder == KeysInv => OwnKeysInOrder
BY DEF KeysInv, OwnKeysInOrder, Increasing

(* Where two queues are cut does not matter.                               *)
LEMMA Brackets ==
  ASSUME NEW a \in Seq(Nat), NEW b \in Seq(Nat), NEW c \in Seq(Nat)
  PROVE  (a \o b) \o c = a \o (b \o c)
BY ConcatAssociative, SMTT(60)

(* A queue that is cut at k is the two pieces.                             *)
LEMMA Cut ==
  ASSUME NEW t \in Seq(Nat), NEW k \in Nat, k <= Len(t)
  PROVE  /\ SubSeq(t, 1, k) \in Seq(Nat) /\ Len(SubSeq(t, 1, k)) = k
         /\ SubSeq(t, k + 1, Len(t)) \in Seq(Nat)
         /\ SubSeq(t, 1, k) \o SubSeq(t, k + 1, Len(t)) = t
<1>1. 1 \in 1..(Len(t) + 1) /\ k \in (1 - 1)..Len(t) /\ Len(t) \in k..Len(t)
  OBVIOUS
<1>2. SubSeq(t, 1, k) \o SubSeq(t, k + 1, Len(t)) = SubSeq(t, 1, Len(t))
  BY <1>1, ConcatAdjacentSubSeq, Zenon
<1>3. SubSeq(t, 1, Len(t)) = t
  OBVIOUS
<1>4. SubSeq(t, 1, k) \in Seq(Nat) /\ Len(SubSeq(t, 1, k)) = k
  OBVIOUS
<1>5. SubSeq(t, k + 1, Len(t)) \in Seq(Nat)
  OBVIOUS
<1> QED
  BY <1>2, <1>3, <1>4, <1>5, Zenon

(* What is behind the keys that are taken follows them.                    *)
LEMMA TakenInOrder ==
  ASSUME NEW s \in Seq(Nat), NEW t \in Seq(Nat), NEW n \in Nat
  PROVE  LET taken == TakeUpTo(t, n)
             rest == SubSeq(t, Len(taken) + 1, Len(t))
         IN /\ taken \in Seq(Nat) /\ rest \in Seq(Nat)
            /\ (s \o taken) \o rest = s \o t
<1> DEFINE k == IF n < Len(t) THEN n ELSE Len(t)
           taken == SubSeq(t, 1, k)
           rest == SubSeq(t, k + 1, Len(t))
<1>1. k \in Nat /\ k <= Len(t)
  OBVIOUS
<1> HIDE DEF k
<1>2. taken \in Seq(Nat) /\ Len(taken) = k /\ rest \in Seq(Nat) /\ taken \o rest = t
  BY <1>1, Cut, Zenon
<1> HIDE DEF taken, rest
<1>3. (s \o taken) \o rest = s \o (taken \o rest)
  BY <1>2, Brackets, ZenonT(60)
<1>4. (s \o taken) \o rest = s \o t
  BY <1>2, <1>3, Zenon
<1>5. TakeUpTo(t, n) = taken
  BY DEF TakeUpTo, taken, k
<1>6. rest = SubSeq(t, Len(taken) + 1, Len(t))
  BY <1>2, Zenon DEF rest
<1> QED
  BY <1>2, <1>4, <1>5, <1>6, Zenon

(* A number above all that are there, behind them.                         *)
LEMMA OneMore ==
  ASSUME NEW u \in Seq(Nat), NEW v \in Seq(Nat), NEW n \in Nat,
         Increasing(u), Len(v) = Len(u) + 1, v[Len(u) + 1] = n + 1,
         \A i \in 1..Len(u) : v[i] = u[i] /\ u[i] <= n
  PROVE  /\ Increasing(v)
         /\ \A i \in 1..Len(v) : v[i] <= n + 1
         /\ \A i \in 1..Len(v) : (i \in 1..Len(u) /\ v[i] = u[i]) \/ v[i] = n + 1
<1>1. Len(u) \in Nat
  OBVIOUS
<1>2. \A i \in 1..Len(v) : i \in 1..Len(u) \/ i = Len(u) + 1
  BY <1>1
<1>3. \A i \in 1..Len(u) : u[i] \in Nat
  OBVIOUS
<1>4. Increasing(v)
  <2> SUFFICES ASSUME NEW i \in 1..Len(v), NEW j \in 1..Len(v), i < j
               PROVE  v[i] < v[j]
    BY DEF Increasing
  <2>1. i \in 1..Len(u)
    BY <1>1
  <2>2. CASE j \in 1..Len(u)
    BY <2>1, <2>2 DEF Increasing
  <2>3. CASE j = Len(u) + 1
    BY <1>3, <2>1, <2>3
  <2> QED
    BY <1>2, <2>2, <2>3
<1>5. ASSUME NEW i \in 1..Len(v)
      PROVE  v[i] <= n + 1 /\ ((i \in 1..Len(u) /\ v[i] = u[i]) \/ v[i] = n + 1)
  <2>1. CASE i \in 1..Len(u)
    BY <1>3, <2>1
  <2>2. CASE i = Len(u) + 1
    BY <2>2
  <2> QED
    BY <1>2, <2>1, <2>2
<1> QED
  BY <1>4, <1>5

(* A key that comes is behind all that are there.                          *)
LEMMA KeyComesLast ==
  ASSUME NEW s \in Seq(Nat), NEW t \in Seq(Nat), NEW n \in Nat,
         Increasing(s \o t), \A i \in 1..Len(s \o t) : (s \o t)[i] <= n
  PROVE  LET seen == s \o Append(t, n + 1)
         IN /\ Increasing(seen)
            /\ \A i \in 1..Len(seen) : seen[i] <= n + 1
            /\ \A i \in 1..Len(seen) :
                 (i \in 1..Len(s \o t) /\ seen[i] = (s \o t)[i]) \/ seen[i] = n + 1
<1> DEFINE u == s \o t
           seen == s \o Append(t, n + 1)
<1>1. /\ u \in Seq(Nat) /\ seen \in Seq(Nat) /\ Len(seen) = Len(u) + 1
      /\ seen[Len(u) + 1] = n + 1
  OBVIOUS
<1>2. \A i \in 1..Len(u) : seen[i] = u[i] /\ u[i] <= n
  OBVIOUS
<1>3. Increasing(u)
  BY DEF u
<1> HIDE DEF u, seen
<1>4. /\ Increasing(seen)
      /\ \A i \in 1..Len(seen) : seen[i] <= n + 1
      /\ \A i \in 1..Len(seen) : (i \in 1..Len(u) /\ seen[i] = u[i]) \/ seen[i] = n + 1
  BY <1>1, <1>2, <1>3, OneMore, Zenon
<1> QED
  BY <1>4 DEF u, seen

(* Nothing was typed at first.                                             *)
LEMMA KeysInit == Init => KeysInv
BY DEF Init, KeysInv, KeyboardType, Calls, Increasing, NoCall

(* What feed_scancode makes of a byte: at most one key.                    *)
LEMMA FedIs ==
  ASSUME KeyboardType, NEW code
  PROVE  /\ Fed(code).shift \in 0..255
         /\ \/ Fed(code).key = <<>>
            \/ /\ code \in Letters
               /\ Fed(code).key = <<with_shift(code, m_shift_count > 0)>>
<1>1. m_shift_count \in 0..255
  BY DEF KeyboardType
<1>2. /\ (m_shift_count + 1) % 256 \in 0..255
      /\ (m_shift_count - 1) % 256 \in 0..255
  BY <1>1
<1>3. \/ /\ Fed(code).key = <<>>
         /\ Fed(code).shift \in {m_shift_count, (m_shift_count + 1) % 256,
                                (m_shift_count - 1) % 256}
      \/ /\ code \in Letters /\ Fed(code).shift = m_shift_count
         /\ Fed(code).key = <<with_shift(code, m_shift_count > 0)>>
  BY DEF Fed, After, HasCharacter
<1> QED
  BY <1>1, <1>2, <1>3, ZenonT(60)

(* The handler types a key into the file, or does not touch it.            *)
LEMMA HandlerStep ==
  ASSUME KeysInv, handle_message
  PROVE  KeysInv'
<1> DEFINE message == Head(toHost)
<1>1. UNCHANGED <<m_owning_pid, call, got, openedAt>>
  BY DEF handle_message
<1>2. CASE UNCHANGED <<m_shift_count, m_buffer, delivered>>
  BY <1>1, <1>2 DEF KeysInv, KeyboardType
<1>3. CASE feed_scancode(message)
  <2> DEFINE fed == Fed(message)
             key == with_shift(message, m_shift_count > 0)
  <2>1. /\ m_shift_count' = fed.shift /\ delivered' = delivered \o fed.key
        /\ IF fed.key = <<>> THEN m_buffer' = m_buffer ELSE key_trigger
    BY <1>3 DEF feed_scancode
  <2>2. /\ fed.shift \in 0..255
        /\ fed.key = <<>> \/ (message \in Letters /\ fed.key = <<key>>)
    BY FedIs DEF KeysInv
  <2> HIDE DEF fed
  <2>3. CASE fed.key = <<>>
    <3>1. delivered' = delivered
      BY <2>1, <2>3 DEF KeysInv, KeyboardType
    <3> QED
      BY <1>1, <2>1, <2>2, <2>3, <3>1 DEF KeysInv, KeyboardType
  <2>4. CASE message \in Letters /\ fed.key = <<key>>
    <3>1. key \in Keys \X BOOLEAN
      <4>1. message \in Keys /\ (m_shift_count > 0) \in BOOLEAN
        BY <2>4 DEF Keys, KeysInv, KeyboardType
      <4> HIDE DEF message
      <4> QED
        BY <4>1 DEF with_shift
    <3> HIDE DEF key
    <3>2. delivered' \in Seq(Keys \X BOOLEAN) /\ Len(delivered') = Len(delivered) + 1
      BY <2>1, <2>4, <3>1 DEF KeysInv, KeyboardType
    <3>3. Len(delivered) \in Nat
      BY DEF KeysInv, KeyboardType
    <3>4. m_buffer' = m_buffer \/ m_buffer' = Append(m_buffer, Len(delivered) + 1)
      BY <2>1, <2>4 DEF key_trigger
    <3>5. KeyboardType'
      <4>1. KeyboardType
        BY DEF KeysInv
      <4>2. m_buffer' \in Seq(Nat) /\ m_shift_count' \in 0..255
        <5>1. Len(delivered) + 1 \in Nat /\ m_buffer \in Seq(Nat)
          BY <3>3, <4>1 DEF KeyboardType
        <5>2. m_buffer' \in Seq(Nat)
          BY <3>4, <5>1
        <5> QED
          BY <2>1, <2>2, <5>2
      <4> QED
        BY <1>1, <3>2, <4>1, <4>2 DEF KeyboardType
    <3>6. CASE m_buffer' = m_buffer
      <4>1. openedAt <= Len(delivered') /\ openedAt \in Nat
        BY <3>2, <3>3 DEF KeysInv, KeyboardType
      <4> DEFINE seen == got \o m_buffer
      <4>2. seen \in Seq(Nat) /\ \A i \in 1..Len(seen) : seen[i] <= Len(delivered)
        BY DEF KeysInv, KeyboardType
      <4>3. got' \o m_buffer' = seen
        BY <1>1, <3>6
      <4>4. Increasing(seen) /\ (call.op = "open" => got = <<>>)
            /\ (m_owning_pid # 0 /\ call.op # "open" =>
                  \A i \in 1..Len(seen) : seen[i] > openedAt)
        BY DEF KeysInv
      <4> HIDE DEF seen
      <4>5. \A i \in 1..Len(seen) : seen[i] <= Len(delivered')
        BY <3>2, <3>3, <4>2
      <4> QED
        BY <1>1, <3>5, <4>1, <4>3, <4>4, <4>5 DEF KeysInv
    <3>7. CASE m_buffer' = Append(m_buffer, Len(delivered) + 1)
      <4> DEFINE seen == got \o m_buffer
                 after == got' \o m_buffer'
      <4>1. /\ Increasing(after)
            /\ \A i \in 1..Len(after) : after[i] <= Len(delivered) + 1
            /\ \A i \in 1..Len(after) :
                 (i \in 1..Len(seen) /\ after[i] = seen[i]) \/ after[i] = Len(delivered) + 1
        BY <1>1, <3>3, <3>7, KeyComesLast DEF KeysInv, KeyboardType
      <4>2. openedAt <= Len(delivered) /\ openedAt \in Nat
        BY DEF KeysInv, KeyboardType
      <4>3. m_owning_pid # 0 /\ call.op # "open" => \A i \in 1..Len(seen) : seen[i] > openedAt
        BY DEF KeysInv
      <4> HIDE DEF seen
      <4>4. m_owning_pid # 0 /\ call.op # "open" => \A i \in 1..Len(after) : after[i] > openedAt
        BY <3>3, <4>1, <4>2, <4>3
      <4>5. call.op = "open" => got = <<>>
        BY DEF KeysInv
      <4> QED
        BY <1>1, <3>2, <3>3, <3>5, <4>1, <4>2, <4>4, <4>5 DEF KeysInv
    <3> QED
      BY <3>4, <3>6, <3>7
  <2> QED
    BY <2>2, <2>3, <2>4
<1>4. CASE handle_acknowledgement(message)
  BY <1>2, <1>4 DEF handle_acknowledgement
<1> QED
  BY <1>3, <1>4 DEF handle_message

(* Taking keys out of the file gives them to the reader.                   *)
LEMMA ReadStep ==
  ASSUME KeysInv, ReadEnd
  PROVE  KeysInv'
<1> DEFINE taken == TakeUpTo(m_buffer, call.length)
           rest == SubSeq(m_buffer, Len(taken) + 1, Len(m_buffer))
<1>1. /\ got' = got \o taken /\ m_buffer' = rest /\ call' = NoCall
      /\ UNCHANGED <<m_shift_count, m_owning_pid, openedAt, delivered>>
  BY DEF ReadEnd, driver
<1>2. call.length \in Nat
  BY DEF ReadEnd, KeysInv, KeyboardType, Calls, NoCall
<1>3. /\ taken \in Seq(Nat) /\ rest \in Seq(Nat)
      /\ (got \o taken) \o rest = got \o m_buffer
  BY <1>2, TakenInOrder DEF KeysInv, KeyboardType
<1> HIDE DEF taken, rest
<1>4. got' \o m_buffer' = got \o m_buffer /\ got' \in Seq(Nat)
  BY <1>1, <1>3 DEF KeysInv, KeyboardType
<1>5. call.op # "open" /\ call'.op # "open" /\ call' \in Calls
  BY <1>1 DEF ReadEnd, NoCall, Calls
<1> QED
  BY <1>1, <1>3, <1>4, <1>5 DEF KeysInv, KeyboardType

(* Opening empties the file before the owner reads; closing empties both.  *)
LEMMA CallStep ==
  ASSUME KeysInv,
         \/ \E pid \in Pids : OpenStart(pid) \/ CloseStart(pid)
         \/ \E length \in 1..BufferSize : ReadStart(length)
         \/ OpenEnd \/ CloseEnd
  PROVE  KeysInv'
<1> USE DEF KeysInv, KeyboardType, driver
<1>1. CASE \E pid \in Pids : OpenStart(pid)
  <2>1. /\ call' = [op |-> "open"] /\ got' = <<>> /\ openedAt' = Len(delivered)
        /\ UNCHANGED <<m_shift_count, m_buffer, delivered>>
    BY <1>1 DEF OpenStart
  <2>2. call' \in Calls /\ call'.op = "open"
    BY <2>1 DEF Calls
  <2>3. /\ Increasing(got' \o m_buffer')
        /\ \A i \in 1..Len(got' \o m_buffer') : (got' \o m_buffer')[i] <= Len(delivered)
    <3>1. got' \o m_buffer' = m_buffer
      BY <2>1
    <3> DEFINE seen == got \o m_buffer
               n == Len(got)
    <3>2. /\ n \in Nat /\ Len(seen) = n + Len(m_buffer) /\ Len(m_buffer) \in Nat
          /\ \A i \in 1..Len(m_buffer) : m_buffer[i] = seen[n + i]
      OBVIOUS
    <3>3. Increasing(seen) /\ \A i \in 1..Len(seen) : seen[i] <= Len(delivered)
      OBVIOUS
    <3> HIDE DEF seen, n
    <3>4. \A i \in 1..Len(m_buffer) : n + i \in 1..Len(seen)
      BY <3>2
    <3>5. Increasing(m_buffer)
      <4> SUFFICES ASSUME NEW i \in 1..Len(m_buffer), NEW j \in 1..Len(m_buffer), i < j
                   PROVE  m_buffer[i] < m_buffer[j]
        BY DEF Increasing
      <4>1. n + i \in 1..Len(seen) /\ n + j \in 1..Len(seen) /\ n + i < n + j
        BY <3>2, <3>4
      <4>2. seen[n + i] < seen[n + j]
        BY <3>3, <4>1 DEF Increasing
      <4> QED
        BY <3>2, <4>2
    <3> QED
      BY <3>1, <3>2, <3>3, <3>4, <3>5
  <2> QED
    BY <2>1, <2>2, <2>3
<1>2. CASE \E pid \in Pids : CloseStart(pid)
  <2>1. /\ call' = [op |-> "close"] /\ call.op # "open"
        /\ UNCHANGED <<m_shift_count, m_owning_pid, m_buffer, got, openedAt, delivered>>
    BY <1>2 DEF CloseStart, NoCall
  <2>2. call' \in Calls /\ call'.op # "open"
    BY <2>1 DEF Calls
  <2> QED
    BY <2>1, <2>2
<1>3. CASE \E length \in 1..BufferSize : ReadStart(length)
  <2>1. PICK length \in 1..BufferSize : call' = [op |-> "read", length |-> length]
    BY <1>3 DEF ReadStart
  <2>2. /\ call.op # "open"
        /\ UNCHANGED <<m_shift_count, m_owning_pid, m_buffer, got, openedAt, delivered>>
    BY <1>3 DEF ReadStart, NoCall
  <2>3. call' \in Calls /\ call'.op # "open"
    BY <2>1 DEF Calls
  <2> QED
    BY <2>2, <2>3
<1>4. CASE OpenEnd
  <2>1. /\ call' = NoCall /\ m_buffer' = <<>> /\ got = <<>>
        /\ UNCHANGED <<m_shift_count, m_owning_pid, got, openedAt, delivered>>
    BY <1>4 DEF OpenEnd
  <2>2. call' \in Calls /\ call'.op # "open"
    BY <2>1 DEF Calls, NoCall
  <2>3. Len(got' \o m_buffer') = 0
    BY <2>1
  <2> QED
    BY <2>1, <2>2, <2>3 DEF Increasing
<1>5. CASE CloseEnd
  <2>1. /\ call' = NoCall /\ m_buffer' = <<>> /\ got' = <<>> /\ openedAt' = 0
        /\ UNCHANGED <<m_shift_count, delivered>>
    BY <1>5 DEF CloseEnd
  <2>2. call' \in Calls /\ call'.op # "open"
    BY <2>1 DEF Calls, NoCall
  <2>3. Len(got' \o m_buffer') = 0
    BY <2>1
  <2> QED
    BY <2>1, <2>2, <2>3 DEF Increasing
<1> QED
  BY <1>1, <1>2, <1>3, <1>4, <1>5

(* Every step keeps the order; the keyboard itself touches no file.        *)
LEMMA KeysStep ==
  ASSUME KeysInv, [Next]_vars
  PROVE  KeysInv'
<1>1. CASE UNCHANGED <<m_shift_count, file, delivered>>
  BY <1>1 DEF KeysInv, KeyboardType, file
<1>2. CASE KeyboardObeys \/ KeyboardAsksAgain
  BY <1>1, <1>2 DEF KeyboardObeys, KeyboardAsksAgain, KeyboardAnswers, driver
<1>3. CASE \E key \in Keys : Press(key) \/ Release(key)
  BY <1>1, <1>3 DEF Press, Release, driver
<1>4. CASE UNCHANGED vars
  BY <1>1, <1>4 DEF vars, driver
<1> QED
  BY <1>2, <1>3, <1>4, HandlerStep, ReadStep, CallStep DEF Next

LEMMA KeysAlways == Spec => []KeysInv
<1>1. Init => KeysInv
  BY KeysInit
<1>2. KeysInv /\ [Next]_vars => KeysInv'
  BY KeysStep
<1> QED
  BY <1>1, <1>2, PTL DEF Spec

(* A process reads its own keys, in order.                                 *)
THEOREM KeysInOrder == Spec => []OwnKeysInOrder
BY InvInOrder, KeysAlways, PTL

-----------------------------------------------------------------------------
(* The conversation with the keyboard.                                     *)

Answers == {"ack", "resend"}
Bytes == Keys \cup Answers \cup {"release"}
Enabling == <<"enable_scanning">>

OnlyAnswers(q) == \A k \in 1..Len(q) : q[k] \in Answers

(* An acknowledgement comes, and nothing but answers before it.            *)
AckComes(q) == \E i \in 1..Len(q) : q[i] = "ack" /\ \A j \in 1..i : q[j] \in Answers

(* Until scanning is enabled nothing but answers comes, and the answer to  *)
(* that command, which the driver awaits, comes before the first key.      *)
TalkInv ==
  /\ toDevice \in Seq(Commands) /\ toHost \in Seq(Bytes)
  /\ m_command_queue \in {Start, Enabling, <<>>}
  /\ m_state \in {"ExpectingAck", "ExpectingKeyCode", "Relase"}
  /\ m_state = "ExpectingAck" <=> m_command_queue # <<>>
  /\ device \in [set: {2, 3}, scanning: BOOLEAN, parameter: BOOLEAN]
  /\ m_command_queue = Start =>
       /\ OnlyAnswers(toHost) /\ ~device.scanning
       /\ \A k \in 1..Len(toDevice) : toDevice[k] # "enable_scanning"
  /\ m_command_queue = Enabling =>
       (OnlyAnswers(toHost) /\ ~device.scanning) \/ AckComes(toHost)
  /\ held # {} => device.scanning

(* What is sent for each state of the queue.                               *)
LEMMA Queues ==
  /\ Acknowledged(Start) = Enabling /\ Acknowledged(Enabling) = <<>>
  /\ CommandBytes(Start) = <<"set_scancode_set", "three">>
  /\ CommandBytes(Enabling) = Enabling /\ CommandBytes(<<>>) = <<>>
  /\ Start # Enabling /\ Start # <<>> /\ Enabling # <<>>
<1>1. /\ Head(Start) = "set_scancode_set" /\ Len(Start) = 3
      /\ Head(Enabling) = "enable_scanning" /\ Len(Enabling) = 1
  BY DEF Start, Enabling
<1>2. get_data_byte_count(Head(Start)) = 1 /\ get_data_byte_count(Head(Enabling)) = 0
  BY <1>1 DEF get_data_byte_count
<1>3. Start # Enabling /\ Start # <<>> /\ Enabling # <<>>
  BY <1>1
<1>4. Acknowledged(Start) = Enabling
  <2>1. Acknowledged(Start) = SubSeq(Start, 3, 3)
    BY <1>1, <1>2 DEF Acknowledged
  <2> QED
    BY <2>1 DEF Start, Enabling
<1>5. Acknowledged(Enabling) = <<>>
  <2>1. Acknowledged(Enabling) = SubSeq(Enabling, 2, 1)
    BY <1>1, <1>2 DEF Acknowledged
  <2> QED
    BY <2>1 DEF Enabling
<1>6. CommandBytes(Start) = <<"set_scancode_set", "three">>
  <2>1. CommandBytes(Start) = SubSeq(Start, 1, 2)
    BY <1>1, <1>2, <1>3 DEF CommandBytes, TakeUpTo
  <2> QED
    BY <2>1 DEF Start
<1>7. CommandBytes(Enabling) = Enabling
  <2>1. CommandBytes(Enabling) = SubSeq(Enabling, 1, 1)
    BY <1>1, <1>2, <1>3 DEF CommandBytes, TakeUpTo
  <2> QED
    BY <2>1 DEF Enabling
<1>8. CommandBytes(<<>>) = <<>>
  BY DEF CommandBytes
<1> QED
  BY <1>3, <1>4, <1>5, <1>6, <1>7, <1>8

(* One more byte behind those on the wire.                                 *)
LEMMA OneByteMore ==
  ASSUME NEW q \in Seq(Bytes), NEW b \in Bytes
  PROVE  /\ Append(q, b) \in Seq(Bytes)
         /\ OnlyAnswers(q) /\ b \in Answers => OnlyAnswers(Append(q, b))
         /\ OnlyAnswers(q) /\ b = "ack" => AckComes(Append(q, b))
         /\ AckComes(q) => AckComes(Append(q, b))
<1> DEFINE t == Append(q, b)
           n == Len(q)
<1>1. /\ n \in Nat /\ Len(t) = n + 1 /\ t[n + 1] = b /\ t \in Seq(Bytes)
      /\ \A k \in 1..n : t[k] = q[k]
  OBVIOUS
<1> HIDE DEF t
<1>2. OnlyAnswers(q) /\ b \in Answers => OnlyAnswers(t)
  BY <1>1 DEF OnlyAnswers
<1>3. OnlyAnswers(q) /\ b = "ack" => AckComes(t)
  <2> SUFFICES ASSUME OnlyAnswers(q), b = "ack" PROVE AckComes(t)
    OBVIOUS
  <2>1. \A j \in 1..(n + 1) : t[j] \in Answers
    BY <1>1 DEF OnlyAnswers, Answers
  <2>2. n + 1 \in 1..Len(t) /\ t[n + 1] = "ack"
    BY <1>1
  <2> QED
    BY <2>1, <2>2 DEF AckComes
<1>4. AckComes(q) => AckComes(t)
  <2> SUFFICES ASSUME AckComes(q) PROVE AckComes(t)
    OBVIOUS
  <2>1. PICK i \in 1..Len(q) : q[i] = "ack" /\ \A j \in 1..i : q[j] \in Answers
    BY DEF AckComes
  <2>2. i \in 1..Len(t) /\ t[i] = "ack" /\ \A j \in 1..i : t[j] \in Answers
    BY <1>1, <2>1
  <2> QED
    BY <2>2 DEF AckComes
<1> QED
  BY <1>1, <1>2, <1>3, <1>4 DEF t

(* The first byte is taken from the wire.                                  *)
LEMMA OneByteLess ==
  ASSUME NEW q \in Seq(Bytes), q # <<>>
  PROVE  /\ Tail(q) \in Seq(Bytes) /\ Head(q) \in Bytes
         /\ OnlyAnswers(q) => OnlyAnswers(Tail(q)) /\ Head(q) \in Answers
         /\ AckComes(q) => Head(q) = "ack" \/ (Head(q) = "resend" /\ AckComes(Tail(q)))
<1> DEFINE t == Tail(q)
           n == Len(q)
<1>1. /\ n \in Nat \ {0} /\ Len(t) = n - 1 /\ t \in Seq(Bytes) /\ Head(q) = q[1] /\ q[1] \in Bytes
      /\ \A k \in 1..(n - 1) : t[k] = q[k + 1]
  OBVIOUS
<1> HIDE DEF t
<1>2. OnlyAnswers(q) => OnlyAnswers(t) /\ Head(q) \in Answers
  BY <1>1 DEF OnlyAnswers
<1>3. AckComes(q) => Head(q) = "ack" \/ (Head(q) = "resend" /\ AckComes(t))
  <2> SUFFICES ASSUME AckComes(q), Head(q) # "ack" PROVE Head(q) = "resend" /\ AckComes(t)
    OBVIOUS
  <2>1. PICK i \in 1..Len(q) : q[i] = "ack" /\ \A j \in 1..i : q[j] \in Answers
    BY DEF AckComes
  <2>2. Head(q) = "resend" /\ i # 1
    BY <1>1, <2>1 DEF Answers
  <2>3. i - 1 \in 1..Len(t) /\ (i - 1) + 1 = i
    BY <1>1, <2>2
  <2>4. t[i - 1] = "ack"
    BY <1>1, <2>1, <2>3
  <2>5. \A j \in 1..(i - 1) : t[j] \in Answers
    <3> TAKE j \in 1..(i - 1)
    <3>1. j \in 1..(n - 1) /\ j + 1 \in 1..i
      BY <1>1, <2>3
    <3> QED
      BY <1>1, <2>1, <3>1
  <2> QED
    BY <2>2, <2>3, <2>4, <2>5 DEF AckComes
<1> QED
  BY <1>1, <1>2, <1>3 DEF t

(* The four things that a message does to the conversation.                *)
LEMMA MessageIs ==
  ASSUME TalkInv, handle_message
  PROVE  /\ toHost # <<>> /\ toHost' = Tail(toHost) /\ device' = device /\ held' = held
         /\ \/ /\ m_state = "ExpectingAck" /\ Head(toHost) = "resend"
               /\ toDevice' = toDevice \o CommandBytes(m_command_queue)
               /\ m_command_queue' = m_command_queue /\ m_state' = m_state
            \/ /\ m_command_queue = Start /\ Head(toHost) = "ack"
               /\ toDevice' = toDevice \o Enabling
               /\ m_command_queue' = Enabling /\ m_state' = m_state
            \/ /\ m_command_queue = Enabling /\ Head(toHost) = "ack"
               /\ toDevice' = toDevice
               /\ m_command_queue' = <<>> /\ m_state' = "ExpectingKeyCode"
            \/ /\ m_state # "ExpectingAck" /\ feed_scancode(Head(toHost))
               /\ toDevice' = toDevice
               /\ m_command_queue' = m_command_queue
               /\ m_state' \in {"ExpectingKeyCode", "Relase"}
<1>1. toHost # <<>> /\ toHost' = Tail(toHost) /\ device' = device /\ held' = held
  BY DEF handle_message, keys
<1> DEFINE message == Head(toHost)
<1>2. handle_acknowledgement(message) \/ feed_scancode(message)
  BY DEF handle_message
<1> HIDE DEF message
<1>3. CASE feed_scancode(message)
  <2>1. /\ m_state # "ExpectingAck" /\ m_state' = Fed(message).state
        /\ toDevice' = toDevice /\ m_command_queue' = m_command_queue
    BY <1>3 DEF feed_scancode
  <2>2. Fed(message).state \in {"ExpectingKeyCode", "Relase"}
    BY <2>1 DEF Fed, After, TalkInv
  <2> QED
    BY <1>1, <1>3, <2>1, <2>2 DEF message
<1>4. CASE handle_acknowledgement(message) /\ message = "resend"
  <2>1. /\ m_state = "ExpectingAck" /\ toDevice' = toDevice \o CommandBytes(m_command_queue)
        /\ m_command_queue' = m_command_queue /\ m_state' = m_state
    BY <1>4 DEF handle_acknowledgement
  <2> QED
    BY <1>1, <1>4, <2>1 DEF message
<1>5. CASE handle_acknowledgement(message) /\ message = "ack"
  <2>1. /\ m_state = "ExpectingAck" /\ m_command_queue' = Acknowledged(m_command_queue)
        /\ toDevice' = toDevice \o CommandBytes(m_command_queue')
        /\ m_state' = IF m_command_queue' = <<>> THEN "ExpectingKeyCode" ELSE m_state
    BY <1>5 DEF handle_acknowledgement
  <2>2. m_command_queue = Start \/ m_command_queue = Enabling
    BY <2>1 DEF TalkInv
  <2>3. toDevice \o <<>> = toDevice
    BY DEF TalkInv
  <2> QED
    BY <1>1, <1>5, <2>1, <2>2, <2>3, Queues DEF message
<1> QED
  BY <1>2, <1>3, <1>4, <1>5 DEF handle_acknowledgement

LEMMA TalkMessage ==
  ASSUME TalkInv, handle_message
  PROVE  TalkInv'
<1>1. /\ toHost # <<>> /\ toHost' = Tail(toHost) /\ device' = device /\ held' = held
      /\ toHost \in Seq(Bytes) /\ toDevice \in Seq(Commands)
  BY MessageIs DEF TalkInv
<1>2. /\ toHost' \in Seq(Bytes) /\ Head(toHost) \in Bytes
      /\ OnlyAnswers(toHost) => OnlyAnswers(toHost')
      /\ AckComes(toHost) => Head(toHost) = "ack" \/ AckComes(toHost')
  BY <1>1, OneByteLess
<1>3. CASE /\ m_state = "ExpectingAck" /\ Head(toHost) = "resend"
           /\ toDevice' = toDevice \o CommandBytes(m_command_queue)
           /\ m_command_queue' = m_command_queue /\ m_state' = m_state
  <2>1. CASE m_command_queue = Start
    <3>1. toDevice' = toDevice \o <<"set_scancode_set", "three">>
      BY <1>3, <2>1, Queues
    <3>2. toDevice' \in Seq(Commands)
      BY <1>1, <3>1 DEF Commands
    <3>3. \A k \in 1..Len(toDevice') : toDevice'[k] # "enable_scanning"
      <4>1. \A k \in 1..Len(toDevice) : toDevice[k] # "enable_scanning"
        BY <2>1 DEF TalkInv
      <4> QED
        BY <1>1, <3>1, <4>1
    <3> QED
      BY <1>1, <1>2, <1>3, <2>1, <3>2, <3>3, Queues DEF TalkInv
  <2>2. CASE m_command_queue = Enabling
    <3>1. toDevice' = toDevice \o Enabling
      BY <1>3, <2>2, Queues
    <3>2. toDevice' \in Seq(Commands)
      BY <1>1, <3>1 DEF Commands, Enabling
    <3>3. (OnlyAnswers(toHost') /\ ~device.scanning) \/ AckComes(toHost')
      BY <1>2, <1>3, <2>2 DEF TalkInv
    <3> QED
      BY <1>1, <1>2, <1>3, <2>2, <3>2, <3>3, Queues DEF TalkInv
  <2> QED
    BY <1>3, <2>1, <2>2 DEF TalkInv
<1>4. CASE /\ m_command_queue = Start /\ Head(toHost) = "ack"
           /\ toDevice' = toDevice \o Enabling
           /\ m_command_queue' = Enabling /\ m_state' = m_state
  <2>1. toDevice' \in Seq(Commands)
    BY <1>1, <1>4 DEF Commands, Enabling
  <2>2. OnlyAnswers(toHost') /\ ~device.scanning /\ m_state = "ExpectingAck"
    BY <1>2, <1>4, Queues DEF TalkInv
  <2> QED
    BY <1>1, <1>2, <1>4, <2>1, <2>2, Queues DEF TalkInv
<1>5. CASE /\ m_command_queue = Enabling /\ Head(toHost) = "ack"
           /\ toDevice' = toDevice
           /\ m_command_queue' = <<>> /\ m_state' = "ExpectingKeyCode"
  BY <1>1, <1>2, <1>5, Queues DEF TalkInv
<1>6. CASE /\ m_state # "ExpectingAck" /\ toDevice' = toDevice
           /\ m_command_queue' = m_command_queue
           /\ m_state' \in {"ExpectingKeyCode", "Relase"}
  BY <1>1, <1>2, <1>6, Queues DEF TalkInv
<1> QED
  BY <1>3, <1>4, <1>5, <1>6, MessageIs

(* An answer of the keyboard.                                              *)
LEMMA TalkAnswer ==
  ASSUME TalkInv, NEW answer \in Answers, NEW dev, KeyboardAnswers(answer, dev),
         dev \in [set: {2, 3}, scanning: BOOLEAN, parameter: BOOLEAN],
         \/ dev.scanning = device.scanning
         \/ dev.scanning /\ Head(toDevice) = "enable_scanning" /\ answer = "ack"
  PROVE  TalkInv'
<1>1. /\ toDevice # <<>> /\ toDevice' = Tail(toDevice) /\ toHost' = Append(toHost, answer)
      /\ device' = dev /\ m_command_queue' = m_command_queue /\ m_state' = m_state /\ held' = held
  BY DEF KeyboardAnswers, driver, keys
<1>2. answer \in Bytes /\ toHost \in Seq(Bytes) /\ toDevice \in Seq(Commands)
  BY DEF Bytes, TalkInv
<1>3. /\ toHost' \in Seq(Bytes) /\ (OnlyAnswers(toHost) => OnlyAnswers(toHost'))
      /\ (OnlyAnswers(toHost) /\ answer = "ack" => AckComes(toHost'))
      /\ (AckComes(toHost) => AckComes(toHost'))
  BY <1>1, <1>2, OneByteMore
<1>4. /\ toDevice' \in Seq(Commands) /\ Head(toDevice) = toDevice[1] /\ 1 \in 1..Len(toDevice)
      /\ \A k \in 1..Len(toDevice') : k + 1 \in 1..Len(toDevice) /\ toDevice'[k] = toDevice[k + 1]
  BY <1>1, <1>2
<1>5. CASE m_command_queue = Start
  <2>1. /\ OnlyAnswers(toHost) /\ ~device.scanning
        /\ \A k \in 1..Len(toDevice) : toDevice[k] # "enable_scanning"
    BY <1>5 DEF TalkInv
  <2>2. dev.scanning = device.scanning
    BY <1>4, <2>1
  <2>3. \A k \in 1..Len(toDevice') : toDevice'[k] # "enable_scanning"
    BY <1>4, <2>1
  <2> QED
    BY <1>1, <1>3, <1>4, <1>5, <2>1, <2>2, <2>3, Queues DEF TalkInv
<1>6. CASE m_command_queue = Enabling
  <2>1. (OnlyAnswers(toHost') /\ ~dev.scanning) \/ AckComes(toHost')
    BY <1>3, <1>6 DEF TalkInv
  <2> QED
    BY <1>1, <1>3, <1>4, <1>6, <2>1, Queues DEF TalkInv
<1>7. CASE m_command_queue = <<>>
  BY <1>1, <1>3, <1>4, <1>7, Queues DEF TalkInv
<1> QED
  BY <1>5, <1>6, <1>7 DEF TalkInv

(* A key that is sent while the keyboard scans.                            *)
LEMMA TalkKeys ==
  ASSUME TalkInv, AckComes(toHost) => AckComes(toHost'), toHost' \in Seq(Bytes),
         toHost' = toHost \/ device.scanning, held' # {} => device.scanning,
         UNCHANGED <<driver, toDevice, device>>
  PROVE  TalkInv'
<1>1. /\ toDevice' = toDevice /\ device' = device /\ m_command_queue' = m_command_queue
      /\ m_state' = m_state
  BY DEF driver
<1>2. CASE toHost' = toHost
  BY <1>1, <1>2 DEF TalkInv
<1>3. CASE device.scanning
  BY <1>1, <1>3, Queues DEF TalkInv
<1> QED
  BY <1>2, <1>3

LEMMA TalkStep ==
  ASSUME TalkInv, [Next]_vars
  PROVE  TalkInv'
<1>1. CASE handle_message
  BY <1>1, TalkMessage
<1>2. CASE UNCHANGED <<driver, toDevice, toHost, device, held>>
  BY <1>2 DEF TalkInv, driver
<1>3. CASE \/ \E pid \in Pids : OpenStart(pid) \/ CloseStart(pid)
           \/ \E length \in 1..BufferSize : ReadStart(length)
           \/ OpenEnd \/ CloseEnd \/ ReadEnd \/ UNCHANGED vars
  BY <1>2, <1>3 DEF OpenStart, CloseStart, ReadStart, OpenEnd, CloseEnd, ReadEnd, vars, driver,
     keys
<1>4. CASE KeyboardObeys
  <2> DEFINE D == [set: {2, 3}, scanning: BOOLEAN, parameter: BOOLEAN]
  <2>1. PICK answer \in Answers, dev \in D :
          /\ KeyboardAnswers(answer, dev)
          /\ \/ dev.scanning = device.scanning
             \/ dev.scanning /\ Head(toDevice) = "enable_scanning" /\ answer = "ack"
    <3>1. device \in D
      BY DEF TalkInv
    <3>2. /\ [device EXCEPT !.parameter = TRUE] \in D
          /\ [device EXCEPT !.parameter = FALSE, !.set = 3] \in D
          /\ [device EXCEPT !.parameter = FALSE, !.scanning = TRUE] \in D
          /\ [device EXCEPT !.parameter = TRUE].scanning = device.scanning
          /\ [device EXCEPT !.parameter = FALSE, !.set = 3].scanning = device.scanning
          /\ [device EXCEPT !.parameter = FALSE, !.scanning = TRUE].scanning
      BY <3>1
    <3>3. "ack" \in Answers /\ "resend" \in Answers
      BY DEF Answers
    <3> HIDE DEF D
    <3> QED
      BY <1>4, <3>1, <3>2, <3>3 DEF KeyboardObeys
  <2> QED
    BY <2>1, TalkAnswer
<1>5. CASE KeyboardAsksAgain
  <2>1. KeyboardAnswers("resend", device) /\ "resend" \in Answers
    BY <1>5 DEF KeyboardAsksAgain, Answers
  <2>2. device \in [set: {2, 3}, scanning: BOOLEAN, parameter: BOOLEAN]
    BY DEF TalkInv
  <2> QED
    BY <2>1, <2>2, TalkAnswer
<1>6. ASSUME NEW key \in Keys, Press(key) PROVE TalkInv'
  <2>1. /\ toHost' = Append(toHost, key) /\ device.scanning
        /\ UNCHANGED <<driver, toDevice, device>>
    BY <1>6 DEF Press
  <2>2. toHost \in Seq(Bytes) /\ key \in Bytes
    BY DEF TalkInv, Bytes
  <2> QED
    BY <2>1, <2>2, OneByteMore, TalkKeys
<1>7. ASSUME NEW key \in Keys, Release(key) PROVE TalkInv'
  <2>1. /\ toHost' = toHost \/ toHost' = toHost \o <<"release", key>>
        /\ UNCHANGED <<driver, toDevice, device>>
        /\ device.scanning
    BY <1>7 DEF Release, TalkInv
  <2>2. toHost \in Seq(Bytes) /\ key \in Bytes /\ "release" \in Bytes
    BY DEF TalkInv, Bytes
  <2>3. CASE toHost' = toHost
    BY <2>1, <2>2, <2>3, TalkKeys
  <2>4. CASE toHost' = toHost \o <<"release", key>>
    <3>1. toHost' = Append(Append(toHost, "release"), key)
      BY <2>2, <2>4
    <3>2. toHost' \in Seq(Bytes) /\ (AckComes(toHost) => AckComes(toHost'))
      BY <2>2, <3>1, OneByteMore
    <3> QED
      BY <2>1, <3>2, TalkKeys
  <2> QED
    BY <2>1, <2>3, <2>4
<1> QED
  BY <1>1, <1>3, <1>4, <1>5, <1>6, <1>7 DEF Next

LEMMA TalkBegins ==
  ASSUME Init
  PROVE  TalkInv
<1>1. /\ m_command_queue = Start /\ toDevice = <<"set_scancode_set", "three">>
      /\ m_state = "ExpectingAck" /\ toHost = <<>> /\ held = {}
      /\ device = [set |-> 2, scanning |-> FALSE, parameter |-> FALSE]
  BY Queues DEF Init
<1>2. toDevice \in Seq(Commands) /\ \A k \in 1..Len(toDevice) : toDevice[k] # "enable_scanning"
  BY <1>1 DEF Commands
<1> QED
  BY <1>1, <1>2, Queues DEF TalkInv, OnlyAnswers

LEMMA TalkAlways == Spec => []TalkInv
<1>1. Init => TalkInv
  BY TalkBegins
<1>2. TalkInv /\ [Next]_vars => TalkInv'
  BY TalkStep
<1> QED
  BY <1>1, <1>2, PTL DEF Spec

(* Whatever arrives garbled, however often: the assertion of               *)
(* ps2_keyboard.cpp:84 never fails in the interrupt handler.               *)
THEOREM NoKeyBeforeTheAnswers == Spec => []OnlyAnswersAwaited
<1>1. TalkInv => OnlyAnswersAwaited
  <2> SUFFICES ASSUME TalkInv, m_state = "ExpectingAck", toHost # <<>>
               PROVE  Head(toHost) \in {"ack", "resend"}
    BY DEF OnlyAnswersAwaited
  <2>1. OnlyAnswers(toHost) \/ AckComes(toHost)
    BY DEF TalkInv
  <2>2. toHost \in Seq(Bytes)
    BY DEF TalkInv
  <2> QED
    BY <2>1, <2>2, OneByteLess DEF Answers
<1> QED
  BY <1>1, TalkAlways, PTL

-----------------------------------------------------------------------------
(* The scancode set.                                                       *)

SetIs3 == device.set = 3 \/ device.parameter

(* A command to set the scancode set is followed by its parameter, and the *)
(* keyboard that acknowledged one is in set 3 or has the parameter next.   *)
SetInv ==
  /\ \A k \in 1..Len(toDevice) :
       toDevice[k] = "set_scancode_set" => k + 1 \in 1..Len(toDevice) /\ toDevice[k + 1] = "three"
  /\ device.parameter => toDevice # <<>> /\ Head(toDevice) = "three"
  /\ m_command_queue = Start => SetIs3 \/ \A k \in 1..Len(toHost) : toHost[k] # "ack"
  /\ m_command_queue # Start =>
       SetIs3 /\ (device.scanning \/ \E k \in 1..Len(toDevice) : toDevice[k] = "enable_scanning")

LEMMA SetMessage ==
  ASSUME TalkInv, SetInv, handle_message
  PROVE  SetInv'
<1>1. /\ toHost # <<>> /\ toHost' = Tail(toHost) /\ device' = device
      /\ toHost \in Seq(Bytes) /\ toDevice \in Seq(Commands)
  BY MessageIs DEF TalkInv
<1>2. /\ \A k \in 1..Len(toHost') : k + 1 \in 1..Len(toHost) /\ toHost'[k] = toHost[k + 1]
      /\ Head(toHost) = toHost[1] /\ 1 \in 1..Len(toHost)
  BY <1>1
<1>3. SetIs3' <=> SetIs3
  BY <1>1 DEF SetIs3
<1>4. CASE toDevice' = toDevice \o <<"set_scancode_set", "three">> /\ m_command_queue = Start
           /\ m_command_queue' = Start
  <2> DEFINE n == Len(toDevice)
             t == toDevice'
  <2>1. /\ n \in Nat /\ Len(t) = n + 2 /\ t[n + 1] = "set_scancode_set" /\ t[n + 2] = "three"
        /\ \A k \in 1..n : t[k] = toDevice[k]
        /\ toDevice # <<>> => t # <<>> /\ Head(t) = Head(toDevice)
    BY <1>1, <1>4
  <2> HIDE DEF t
  <2>2. ASSUME NEW k \in 1..Len(t), t[k] = "set_scancode_set"
        PROVE  k + 1 \in 1..Len(t) /\ t[k + 1] = "three"
    <3>1. k \in 1..n \/ k = n + 1
      BY <2>1, <2>2
    <3>2. CASE k \in 1..n
      BY <2>1, <2>2, <3>2 DEF SetInv
    <3> QED
      BY <2>1, <3>1, <3>2
  <2>3. device.parameter => t # <<>> /\ Head(t) = "three"
    BY <2>1 DEF SetInv
  <2>4. SetIs3 \/ \A k \in 1..Len(toHost') : toHost'[k] # "ack"
    BY <1>2, <1>4 DEF SetInv
  <2> QED
    BY <1>1, <1>3, <1>4, <2>2, <2>3, <2>4 DEF SetInv, t
<1>5. CASE toDevice' = toDevice \o Enabling /\ m_command_queue' = Enabling
           /\ (m_command_queue = Enabling \/ Head(toHost) = "ack")
  <2> DEFINE n == Len(toDevice)
             t == toDevice'
  <2>1. /\ n \in Nat /\ Len(t) = n + 1 /\ t[n + 1] = "enable_scanning"
        /\ \A k \in 1..n : t[k] = toDevice[k]
        /\ toDevice # <<>> => t # <<>> /\ Head(t) = Head(toDevice)
    BY <1>1, <1>5 DEF Enabling
  <2> HIDE DEF t
  <2>2. ASSUME NEW k \in 1..Len(t), t[k] = "set_scancode_set"
        PROVE  k + 1 \in 1..Len(t) /\ t[k + 1] = "three"
    <3>1. k \in 1..n
      BY <2>1, <2>2
    <3> QED
      BY <2>1, <2>2, <3>1 DEF SetInv
  <2>3. device.parameter => t # <<>> /\ Head(t) = "three"
    BY <2>1 DEF SetInv
  <2>4. SetIs3
    BY <1>2, <1>5, Queues DEF SetInv
  <2>5. n + 1 \in 1..Len(t)
    BY <2>1
  <2> QED
    BY <1>1, <1>3, <1>5, <2>1, <2>2, <2>3, <2>4, <2>5, Queues DEF SetInv, t
<1>6. CASE toDevice' = toDevice /\ m_command_queue # Start /\ m_command_queue' # Start
  BY <1>1, <1>3, <1>6 DEF SetInv
<1> QED
  <2>1. CASE m_command_queue' = m_command_queue /\ toDevice' = toDevice \o CommandBytes(m_command_queue)
             /\ m_state = "ExpectingAck"
    BY <1>4, <1>5, <2>1, Queues DEF TalkInv
  <2>2. m_state # "ExpectingAck" => m_command_queue # Start
    BY Queues DEF TalkInv
  <2> QED
    BY <1>5, <1>6, <2>1, <2>2, MessageIs, Queues

(* The keyboard takes a byte.                                              *)
LEMMA SetAnswer ==
  ASSUME TalkInv, SetInv, NEW answer \in Answers, NEW dev, KeyboardAnswers(answer, dev),
         dev \in [set: {2, 3}, scanning: BOOLEAN, parameter: BOOLEAN],
         \/ /\ Head(toDevice) = "set_scancode_set"
            /\ dev = [device EXCEPT !.parameter = TRUE]
         \/ /\ Head(toDevice) = "three" /\ device.parameter
            /\ dev = [device EXCEPT !.parameter = FALSE, !.set = 3]
         \/ /\ Head(toDevice) = "three" /\ ~device.parameter /\ answer = "resend"
            /\ dev = device
         \/ /\ Head(toDevice) = "enable_scanning"
            /\ dev = [device EXCEPT !.parameter = FALSE, !.scanning = TRUE]
         \/ /\ Head(toDevice) = "set_scancode_set" /\ answer = "resend"
            /\ dev = device
  PROVE  SetInv'
<1>1. /\ toDevice # <<>> /\ toDevice' = Tail(toDevice) /\ toHost' = Append(toHost, answer)
      /\ device' = dev /\ m_command_queue' = m_command_queue
  BY DEF KeyboardAnswers, driver
<1>2. /\ toHost \in Seq(Bytes) /\ toDevice \in Seq(Commands)
      /\ device \in [set: {2, 3}, scanning: BOOLEAN, parameter: BOOLEAN]
  BY DEF TalkInv
<1> DEFINE n == Len(toDevice)
           t == toDevice'
<1>3. /\ n \in Nat \ {0} /\ Len(t) = n - 1 /\ Head(toDevice) = toDevice[1]
      /\ \A k \in 1..(n - 1) : t[k] = toDevice[k + 1]
      /\ n > 1 => t # <<>> /\ Head(t) = toDevice[2]
  <2>1. n \in Nat \ {0} /\ Len(t) = n - 1 /\ t \in Seq(Commands)
    BY <1>1, <1>2
  <2>2. \A k \in 1..(n - 1) : t[k] = toDevice[k + 1]
    BY <1>1, <1>2
  <2>3. Head(toDevice) = toDevice[1]
    BY <1>1, <1>2
  <2> HIDE DEF t
  <2>4. n > 1 => t # <<>> /\ Head(t) = t[1] /\ t[1] = toDevice[2]
    <3> SUFFICES ASSUME n > 1 PROVE t # <<>> /\ Head(t) = t[1] /\ t[1] = toDevice[2]
      OBVIOUS
    <3>1. 1 \in 1..(n - 1) /\ Len(t) # 0 /\ 1 + 1 = 2
      BY <2>1
    <3>2. t # <<>> /\ Head(t) = t[1]
      BY <2>1, <3>1
    <3> QED
      BY <2>2, <3>1, <3>2
  <2> QED
    BY <2>1, <2>2, <2>3, <2>4
<1>4. \A k \in 1..Len(toHost') : (k \in 1..Len(toHost) /\ toHost'[k] = toHost[k]) \/ toHost'[k] = answer
  <2> DEFINE u == toHost'
             m == Len(toHost)
  <2>1. /\ m \in Nat /\ Len(u) = m + 1 /\ u[m + 1] = answer
        /\ \A k \in 1..m : u[k] = toHost[k]
    BY <1>1, <1>2
  <2> HIDE DEF u
  <2>2. \A k \in 1..Len(u) : k \in 1..m \/ k = m + 1
    BY <2>1
  <2> QED
    BY <2>1, <2>2 DEF u
<1> HIDE DEF t
<1>5. ASSUME NEW k \in 1..Len(t), t[k] = "set_scancode_set"
      PROVE  k + 1 \in 1..Len(t) /\ t[k + 1] = "three"
  <2>1. k \in 1..(n - 1) /\ k + 1 \in 1..n /\ toDevice[k + 1] = "set_scancode_set"
    BY <1>3, <1>5
  <2>2. (k + 1) + 1 \in 1..n /\ toDevice[(k + 1) + 1] = "three"
    BY <2>1 DEF SetInv
  <2>3. k + 1 \in 1..(n - 1)
    BY <1>3, <2>1, <2>2
  <2> QED
    BY <1>3, <2>2, <2>3
<1>6. Head(toDevice) = "set_scancode_set" => t # <<>> /\ Head(t) = "three"
  <2> SUFFICES ASSUME Head(toDevice) = "set_scancode_set" PROVE t # <<>> /\ Head(t) = "three"
    OBVIOUS
  <2>1. 1 \in 1..n /\ toDevice[1] = "set_scancode_set"
    BY <1>3
  <2>2. 1 + 1 \in 1..n /\ toDevice[1 + 1] = "three"
    BY <2>1 DEF SetInv
  <2> QED
    BY <1>3, <2>2
<1>7. ASSUME NEW k \in 1..n, toDevice[k] = "enable_scanning", Head(toDevice) # "enable_scanning"
      PROVE  \E j \in 1..Len(t) : t[j] = "enable_scanning"
  <2>1. k # 1
    BY <1>3, <1>7
  <2>2. k - 1 \in 1..(n - 1) /\ (k - 1) + 1 = k
    BY <1>3, <2>1
  <2>3. t[k - 1] = "enable_scanning"
    BY <1>3, <1>7, <2>2
  <2> QED
    BY <1>3, <2>2, <2>3
<1>8. device.parameter => Head(toDevice) = "three"
  BY DEF SetInv
<1>9. /\ \A k \in 1..Len(t) :
           t[k] = "set_scancode_set" => k + 1 \in 1..Len(t) /\ t[k + 1] = "three"
      /\ (m_command_queue = Start => SetIs3 \/ \A k \in 1..Len(toHost) : toHost[k] # "ack")
      /\ (m_command_queue # Start =>
            SetIs3 /\ (device.scanning \/ \E k \in 1..n : toDevice[k] = "enable_scanning"))
  BY <1>5 DEF SetInv
<1>10. CASE /\ Head(toDevice) = "set_scancode_set"
            /\ dev = [device EXCEPT !.parameter = TRUE]
  <2>1. SetIs3' /\ device'.scanning = device.scanning
    BY <1>1, <1>2, <1>10 DEF SetIs3
  <2>2. m_command_queue # Start =>
          device'.scanning \/ \E j \in 1..Len(t) : t[j] = "enable_scanning"
    BY <1>7, <1>9, <1>10, <2>1
  <2> QED
    BY <1>1, <1>6, <1>9, <1>10, <2>1, <2>2 DEF SetInv, t
<1>11. CASE /\ Head(toDevice) = "three" /\ device.parameter
            /\ dev = [device EXCEPT !.parameter = FALSE, !.set = 3]
  <2>1. SetIs3' /\ device'.scanning = device.scanning /\ ~device'.parameter
    BY <1>1, <1>2, <1>11 DEF SetIs3
  <2>2. m_command_queue # Start =>
          device'.scanning \/ \E j \in 1..Len(t) : t[j] = "enable_scanning"
    BY <1>7, <1>9, <1>11, <2>1
  <2> QED
    BY <1>1, <1>9, <2>1, <2>2 DEF SetInv, t
<1>12. CASE /\ Head(toDevice) # "enable_scanning" /\ ~device.parameter /\ answer = "resend"
            /\ dev = device
  <2>1. (SetIs3' <=> SetIs3) /\ device'.scanning = device.scanning /\ ~device'.parameter
    BY <1>1, <1>12 DEF SetIs3
  <2>2. m_command_queue # Start =>
          device'.scanning \/ \E j \in 1..Len(t) : t[j] = "enable_scanning"
    BY <1>7, <1>9, <1>12, <2>1
  <2>3. (\A k \in 1..Len(toHost) : toHost[k] # "ack") => \A k \in 1..Len(toHost') : toHost'[k] # "ack"
    BY <1>4, <1>12
  <2> QED
    BY <1>1, <1>9, <2>1, <2>2, <2>3 DEF SetInv, t
<1>13. CASE /\ Head(toDevice) = "enable_scanning"
            /\ dev = [device EXCEPT !.parameter = FALSE, !.scanning = TRUE]
  <2>1. device'.scanning /\ device'.set = device.set /\ ~device'.parameter
    BY <1>1, <1>2, <1>13
  <2>2. m_command_queue # Start
    <3>1. 1 \in 1..n /\ toDevice[1] = "enable_scanning"
      BY <1>3, <1>13
    <3> QED
      BY <3>1 DEF TalkInv
  <2>3. SetIs3'
    BY <1>8, <1>9, <1>13, <2>1, <2>2 DEF SetIs3
  <2> QED
    BY <1>1, <1>9, <2>1, <2>2, <2>3 DEF SetInv, t
<1> QED
  BY <1>8, <1>10, <1>11, <1>12, <1>13

LEMMA SetStep ==
  ASSUME TalkInv, SetInv, [Next]_vars, Garbled \subseteq {"set_scancode_set"}
  PROVE  SetInv'
<1>1. CASE handle_message
  BY <1>1, SetMessage
<1>2. CASE UNCHANGED <<driver, toDevice, toHost, device>>
  BY <1>2 DEF SetInv, SetIs3, driver
<1>3. CASE \/ \E pid \in Pids : OpenStart(pid) \/ CloseStart(pid)
           \/ \E length \in 1..BufferSize : ReadStart(length)
           \/ OpenEnd \/ CloseEnd \/ ReadEnd \/ UNCHANGED vars
  BY <1>2, <1>3 DEF OpenStart, CloseStart, ReadStart, OpenEnd, CloseEnd, ReadEnd, vars, driver
<1>4. CASE KeyboardObeys
  <2> DEFINE D == [set: {2, 3}, scanning: BOOLEAN, parameter: BOOLEAN]
  <2>1. device \in D
    BY DEF TalkInv
  <2>2. /\ [device EXCEPT !.parameter = TRUE] \in D
        /\ [device EXCEPT !.parameter = FALSE, !.set = 3] \in D
        /\ [device EXCEPT !.parameter = FALSE, !.scanning = TRUE] \in D
    BY <2>1
  <2>3. "ack" \in Answers /\ "resend" \in Answers
    BY DEF Answers
  <2>4. CASE Head(toDevice) = "set_scancode_set"
             /\ KeyboardAnswers("ack", [device EXCEPT !.parameter = TRUE])
    BY <2>2, <2>3, <2>4, SetAnswer
  <2>5. CASE Head(toDevice) = "three" /\ device.parameter
             /\ KeyboardAnswers("ack", [device EXCEPT !.parameter = FALSE, !.set = 3])
    BY <2>2, <2>3, <2>5, SetAnswer
  <2>6. CASE Head(toDevice) = "three" /\ ~device.parameter /\ KeyboardAnswers("resend", device)
    BY <2>1, <2>3, <2>6, SetAnswer
  <2>7. CASE Head(toDevice) = "enable_scanning"
             /\ KeyboardAnswers("ack", [device EXCEPT !.parameter = FALSE, !.scanning = TRUE])
    BY <2>2, <2>3, <2>7, SetAnswer
  <2> HIDE DEF D
  <2> QED
    BY <1>4, <2>4, <2>5, <2>6, <2>7 DEF KeyboardObeys
<1>5. CASE KeyboardAsksAgain
  <2>1. KeyboardAnswers("resend", device) /\ Head(toDevice) = "set_scancode_set"
    BY <1>5 DEF KeyboardAsksAgain
  <2>2. device \in [set: {2, 3}, scanning: BOOLEAN, parameter: BOOLEAN] /\ "resend" \in Answers
    BY DEF TalkInv, Answers
  <2> QED
    BY <2>1, <2>2, SetAnswer
<1>6. CASE \E key \in Keys : Press(key) \/ Release(key)
  <2>1. UNCHANGED <<driver, toDevice, device>>
    BY <1>6 DEF Press, Release
  <2>2. m_command_queue = Start => toHost' = toHost
    <3>1. m_command_queue = Start => ~device.scanning /\ held = {}
      BY DEF TalkInv
    <3> QED
      BY <1>6, <3>1 DEF Press, Release
  <2> QED
    BY <2>1, <2>2 DEF SetInv, SetIs3, driver
<1> QED
  BY <1>1, <1>3, <1>4, <1>5, <1>6 DEF Next

(* Once the driver awaits scancodes and nothing is on its way, the         *)
(* keyboard is in set 3 and scans, however often the command that the      *)
(* driver sends again arrived garbled (send_command, handle_message).      *)
THEOREM KeyboardSpeaksSet3 ==
  ASSUME Garbled \subseteq {"set_scancode_set"}
  PROVE  Spec => []SpeaksSet3
<1>1. Init => SetInv
  <2> SUFFICES ASSUME Init PROVE SetInv
    OBVIOUS
  <2>1. /\ m_command_queue = Start /\ toDevice = <<"set_scancode_set", "three">> /\ toHost = <<>>
        /\ device = [set |-> 2, scanning |-> FALSE, parameter |-> FALSE]
    BY Queues DEF Init
  <2>2. \A k \in 1..Len(toDevice) :
          toDevice[k] = "set_scancode_set" => k + 1 \in 1..Len(toDevice) /\ toDevice[k + 1] = "three"
    BY <2>1
  <2> QED
    BY <2>1, <2>2 DEF SetInv
<1>2. TalkInv /\ SetInv /\ [Next]_vars => SetInv'
  BY SetStep
<1>3. TalkInv /\ SetInv => SpeaksSet3
  <2> SUFFICES ASSUME TalkInv, SetInv, m_state # "ExpectingAck", toDevice = <<>>
               PROVE  device.set = 3 /\ device.scanning
    BY DEF SpeaksSet3
  <2>1. m_command_queue # Start
    BY Queues DEF TalkInv
  <2> QED
    BY <2>1 DEF SetInv, SetIs3
<1> QED
  BY <1>1, <1>2, <1>3, TalkAlways, PTL DEF Spec

-----------------------------------------------------------------------------
(* The keys.                                                               *)

Typed == Keys \X BOOLEAN

Decoders == [state: {"ExpectingKeyCode", "Relase"}, shift: 0..255, keys: Seq(Typed)]

(* What a byte makes of a driver that awaits scancodes.                    *)
Decoded(d, code) ==
  CASE d.state = "ExpectingKeyCode" /\ code = "release" -> [d EXCEPT !.state = "Relase"]
    [] d.state = "ExpectingKeyCode" /\ code \in Shifts  -> [d EXCEPT !.shift = (@ + 1) % 256]
    [] d.state = "ExpectingKeyCode" /\ code \in Letters ->
         [d EXCEPT !.keys = Append(@, <<code, d.shift > 0>>)]
    [] d.state # "ExpectingKeyCode" /\ code \in Shifts  ->
         [d EXCEPT !.state = "ExpectingKeyCode", !.shift = (@ - 1) % 256]
    [] d.state # "ExpectingKeyCode" /\ code \in Letters -> [d EXCEPT !.state = "ExpectingKeyCode"]
    [] OTHER -> d

(* The bytes q take the driver from the one state to the other, and it     *)
(* only adds to the keys on the way.                                       *)
Decodes(from, q, to) ==
  \E run \in [0..Len(q) -> Decoders] :
    /\ run[0] = from /\ run[Len(q)] = to
    /\ \A k \in 1..Len(q) : run[k] = Decoded(run[k - 1], q[k])
    /\ \A k \in 0..Len(q) : Prefix(run[k].keys, to.keys)

(* Where the driver is, an answer that it awaits being no scancode, and    *)
(* where the keys that were pressed and are down will have brought it.     *)
Heard ==
  [state |-> IF m_state = "ExpectingAck" THEN "ExpectingKeyCode" ELSE m_state,
   shift |-> m_shift_count, keys |-> delivered]

Pressed ==
  [state |-> "ExpectingKeyCode", shift |-> Cardinality(held \cap Shifts), keys |-> typed]

DecodeInv ==
  /\ IsFiniteSet(held) /\ silentReleased \in Nat
  /\ silentReleased = 0 => Decodes(Heard, toHost, Pressed)

LEMMA PrefixOfMore ==
  ASSUME NEW s \in Seq(Typed), NEW t \in Seq(Typed), NEW x \in Typed
  PROVE  /\ Prefix(s, s) /\ Prefix(t, Append(t, x))
         /\ Prefix(s, t) => Prefix(s, Append(t, x))
<1> USE DEF Prefix
<1>1. Prefix(s, s)
  OBVIOUS
<1>2. \A u \in Seq(Typed) : Prefix(u, t) => Prefix(u, Append(t, x))
  <2> SUFFICES ASSUME NEW u \in Seq(Typed), Prefix(u, t) PROVE Prefix(u, Append(t, x))
    OBVIOUS
  <2>1. /\ Append(t, x) \in Seq(Typed) /\ Len(Append(t, x)) = Len(t) + 1
        /\ Len(u) \in Nat /\ Len(t) \in Nat
        /\ \A k \in 1..Len(t) : Append(t, x)[k] = t[k]
    OBVIOUS
  <2>2. Len(u) <= Len(t) /\ u = SubSeq(t, 1, Len(u))
    OBVIOUS
  <2>3. \A k \in 1..Len(u) : u[k] = t[k]
    BY <2>1, <2>2
  <2> DEFINE v == SubSeq(Append(t, x), 1, Len(u))
  <2>4. v \in Seq(Typed) /\ Len(v) = Len(u) /\ \A k \in 1..Len(u) : v[k] = Append(t, x)[k]
    BY <2>1, <2>2
  <2>5. \A k \in 1..Len(u) : v[k] = u[k]
    BY <2>1, <2>2, <2>3, <2>4
  <2> HIDE DEF v
  <2>6. v = u
    BY <2>4, <2>5, SeqEqual
  <2> QED
    BY <2>1, <2>2, <2>6 DEF v
<1>3. Prefix(t, t)
  OBVIOUS
<1> QED
  BY <1>1, <1>2, <1>3

LEMMA DecodedIs ==
  ASSUME NEW d \in Decoders, NEW code \in Bytes
  PROVE  /\ Decoded(d, code) \in Decoders
         /\ Decoded(d, code).keys = d.keys \/ \E x \in Typed : Decoded(d, code).keys = Append(d.keys, x)
<1>1. /\ d.state \in {"ExpectingKeyCode", "Relase"} /\ d.shift \in 0..255 /\ d.keys \in Seq(Typed)
      /\ (d.shift + 1) % 256 \in 0..255 /\ (d.shift - 1) % 256 \in 0..255
  <2>1. d.state \in {"ExpectingKeyCode", "Relase"} /\ d.shift \in 0..255 /\ d.keys \in Seq(Typed)
    BY DEF Decoders
  <2> DEFINE c == d.shift
  <2>2. c \in 0..255
    BY <2>1
  <2> HIDE DEF c
  <2>3. (c + 1) % 256 \in 0..255 /\ (c - 1) % 256 \in 0..255
    BY <2>2
  <2> QED
    BY <2>1, <2>3 DEF c
<1> DEFINE x == <<code, d.shift > 0>>
<1>2. code \in Letters => x \in Typed
  <2>1. (d.shift > 0) \in BOOLEAN /\ (code \in Letters => code \in Keys)
    BY <1>1 DEF Keys
  <2> QED
    BY <2>1 DEF Typed
<1> HIDE DEF x
<1>3. code \in Letters => Append(d.keys, x) \in Seq(Typed)
  BY <1>1, <1>2
<1>4. \/ Decoded(d, code) = d
      \/ Decoded(d, code) = [d EXCEPT !.state = "Relase"]
      \/ Decoded(d, code) = [d EXCEPT !.state = "ExpectingKeyCode"]
      \/ Decoded(d, code) = [d EXCEPT !.shift = (d.shift + 1) % 256]
      \/ Decoded(d, code) = [d EXCEPT !.state = "ExpectingKeyCode", !.shift = (d.shift - 1) % 256]
      \/ code \in Letters /\ Decoded(d, code) = [d EXCEPT !.keys = Append(d.keys, x)]
  BY DEF Decoded, Decoders, x
<1>5. CASE code \in Letters /\ Decoded(d, code) = [d EXCEPT !.keys = Append(d.keys, x)]
  <2>1. Decoded(d, code) \in Decoders /\ Decoded(d, code).keys = Append(d.keys, x)
    BY <1>3, <1>5 DEF Decoders
  <2> QED
    BY <1>2, <1>5, <2>1
<1>6. CASE \/ Decoded(d, code) = d
           \/ Decoded(d, code) = [d EXCEPT !.state = "Relase"]
           \/ Decoded(d, code) = [d EXCEPT !.state = "ExpectingKeyCode"]
           \/ Decoded(d, code) = [d EXCEPT !.shift = (d.shift + 1) % 256]
           \/ Decoded(d, code) = [d EXCEPT !.state = "ExpectingKeyCode", !.shift = (d.shift - 1) % 256]
  BY <1>1, <1>6, ZenonT(60) DEF Decoders
<1> QED
  BY <1>4, <1>5, <1>6

LEMMA DecodesNothing ==
  ASSUME NEW d \in Decoders
  PROVE  Decodes(d, <<>>, d)
<1> DEFINE run == [k \in 0..0 |-> d]
<1>1. run \in [0..Len(<<>>) -> Decoders] /\ run[0] = d /\ Len(<<>>) = 0
  OBVIOUS
<1>2. Prefix(d.keys, d.keys)
  BY DEF Prefix, Decoders
<1> HIDE DEF run
<1> QED
  BY <1>1, <1>2 DEF Decodes

(* A run is as good as its ends.                                           *)
LEMMA DecodesEnds ==
  ASSUME NEW q \in Seq(Bytes), NEW from, NEW to, Decodes(from, q, to)
  PROVE  /\ from \in Decoders /\ to \in Decoders /\ Prefix(from.keys, to.keys)
         /\ q = <<>> => from = to
<1>1. PICK run \in [0..Len(q) -> Decoders] :
        /\ run[0] = from /\ run[Len(q)] = to
        /\ \A k \in 0..Len(q) : Prefix(run[k].keys, to.keys)
  BY DEF Decodes
<1>2. 0 \in 0..Len(q) /\ Len(q) \in 0..Len(q)
  OBVIOUS
<1>3. q = <<>> => Len(q) = 0
  OBVIOUS
<1> QED
  BY <1>1, <1>2, <1>3

(* One more byte comes.                                                    *)
LEMMA DecodesMore ==
  ASSUME NEW q \in Seq(Bytes), NEW b \in Bytes, NEW from, NEW to, Decodes(from, q, to)
  PROVE  Decodes(from, Append(q, b), Decoded(to, b))
<1> DEFINE n == Len(q)
           t == Append(q, b)
           last == Decoded(to, b)
<1>1. PICK run \in [0..n -> Decoders] :
        /\ run[0] = from /\ run[n] = to
        /\ \A k \in 1..n : run[k] = Decoded(run[k - 1], q[k])
        /\ \A k \in 0..n : Prefix(run[k].keys, to.keys)
  BY DEF Decodes
<1> DEFINE r == [k \in 0..(n + 1) |-> IF k = n + 1 THEN last ELSE run[k]]
<1>2. n \in Nat /\ Len(t) = n + 1 /\ t[n + 1] = b /\ \A k \in 1..n : t[k] = q[k]
  OBVIOUS
<1>3. to \in Decoders /\ last \in Decoders
      /\ (last.keys = to.keys \/ \E x \in Typed : last.keys = Append(to.keys, x))
  BY DecodesEnds, DecodedIs
<1> HIDE DEF n, t, last
<1>4. /\ r \in [0..(n + 1) -> Decoders] /\ r[0] = from /\ r[n + 1] = last
      /\ \A k \in 0..n : r[k] = run[k]
  BY <1>1, <1>2, <1>3
<1> HIDE DEF r
<1>5. ASSUME NEW k \in 1..(n + 1) PROVE r[k] = Decoded(r[k - 1], t[k])
  <2>1. CASE k = n + 1
    BY <1>1, <1>2, <1>4, <2>1 DEF last
  <2>2. CASE k # n + 1
    <3>1. k \in 1..n /\ k \in 0..n /\ k - 1 \in 0..n
      BY <1>2, <2>2
    <3> QED
      BY <1>1, <1>2, <1>4, <3>1
  <2> QED
    BY <2>1, <2>2
<1>6. ASSUME NEW k \in 0..(n + 1) PROVE Prefix(r[k].keys, last.keys)
  <2>1. to.keys \in Seq(Typed) /\ last.keys \in Seq(Typed)
    BY <1>3 DEF Decoders
  <2>2. CASE k = n + 1
    <3>1. Prefix(last.keys, last.keys)
      BY <2>1 DEF Prefix
    <3> QED
      BY <1>4, <2>2, <3>1
  <2>3. CASE k # n + 1
    <3>1. k \in 0..n
      BY <1>2, <2>3
    <3>2. Prefix(r[k].keys, to.keys) /\ r[k].keys \in Seq(Typed)
      BY <1>1, <1>4, <3>1 DEF Decoders
    <3> QED
      BY <1>3, <2>1, <3>2, PrefixOfMore
  <2> QED
    BY <2>2, <2>3
<1> QED
  BY <1>2, <1>4, <1>5, <1>6 DEF Decodes, t, last

(* The driver takes the first byte.                                        *)
LEMMA DecodesLess ==
  ASSUME NEW q \in Seq(Bytes), q # <<>>, NEW from, NEW to, Decodes(from, q, to)
  PROVE  Decodes(Decoded(from, Head(q)), Tail(q), to)
<1> DEFINE n == Len(q)
           t == Tail(q)
<1>1. PICK run \in [0..n -> Decoders] :
        /\ run[0] = from /\ run[n] = to
        /\ \A k \in 1..n : run[k] = Decoded(run[k - 1], q[k])
        /\ \A k \in 0..n : Prefix(run[k].keys, to.keys)
  BY DEF Decodes
<1> DEFINE r == [k \in 0..(n - 1) |-> run[k + 1]]
<1>2. /\ n \in Nat \ {0} /\ Len(t) = n - 1 /\ Head(q) = q[1]
      /\ \A k \in 1..(n - 1) : t[k] = q[k + 1]
  OBVIOUS
<1> HIDE DEF n, t
<1>3. \A k \in 0..(n - 1) : k + 1 \in 1..n /\ k + 1 \in 0..n
  BY <1>2
<1>4. r \in [0..(n - 1) -> Decoders] /\ \A k \in 0..(n - 1) : r[k] = run[k + 1]
  BY <1>1, <1>3
<1> HIDE DEF r
<1>5. r[0] = Decoded(from, Head(q)) /\ r[n - 1] = to
  <2>1. 0 \in 0..(n - 1) /\ n - 1 \in 0..(n - 1) /\ (n - 1) + 1 = n /\ 1 \in 1..n /\ 0 + 1 = 1 /\ 1 - 1 = 0
    BY <1>2
  <2>2. r[0] = run[1] /\ r[n - 1] = run[n]
    BY <1>4, <2>1
  <2> QED
    BY <1>1, <1>2, <2>1, <2>2
<1>6. ASSUME NEW k \in 1..(n - 1) PROVE r[k] = Decoded(r[k - 1], t[k])
  <2>1. k \in 0..(n - 1) /\ k - 1 \in 0..(n - 1) /\ (k - 1) + 1 = k /\ k + 1 \in 1..n /\ (k + 1) - 1 = k
    BY <1>2
  <2>2. r[k] = run[k + 1] /\ r[k - 1] = run[k] /\ t[k] = q[k + 1]
    BY <1>2, <1>4, <2>1
  <2> QED
    BY <1>1, <2>1, <2>2
<1>7. \A k \in 0..(n - 1) : Prefix(r[k].keys, to.keys)
  BY <1>1, <1>3, <1>4
<1> QED
  BY <1>2, <1>4, <1>5, <1>6, <1>7 DEF Decodes, t

(* The driver decodes the byte that it takes, and no answer that it awaits.*)
LEMMA HeardNext ==
  ASSUME TalkInv, KeyboardType, handle_message
  PROVE  Heard' = Decoded(Heard, Head(toHost))
<1> DEFINE code == Head(toHost)
<1>1. handle_acknowledgement(code) \/ feed_scancode(code)
  BY DEF handle_message
<1>2. /\ m_shift_count \in 0..255 /\ delivered \in Seq(Typed)
      /\ m_state \in {"ExpectingAck", "ExpectingKeyCode", "Relase"}
  BY DEF KeyboardType, Typed, TalkInv
<1> HIDE DEF code
<1>3. CASE handle_acknowledgement(code)
  <2>1. /\ m_state = "ExpectingAck" /\ code \in {"ack", "resend"}
        /\ m_state' \in {m_state, "ExpectingKeyCode"}
        /\ m_shift_count' = m_shift_count /\ delivered' = delivered
    BY <1>3 DEF handle_acknowledgement
  <2>2. code \notin Letters /\ code \notin Shifts /\ code # "release"
    BY <2>1, KeyboardAssumption DEF Keys
  <2>3. Decoded(Heard, code) = Heard
    BY <2>2 DEF Decoded
  <2>4. Heard' = Heard
    BY <2>1 DEF Heard
  <2> QED
    BY <2>3, <2>4 DEF code
<1>4. CASE feed_scancode(code)
  <2> DEFINE R(state, shift, ks) == [state |-> state, shift |-> shift, keys |-> ks]
  <2>1. /\ m_state # "ExpectingAck"
        /\ m_state' = Fed(code).state /\ m_shift_count' = Fed(code).shift
        /\ delivered' = delivered \o Fed(code).key
    BY <1>4 DEF feed_scancode
  <2>2. Fed(code).state # "ExpectingAck"
    BY <1>2, <2>1 DEF Fed, After
  <2>3. /\ Heard = R(m_state, m_shift_count, delivered)
        /\ Heard' = R(Fed(code).state, Fed(code).shift, delivered \o Fed(code).key)
    BY <2>1, <2>2 DEF Heard
  <2>4. delivered \o <<>> = delivered
    BY <1>2
  <2>5. "release" \notin Keys /\ Letters \cap Shifts = {} /\ Keys = Letters \cup Shifts \cup Silent
    BY KeyboardAssumption DEF Keys
  <2>6. CASE m_state = "ExpectingKeyCode" /\ code = "release"
    <3>1. Fed(code) = After("Relase", m_shift_count, <<>>)
      BY <2>5, <2>6 DEF Fed, HasCharacter
    <3>2. Decoded(Heard, code) = R("Relase", m_shift_count, delivered)
      BY <2>3, <2>5, <2>6 DEF Decoded
    <3>5. Heard' = R("Relase", m_shift_count, delivered)
      BY <2>3, <2>4, <3>1 DEF After
    <3> QED
      BY <3>2, <3>5 DEF code
  <2>7. CASE m_state = "ExpectingKeyCode" /\ code \in Shifts
    <3>1. Fed(code) = After(m_state, (m_shift_count + 1) % 256, <<>>)
      BY <2>5, <2>7 DEF Fed, HasCharacter
    <3>2. Decoded(Heard, code) = R(m_state, (m_shift_count + 1) % 256, delivered)
      BY <2>3, <2>5, <2>7 DEF Decoded
    <3>5. Heard' = R(m_state, (m_shift_count + 1) % 256, delivered)
      BY <2>3, <2>4, <3>1 DEF After
    <3> QED
      BY <3>2, <3>5 DEF code
  <2>8. CASE m_state = "ExpectingKeyCode" /\ code \in Letters
    <3> DEFINE x == <<code, m_shift_count > 0>>
    <3>1. Fed(code) = After(m_state, m_shift_count, <<x>>)
      BY <2>5, <2>8 DEF Fed, HasCharacter, with_shift
    <3>2. Decoded(Heard, code) = R(m_state, m_shift_count, Append(delivered, x))
      BY <2>3, <2>5, <2>8 DEF Decoded
    <3>3. x \in Typed
      <4>1. (m_shift_count > 0) \in BOOLEAN /\ code \in Keys
        BY <1>2, <2>5, <2>8
      <4> QED
        BY <4>1 DEF Typed
    <3> HIDE DEF x
    <3>4. delivered \o <<x>> = Append(delivered, x)
      BY <1>2, <3>3
    <3>5. Heard' = R(m_state, m_shift_count, Append(delivered, x))
      <4>1. Fed(code).state = m_state /\ Fed(code).shift = m_shift_count /\ Fed(code).key = <<x>>
        BY <3>1 DEF After
      <4> QED
        BY <2>3, <3>4, <4>1, Zenon
    <3> QED
      BY <3>2, <3>5 DEF code
  <2>9. CASE m_state # "ExpectingKeyCode" /\ code \in Shifts
    <3>1. Fed(code) = After("ExpectingKeyCode", (m_shift_count - 1) % 256, <<>>)
      BY <2>5, <2>9 DEF Fed, HasCharacter
    <3>2. Decoded(Heard, code) = R("ExpectingKeyCode", (m_shift_count - 1) % 256, delivered)
      BY <2>3, <2>5, <2>9 DEF Decoded
    <3>5. Heard' = R("ExpectingKeyCode", (m_shift_count - 1) % 256, delivered)
      BY <2>3, <2>4, <3>1 DEF After
    <3> QED
      BY <3>2, <3>5 DEF code
  <2>10. CASE m_state # "ExpectingKeyCode" /\ code \in Letters
    <3>1. Fed(code) = After("ExpectingKeyCode", m_shift_count, <<>>)
      BY <2>5, <2>10 DEF Fed, HasCharacter
    <3>2. Decoded(Heard, code) = R("ExpectingKeyCode", m_shift_count, delivered)
      BY <2>3, <2>5, <2>10 DEF Decoded
    <3>5. Heard' = R("ExpectingKeyCode", m_shift_count, delivered)
      BY <2>3, <2>4, <3>1 DEF After
    <3> QED
      BY <3>2, <3>5 DEF code
  <2>11. CASE /\ code \notin Shifts /\ code \notin Letters
              /\ m_state # "ExpectingKeyCode" \/ code # "release"
    <3>1. Fed(code) = After(m_state, m_shift_count, <<>>)
      BY <2>11 DEF Fed, HasCharacter
    <3>2. Decoded(Heard, code) = R(m_state, m_shift_count, delivered)
      BY <2>3, <2>11 DEF Decoded
    <3>5. Heard' = R(m_state, m_shift_count, delivered)
      BY <2>3, <2>4, <3>1 DEF After
    <3> QED
      BY <3>2, <3>5 DEF code
  <2> QED
    BY <2>6, <2>7, <2>8, <2>9, <2>10, <2>11
<1> QED
  BY <1>1, <1>3, <1>4

FewShifts == IsFiniteSet(Shifts) /\ Cardinality(Shifts) < 256

(* How many shift keys are down.                                           *)
LEMMA ShiftsDown ==
  ASSUME IsFiniteSet(held), FewShifts
  PROVE  /\ IsFiniteSet(held \cap Shifts) /\ Cardinality(held \cap Shifts) \in 0..255
         /\ Cardinality(held \cap Shifts) > 0 <=> held \cap Shifts # {}
         /\ \A key \in Shifts \ held :
              /\ Cardinality(held \cap Shifts) + 1 \in 0..255
              /\ Cardinality((held \cup {key}) \cap Shifts) = Cardinality(held \cap Shifts) + 1
         /\ \A key \in Shifts \cap held :
              /\ Cardinality(held \cap Shifts) - 1 \in 0..255
              /\ Cardinality((held \ {key}) \cap Shifts) = Cardinality(held \cap Shifts) - 1
<1> DEFINE down == held \cap Shifts
<1>1. IsFiniteSet(Shifts) /\ Cardinality(Shifts) < 256 /\ Cardinality(Shifts) \in Nat
  BY FS_CardinalityType DEF FewShifts
<1>2. IsFiniteSet(down) /\ down \in SUBSET Shifts
  BY <1>1, FS_Subset
<1>3. Cardinality(down) <= Cardinality(Shifts) /\ Cardinality(down) \in Nat
  BY <1>1, <1>2, FS_Subset, FS_CardinalityType
<1>4. Cardinality(down) > 0 <=> down # {}
  BY <1>2, <1>3, FS_EmptySet
<1>5. ASSUME NEW key \in Shifts \ held
      PROVE  /\ Cardinality(down) + 1 \in 0..255
             /\ Cardinality((held \cup {key}) \cap Shifts) = Cardinality(down) + 1
  <2>1. (held \cup {key}) \cap Shifts = down \cup {key} /\ key \notin down
    OBVIOUS
  <2> HIDE DEF down
  <2>2. Cardinality(down \cup {key}) = Cardinality(down) + 1 /\ IsFiniteSet(down \cup {key})
    BY <1>2, <2>1, FS_AddElement
  <2>3. down \cup {key} \in SUBSET Shifts
    BY <1>2
  <2>4. Cardinality(down \cup {key}) <= Cardinality(Shifts)
    BY <1>1, <2>3, FS_Subset
  <2> QED
    BY <1>1, <1>3, <2>1, <2>2, <2>4
<1>6. ASSUME NEW key \in Shifts \cap held
      PROVE  /\ Cardinality(down) - 1 \in 0..255
             /\ Cardinality((held \ {key}) \cap Shifts) = Cardinality(down) - 1
  <2>1. (held \ {key}) \cap Shifts = down \ {key} /\ key \in down
    OBVIOUS
  <2> HIDE DEF down
  <2>2. Cardinality(down \ {key}) = Cardinality(down) - 1
    BY <1>2, <2>1, FS_RemoveElement
  <2>3. Cardinality(down) > 0
    BY <1>4, <2>1
  <2> QED
    BY <1>1, <1>3, <2>1, <2>2, <2>3
<1>7. Cardinality(down) \in 0..255
  BY <1>1, <1>3
<1> QED
  BY <1>2, <1>4, <1>5, <1>6, <1>7, Zenon

LEMMA DecodeMessage ==
  ASSUME TalkInv, KeyboardType, DecodeInv, handle_message
  PROVE  DecodeInv'
<1>1. /\ toHost # <<>> /\ toHost' = Tail(toHost) /\ toHost \in Seq(Bytes)
      /\ held' = held /\ typed' = typed /\ silentReleased' = silentReleased
  BY DEF handle_message, keys, TalkInv
<1>2. Pressed' = Pressed
  BY <1>1 DEF Pressed
<1>3. Heard' = Decoded(Heard, Head(toHost))
  BY HeardNext
<1>4. silentReleased = 0 => Decodes(Heard', toHost', Pressed)
  <2> SUFFICES ASSUME silentReleased = 0 PROVE Decodes(Heard', toHost', Pressed)
    OBVIOUS
  <2>1. Decodes(Heard, toHost, Pressed)
    BY DEF DecodeInv
  <2>2. Decodes(Decoded(Heard, Head(toHost)), Tail(toHost), Pressed)
    BY <1>1, <2>1, DecodesLess
  <2> QED
    BY <1>1, <1>3, <2>2
<1>5. Decodes(Heard', toHost', Pressed') <=> Decodes(Heard', toHost', Pressed)
  BY <1>2
<1> QED
  BY <1>1, <1>4, <1>5 DEF DecodeInv

(* A press is decoded as what is down afterwards.                          *)
LEMMA PressDecoded ==
  ASSUME DecodeInv, FewShifts, NEW key \in Keys, Press(key), Pressed \in Decoders
  PROVE  Decoded(Pressed, key) = Pressed'
<1> DEFINE R(state, shift, ks) == [state |-> state, shift |-> shift, keys |-> ks]
           c == Cardinality(held \cap Shifts)
           x == <<key, held \cap Shifts # {}>>
<1>1. /\ key \notin held \/ key \in Letters
      /\ held' = held \cup {key}
      /\ typed' = IF key \in Letters THEN Append(typed, x) ELSE typed
  BY DEF Press
<1>2. Pressed = R("ExpectingKeyCode", c, typed)
  BY DEF Pressed
<1>3. Pressed' = R("ExpectingKeyCode", Cardinality(held' \cap Shifts), typed')
  BY DEF Pressed
<1>4. "release" \notin Keys /\ Letters \cap Shifts = {} /\ Keys = Letters \cup Shifts \cup Silent
      /\ Silent \cap (Letters \cup Shifts) = {}
  BY KeyboardAssumption DEF Keys
<1>5. /\ c \in 0..255 /\ (c > 0 <=> held \cap Shifts # {})
      /\ \A k \in Shifts \ held : /\ c + 1 \in 0..255
                                  /\ Cardinality((held \cup {k}) \cap Shifts) = c + 1
  BY ShiftsDown DEF DecodeInv
<1>6. x = <<key, c > 0>>
  <2>1. (held \cap Shifts # {}) = (c > 0)
    BY <1>5
  <2> QED
    BY <2>1
<1> HIDE DEF c, x
<1>7. CASE key \in Letters
  <2>1. held' \cap Shifts = held \cap Shifts
    BY <1>1, <1>4, <1>7
  <2>2. Pressed' = R("ExpectingKeyCode", c, Append(typed, x))
    BY <1>1, <1>3, <1>7, <2>1 DEF c
  <2>3. Decoded(Pressed, key) = R("ExpectingKeyCode", c, Append(typed, x))
    BY <1>2, <1>4, <1>6, <1>7 DEF Decoded
  <2> QED
    BY <2>2, <2>3
<1>8. CASE key \in Shifts
  <2>1. key \in Shifts \ held /\ key \notin Letters
    BY <1>1, <1>4, <1>8
  <2>2. Cardinality(held' \cap Shifts) = c + 1 /\ (c + 1) % 256 = c + 1
    BY <1>1, <1>5, <2>1
  <2>3. Pressed' = R("ExpectingKeyCode", c + 1, typed)
    BY <1>1, <1>3, <2>1, <2>2
  <2>4. Decoded(Pressed, key) = R("ExpectingKeyCode", (c + 1) % 256, typed)
    BY <1>2, <1>4, <1>8 DEF Decoded
  <2> QED
    BY <2>2, <2>3, <2>4
<1>9. CASE key \notin Letters /\ key \notin Shifts
  <2>1. held' \cap Shifts = held \cap Shifts
    BY <1>1, <1>9
  <2>2. Pressed' = R("ExpectingKeyCode", c, typed)
    BY <1>1, <1>3, <1>9, <2>1 DEF c
  <2>3. Decoded(Pressed, key) = Pressed
    BY <1>4, <1>9 DEF Decoded
  <2> QED
    BY <1>2, <2>2, <2>3
<1> QED
  BY <1>7, <1>8, <1>9

(* So is a release, if the key has a character or is a shift key.          *)
LEMMA ReleaseDecoded ==
  ASSUME DecodeInv, FewShifts, NEW key \in Letters \cup Shifts, key \in held,
         held' = held \ {key}, typed' = typed
  PROVE  Decoded(Decoded(Pressed, "release"), key) = Pressed'
<1> DEFINE R(state, shift, ks) == [state |-> state, shift |-> shift, keys |-> ks]
           c == Cardinality(held \cap Shifts)
<1>1. Pressed = R("ExpectingKeyCode", c, typed)
  BY DEF Pressed
<1>2. Pressed' = R("ExpectingKeyCode", Cardinality(held' \cap Shifts), typed)
  BY DEF Pressed
<1>3. "release" \notin Keys /\ Letters \cap Shifts = {} /\ Keys = Letters \cup Shifts \cup Silent
  BY KeyboardAssumption DEF Keys
<1>4. /\ c \in 0..255
      /\ \A k \in Shifts \cap held : /\ c - 1 \in 0..255
                                     /\ Cardinality((held \ {k}) \cap Shifts) = c - 1
  BY ShiftsDown DEF DecodeInv
<1> HIDE DEF c
<1>5. Decoded(Pressed, "release") = R("Relase", c, typed)
  BY <1>1, <1>3 DEF Decoded
<1>6. CASE key \in Letters
  <2>1. held' \cap Shifts = held \cap Shifts
    BY <1>3, <1>6
  <2>2. Pressed' = R("ExpectingKeyCode", c, typed)
    BY <1>2, <2>1 DEF c
  <2>3. Decoded(R("Relase", c, typed), key) = R("ExpectingKeyCode", c, typed)
    BY <1>3, <1>6 DEF Decoded
  <2> QED
    BY <1>5, <2>2, <2>3
<1>7. CASE key \in Shifts
  <2>1. Cardinality(held' \cap Shifts) = c - 1 /\ (c - 1) % 256 = c - 1
    BY <1>4, <1>7
  <2>2. Pressed' = R("ExpectingKeyCode", c - 1, typed)
    BY <1>2, <2>1
  <2>3. Decoded(R("Relase", c, typed), key) = R("ExpectingKeyCode", (c - 1) % 256, typed)
    BY <1>3, <1>7 DEF Decoded
  <2> QED
    BY <1>5, <2>1, <2>2, <2>3
<1> QED
  BY <1>6, <1>7

LEMMA DecodeKeys ==
  ASSUME TalkInv, DecodeInv, FewShifts, NEW key \in Keys, Press(key) \/ Release(key)
  PROVE  DecodeInv'
<1>1. toHost \in Seq(Bytes) /\ key \in Bytes /\ "release" \in Bytes
  BY DEF TalkInv, Bytes
<1>2. Heard' = Heard
  <2>1. m_state' = m_state /\ m_shift_count' = m_shift_count /\ delivered' = delivered
    BY DEF Press, Release, driver
  <2> QED
    BY <2>1 DEF Heard
<1>3. IsFiniteSet(held) /\ silentReleased \in Nat
  BY DEF DecodeInv
<1>4. CASE Press(key)
  <2>1. /\ toHost' = Append(toHost, key) /\ silentReleased' = silentReleased
        /\ held' = held \cup {key}
    BY <1>4 DEF Press
  <2>2. IsFiniteSet(held')
    BY <1>3, <2>1, FS_AddElement
  <2>3. silentReleased = 0 => Decodes(Heard', toHost', Pressed')
    <3> SUFFICES ASSUME silentReleased = 0 PROVE Decodes(Heard', toHost', Pressed')
      OBVIOUS
    <3>1. Decodes(Heard, toHost, Pressed)
      BY DEF DecodeInv
    <3>2. Pressed \in Decoders
      BY <1>1, <3>1, DecodesEnds
    <3>3. Decoded(Pressed, key) = Pressed'
      BY <1>4, <3>2, PressDecoded
    <3>4. Decodes(Heard, Append(toHost, key), Decoded(Pressed, key))
      BY <1>1, <3>1, DecodesMore
    <3> QED
      BY <1>2, <2>1, <3>3, <3>4
  <2> QED
    BY <1>3, <2>1, <2>2, <2>3 DEF DecodeInv
<1>5. CASE Release(key)
  <2>1. key \in held /\ held' = held \ {key} /\ typed' = typed
    BY <1>5 DEF Release
  <2>2. IsFiniteSet(held')
    BY <1>3, <2>1, FS_RemoveElement
  <2>3. CASE key \notin Shifts /\ toHost' = toHost /\ silentReleased' = silentReleased
    <3>1. held' \cap Shifts = held \cap Shifts
      BY <2>1, <2>3
    <3>2. Pressed' = Pressed
      BY <2>1, <3>1 DEF Pressed
    <3>3. silentReleased = 0 => Decodes(Heard', toHost', Pressed')
      BY <1>2, <2>3, <3>2 DEF DecodeInv
    <3> QED
      BY <1>3, <2>2, <2>3, <3>3 DEF DecodeInv
  <2>4. CASE /\ toHost' = toHost \o <<"release", key>>
             /\ silentReleased' = silentReleased + (IF key \in Silent THEN 1 ELSE 0)
    <3>1. silentReleased' \in Nat /\ (silentReleased' = 0 => silentReleased = 0 /\ key \notin Silent)
      BY <1>3, <2>4
    <3>2. ASSUME silentReleased' = 0 PROVE Decodes(Heard', toHost', Pressed')
      <4>1. Decodes(Heard, toHost, Pressed)
        BY <3>1, <3>2 DEF DecodeInv
      <4>2. key \in Letters \cup Shifts
        BY <3>1, <3>2 DEF Keys
      <4>3. Decoded(Decoded(Pressed, "release"), key) = Pressed'
        BY <2>1, <4>2, ReleaseDecoded
      <4>4. Append(toHost, "release") \in Seq(Bytes)
        BY <1>1
      <4>5. Decodes(Heard, Append(toHost, "release"), Decoded(Pressed, "release"))
        BY <1>1, <4>1, DecodesMore
      <4>6. Decodes(Heard, Append(Append(toHost, "release"), key),
                    Decoded(Decoded(Pressed, "release"), key))
        BY <1>1, <4>4, <4>5, DecodesMore
      <4>7. toHost' = Append(Append(toHost, "release"), key)
        BY <1>1, <2>4
      <4> QED
        BY <1>2, <4>3, <4>6, <4>7
    <3> QED
      BY <2>2, <3>1, <3>2 DEF DecodeInv
  <2> QED
    BY <1>5, <2>3, <2>4 DEF Release
<1> QED
  BY <1>4, <1>5

LEMMA DecodeStep ==
  ASSUME TalkInv, KeyboardType, DecodeInv, FewShifts, [Next]_vars
  PROVE  DecodeInv'
<1>1. CASE handle_message
  BY <1>1, DecodeMessage
<1>2. CASE \E key \in Keys : Press(key) \/ Release(key)
  BY <1>2, DecodeKeys
<1>3. CASE KeyboardObeys \/ KeyboardAsksAgain
  <2>0. PICK answer \in Answers : \E dev : KeyboardAnswers(answer, dev)
    BY <1>3 DEF KeyboardObeys, KeyboardAsksAgain, Answers
  <2>1. PICK dev : KeyboardAnswers(answer, dev)
    BY <2>0
  <2>2. /\ toHost' = Append(toHost, answer)
        /\ m_state' = m_state /\ m_shift_count' = m_shift_count /\ delivered' = delivered
        /\ held' = held /\ typed' = typed /\ silentReleased' = silentReleased
    BY <2>1 DEF KeyboardAnswers, driver, keys
  <2>3. Heard' = Heard /\ Pressed' = Pressed
    BY <2>2 DEF Heard, Pressed
  <2>4. answer \notin Keys /\ answer # "release"
    BY KeyboardAssumption DEF Answers
  <2>5. Decoded(Pressed, answer) = Pressed
    BY <2>4 DEF Decoded, Keys
  <2>6. toHost \in Seq(Bytes) /\ answer \in Bytes
    BY DEF TalkInv, Bytes
  <2>7. silentReleased = 0 => Decodes(Heard', toHost', Pressed')
    <3> SUFFICES ASSUME silentReleased = 0 PROVE Decodes(Heard', toHost', Pressed')
      OBVIOUS
    <3>1. Decodes(Heard, toHost, Pressed)
      BY DEF DecodeInv
    <3>2. Decodes(Heard, Append(toHost, answer), Decoded(Pressed, answer))
      BY <2>6, <3>1, DecodesMore
    <3> QED
      BY <2>2, <2>3, <2>5, <3>2
  <2> QED
    BY <2>2, <2>7 DEF DecodeInv
<1>4. CASE UNCHANGED <<driver, toHost, delivered, keys>>
  <2>1. /\ toHost' = toHost
        /\ m_state' = m_state /\ m_shift_count' = m_shift_count /\ delivered' = delivered
        /\ held' = held /\ typed' = typed /\ silentReleased' = silentReleased
    BY <1>4 DEF driver, keys
  <2>2. Heard' = Heard /\ Pressed' = Pressed
    BY <2>1 DEF Heard, Pressed
  <2> QED
    BY <2>1, <2>2 DEF DecodeInv
<1>5. CASE \/ \E pid \in Pids : OpenStart(pid) \/ CloseStart(pid)
           \/ \E length \in 1..BufferSize : ReadStart(length)
           \/ OpenEnd \/ CloseEnd \/ ReadEnd \/ UNCHANGED vars
  BY <1>4, <1>5 DEF OpenStart, CloseStart, ReadStart, OpenEnd, CloseEnd, ReadEnd, vars, driver, keys
<1> QED
  BY <1>1, <1>2, <1>3, <1>5 DEF Next

(* As long as no key without a character was released, every letter        *)
(* reaches the file once, in order, in the case that the shift keys had    *)
(* when it was pressed: for any number of keys and garbled bytes, and all  *)
(* numbers of shift keys that m_shift_count can count (feed_scancode).     *)
THEOREM LettersAreDecoded ==
  ASSUME FewShifts
  PROVE  Spec => []KeysAreDecoded
<1>1. Init => DecodeInv
  <2> SUFFICES ASSUME Init PROVE DecodeInv
    OBVIOUS
  <2>1. /\ m_state = "ExpectingAck" /\ m_shift_count = 0 /\ delivered = <<>>
        /\ toHost = <<>> /\ held = {} /\ typed = <<>> /\ silentReleased = 0
    BY DEF Init
  <2>2. held \cap Shifts = {} /\ IsFiniteSet(held) /\ Cardinality({}) = 0
    BY <2>1, FS_EmptySet
  <2>3. /\ Heard = [state |-> "ExpectingKeyCode", shift |-> 0, keys |-> <<>>]
        /\ Pressed = [state |-> "ExpectingKeyCode", shift |-> 0, keys |-> <<>>]
    BY <2>1, <2>2 DEF Heard, Pressed
  <2>4. Heard \in Decoders /\ Pressed = Heard
    BY <2>3 DEF Decoders
  <2>5. Decodes(Heard, toHost, Pressed)
    BY <2>1, <2>4, DecodesNothing
  <2> QED
    BY <2>1, <2>2, <2>5 DEF DecodeInv
<1>2. TalkInv /\ KeysInv /\ DecodeInv /\ [Next]_vars => DecodeInv'
  BY DecodeStep DEF KeysInv
<1>3. TalkInv /\ DecodeInv => KeysAreDecoded
  <2> SUFFICES ASSUME TalkInv, DecodeInv, silentReleased = 0
               PROVE  Prefix(delivered, typed) /\ (toHost = <<>> => delivered = typed)
    BY DEF KeysAreDecoded
  <2>1. Decodes(Heard, toHost, Pressed) /\ toHost \in Seq(Bytes)
    BY DEF DecodeInv, TalkInv
  <2>2. Prefix(Heard.keys, Pressed.keys) /\ (toHost = <<>> => Heard = Pressed)
    BY <2>1, DecodesEnds
  <2>3. Heard.keys = delivered /\ Pressed.keys = typed
    BY DEF Heard, Pressed
  <2> QED
    BY <2>2, <2>3
<1> QED
  BY <1>1, <1>2, <1>3, TalkAlways, KeysAlways, PTL DEF Spec

=============================================================================
