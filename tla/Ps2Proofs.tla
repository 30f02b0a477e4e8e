----------------------------- MODULE Ps2Proofs -----------------------------
(***************************************************************************)
(* For any number of keys pressed and answers that come late: a device is  *)
(* not taken for a keyboard nor a keyboard for another device; and when    *)
(* all is quiet, the driver is set up for the keyboard there is, and the   *)
(* kernel stops for a reason only.                                         *)
(***************************************************************************)
EXTENDS Ps2, TLAPS, SequenceTheorems

(* All that anybody says.                                                  *)
Protocol ==
  {"none", "ack", "ok", "resend", "passed", "failed", "00", "bad", "configuration", "AB", "41"}
Words == Protocol \cup ScanCodes \cup UNION {{k.extra[1], k.ident[1], k.ident[2]} : k \in Kinds}
Senders == {"none", "controller", "first", "second"}
Causes == {"none", "configuration", "self_test", "test_channel", "key", "reset",
           "disable_scanning", "identify"}

Bytes == [value : Words, port : Senders, cause : Causes]
Sober == {b \in Bytes : b.value # "ok"}
Calm  == {b \in Bytes : b.value \notin {"ok", "AB"}}
KeyBytes == {b \in Calm : b.cause # "configuration" /\ b.value # "passed"}

(* Nothing is set when the channels are known.                             *)
HardwareOK ==
  /\ channels \in {{"first"}, Ports}
  /\ ports \in [channels -> [kind : Kinds, passes : BOOLEAN]]
  /\ config \in Configurations

Kind(port) == ports[port].kind

(* What a read does: it takes the first byte, or gives the last one again, *)
(* too early or because there is none.                                     *)
TakesFirst(bytes, byte) ==
  bytes # <<>> /\ byte = bytes[1] /\ output' = Tail(bytes) /\ (late' <=> late)
TooEarly(bytes, byte) == bytes # <<>> /\ byte = last /\ output' = bytes /\ late'
FindsNone(bytes, byte) == bytes = <<>> /\ byte = last /\ output' = <<>> /\ (late' <=> late)

-----------------------------------------------------------------------------
(* The invariant of the conversation, however early the driver reads.      *)

Early    == {"disable", "configure", "self_test", "test_first"}
Calmly   == {"extra_read", "disable_scanning", "identify"}
Checking == {"reset", "reset_test", "first_byte", "second_byte"} \cup Calmly
Places   == Early \cup {"test_second"} \cup Checking
              \cup {"enable_interrupt", "construct", "done", "panic"}
Queues   == {<<>>, <<"first">>, <<"second">>, <<"first", "second">>}

SpeechType ==
  /\ HardwareOK
  /\ pc \in Places
  /\ output \in Seq(Bytes) /\ last \in Bytes
  /\ waiting \in [Ports -> Seq(KeyBytes)]
  /\ scanning \subseteq channels

(* Only a port that there is is checked.                                   *)
CheckInv ==
  /\ toCheck \in Queues
  /\ toCheck \in {<<"second">>, <<"first", "second">>} => "second" \in channels
  /\ pc \in Early => toCheck = <<>>
  /\ pc = "test_second" => toCheck \in {<<>>, <<"first">>} /\ "second" \in channels
  /\ pc \in Checking => toCheck # <<>>
  /\ found # None => found.port \in Ports

(* The self test is passed only if the configuration was read in time.     *)
InStep ==
  /\ output = <<>> /\ config.disabled = channels
  /\ is_double_channel => "second" \in channels
OutOfStep == output # <<>> /\ output[1].value # "passed"

StartInv ==
  /\ pc \in {"disable", "configure"} => output \in Seq(KeyBytes) /\ last \in KeyBytes
  /\ pc = "configure" => config.disabled = channels
  /\ pc = "self_test" => last.value # "passed" /\ (InStep \/ OutOfStep)
  /\ pc = "test_first" => (is_double_channel => "second" \in channels)

(* A second byte that stands for a keyboard is one's.                      *)
Right(kind, value) == KeyboardType(value) # "none" => kind.ident = <<"AB", "83">>

(* What follows the end of the self test is of this device or a key, and   *)
(* what follows AB is the rest of its identification.                      *)
EndOnce(s) == \A i, j \in 1..Len(s) : i < j /\ s[i].value = "ok" => s[j] \in Calm
Announced(kind, s) ==
  \A i \in 1..Len(s) : s[i].value = "AB" => i + 1 \in 1..Len(s) /\ Right(kind, s[i + 1].value)

SpeechInv ==
  /\ pc \in Early \cup {"test_second", "reset", "first_byte", "second_byte"} => output \in Seq(Sober)
  /\ pc = "reset_test" => last.value # "ok" /\ EndOnce(output)
  /\ pc \in Calmly => output \in Seq(Calm) /\ last.value # "AB"
  /\ pc = "first_byte" => last.value # "AB" /\ Announced(Kind(dev), output)
  /\ pc = "second_byte" => last.value = "AB" /\ output # <<>> /\ Right(Kind(dev), output[1].value)

TypeInv == SpeechType /\ CheckInv /\ StartInv /\ SpeechInv /\ TypeIsRight

-----------------------------------------------------------------------------
(* The invariant of a quiet run.                                           *)

Good(port) == port \in channels /\ ports[port].passes

(* What is left to check when all was answered in time.                    *)
InTurn ==
  \/ toCheck = <<>>
  \/ toCheck = <<"first">> /\ Good("first") /\ ~Good("second")
  \/ toCheck = <<"second">> /\ Good("second")
  \/ toCheck = <<"first", "second">> /\ Good("first") /\ Good("second")

KeyboardAt(port) == [port |-> port, type |-> IF config.translate THEN "translated" ELSE "keyboard"]
FirstFound == IF Usable("first") THEN KeyboardAt("first") ELSE None
FoundSoFar ==
  CASE toCheck = <<>> -> IF Usable("second") THEN KeyboardAt("second") ELSE FirstFound
    [] toCheck = <<"second">> -> FirstFound
    [] OTHER -> None

(* The device that is checked now, in words.                               *)
Refuses(command) == command \in Kind(dev).refuses
Obeys == Kind(dev).there /\ ~Refuses("reset")
NothingSaid == output = <<>>
Only(value) == Len(output) = 1 /\ output[1].value = value
Second == IF config.translate /\ Kind(dev).ident[2] = "83" THEN "41" ELSE Kind(dev).ident[2]

AnswerInv ==
  /\ pc \notin {"reset_test", "extra_read", "first_byte", "second_byte", "panic"} => NothingSaid
  /\ pc = "reset_test" =>
       \/ Obeys /\ output # <<>> /\ output[1].value = "ok" /\ Len(output) <= 2
       \/ ~Kind(dev).there /\ NothingSaid /\ last.value = "ack"
  /\ pc = "extra_read" => Obeys /\ Len(output) <= 1
  /\ pc = "disable_scanning" => Obeys
  /\ pc = "identify" => Obeys /\ ~Refuses("disable_scanning")
  /\ pc \in {"first_byte", "second_byte"} => Kind(dev).there /\ Kind(dev).refuses = {}
  /\ pc = "first_byte" =>
       \/ Kind(dev).ident = <<>> /\ NothingSaid /\ last.value = "ack"
       \/ Kind(dev).ident = <<Kind(dev).ident[1]>> /\ Kind(dev).ident[1] # "AB" /\ Only(Kind(dev).ident[1])
       \/ /\ Kind(dev).ident = <<"AB", Kind(dev).ident[2]>>
          /\ Len(output) = 2 /\ output[1].value = "AB" /\ output[2].value = Second
  /\ pc = "second_byte" => Kind(dev).ident = <<"AB", Kind(dev).ident[2]>> /\ Only(Second)

QuietType ==
  /\ HardwareOK
  /\ pc \in Places
  /\ output \in Seq(Bytes) /\ last \in Bytes
  /\ waiting = [p \in Ports |-> <<>>]

QuietCheck ==
  /\ pc # "test_second" => InTurn
  /\ pc \in Early => toCheck = <<>>
  /\ pc = "self_test" => config.disabled = channels
  /\ pc = "configure" => config.disabled = channels
  /\ pc \in {"self_test", "test_first"} => (is_double_channel <=> "second" \in channels)
  /\ pc = "test_second" =>
       "second" \in channels /\ toCheck = IF Good("first") THEN <<"first">> ELSE <<>>
  /\ pc \in Checking => toCheck # <<>>
  /\ pc \in {"enable_interrupt", "construct", "done"} => toCheck = <<>>

QuietFound ==
  /\ pc \in Early \cup {"test_second"} => found = None
  /\ pc \in Checking \cup {"enable_interrupt", "construct", "done"} => found = FoundSoFar
  /\ pc \in {"identify", "first_byte", "second_byte"} => dev \notin scanning
  /\ found # None => found.port \notin scanning
  /\ pc \in Places \ {"disable", "configure", "construct", "done", "panic"} => config.irq = {}
  /\ pc \in {"construct", "done"} /\ found # None => config.irq = {found.port}
  /\ pc = "construct" => found # None
  /\ pc = "done" => s_keyboard = found /\ found.type # "translated"
  /\ pc # "done" => s_keyboard = None

QuietRun == QuietType /\ AnswerInv /\ QuietCheck /\ QuietFound /\ StopsForAReason
QuietInv == Quiet => QuietRun

-----------------------------------------------------------------------------
(* Reading, and the answers.                                               *)

(* A read does one of these.                                               *)
LEMMA ReadsOne ==
  ASSUME NEW bytes \in Seq(Bytes), NEW byte, ReadResponse(bytes, byte)
  PROVE  /\ last' = byte
         /\ TakesFirst(bytes, byte) \/ TooEarly(bytes, byte) \/ FindsNone(bytes, byte)
<1>1. /\ byte \in Readable(bytes) /\ output' = Taken(bytes, byte) /\ last' = byte
      /\ late' = (late \/ (bytes # <<>> /\ byte # Head(bytes)))
  BY DEF ReadResponse
<1>2. CASE bytes = <<>>
  <2>1. byte = last /\ output' = <<>>
    BY <1>1, <1>2 DEF Readable, Taken
  <2>2. late' <=> late
    BY <1>1, <1>2
  <2> QED
    BY <1>1, <1>2, <2>1, <2>2 DEF FindsNone
<1>3. CASE bytes # <<>> /\ byte = Head(bytes)
  <2>1. output' = Tail(bytes) /\ Head(bytes) = bytes[1]
    BY <1>1, <1>3 DEF Taken
  <2>2. late' <=> late
    BY <1>1, <1>3
  <2> QED
    BY <1>1, <1>3, <2>1, <2>2 DEF TakesFirst
<1>4. CASE bytes # <<>> /\ byte # Head(bytes)
  <2>1. output' = bytes /\ byte = last
    BY <1>1, <1>4 DEF Taken, Readable
  <2>2. late'
    BY <1>1, <1>4
  <2> QED
    BY <1>1, <1>4, <2>1, <2>2 DEF TooEarly
<1> QED
  BY <1>2, <1>3, <1>4

(* What follows the first of a queue.                                      *)
LEMMA TailIs ==
  ASSUME NEW S, NEW s \in Seq(S), s # <<>>
  PROVE  /\ Tail(s) \in Seq(S) /\ Len(Tail(s)) = Len(s) - 1 /\ Len(s) \in Nat /\ Len(s) >= 1
         /\ s[1] \in S
         /\ \A i \in 1..Len(Tail(s)) : Tail(s)[i] = s[i + 1] /\ i + 1 \in 1..Len(s)
OBVIOUS

(* A queue with one more.                                                  *)
LEMMA AppendIs ==
  ASSUME NEW S, NEW s \in Seq(S), NEW e \in S
  PROVE  /\ Append(s, e) \in Seq(S) /\ Len(Append(s, e)) = Len(s) + 1 /\ Len(s) \in Nat
         /\ Append(s, e) # <<>>
         /\ Append(s, e)[Len(s) + 1] = e
         /\ \A i \in 1..Len(s) : Append(s, e)[i] = s[i]
OBVIOUS

(* A queue of two.                                                         *)
LEMMA TwoIs ==
  ASSUME NEW S, NEW s \in Seq(S), Len(s) = 2
  PROVE  s = <<s[1], s[2]>>
OBVIOUS

(* A queue of three.                                                       *)
LEMMA ThreeIs ==
  ASSUME NEW S, NEW s \in Seq(S), Len(s) = 3
  PROVE  s = <<s[1], s[2], s[3]>>
OBVIOUS

(* The first of a queue stays the first.                                   *)
LEMMA FirstStays ==
  ASSUME NEW S, NEW s \in Seq(S), s # <<>>, NEW e \in S
  PROVE  1 \in 1..Len(s) /\ Append(s, e)[1] = s[1] /\ Append(s, e) # <<>>
<1>1. Len(s) \in Nat /\ Len(s) >= 1
  BY TailIs
<1>2. 1 \in 1..Len(s)
  BY <1>1
<1> QED
  BY <1>2, AppendIs

(* A queue behind another.                                                 *)
LEMMA BehindIs ==
  ASSUME NEW S, NEW s \in Seq(S), NEW t \in Seq(S)
  PROVE  /\ s \o t \in Seq(S) /\ Len(s \o t) = Len(s) + Len(t)
         /\ Len(s) \in Nat /\ Len(t) \in Nat
         /\ \A i \in 1..Len(s) : (s \o t)[i] = s[i]
         /\ \A i \in 1..Len(t) : (s \o t)[Len(s) + i] = t[i]
OBVIOUS

(* A byte.                                                                 *)
LEMMA ByteIs ==
  ASSUME NEW value \in Words, NEW port \in Senders, NEW cause \in Causes
  PROVE  /\ Byte(value, port, cause) \in Bytes /\ Byte(value, port, cause).value = value
         /\ Byte(value, port, cause).cause = cause
BY DEF Byte, Bytes

(* The bytes of an answer.                                                 *)
LEMMA AnswerIs ==
  ASSUME NEW values \in Seq(Words), NEW port \in Senders, NEW cause \in Causes
  PROVE  /\ Answer(values, port, cause) \in Seq(Bytes)
         /\ Len(Answer(values, port, cause)) = Len(values) /\ Len(values) \in Nat
         /\ \A i \in 1..Len(values) : Answer(values, port, cause)[i].value = values[i]
<1> DEFINE a == Answer(values, port, cause)
<1>1. a = [i \in 1..Len(values) |-> Byte(values[i], port, cause)] /\ Len(values) \in Nat
  BY DEF Answer
<1>2. \A i \in 1..Len(values) : /\ values[i] \in Words
                                /\ Byte(values[i], port, cause) \in Bytes
                                /\ Byte(values[i], port, cause).value = values[i]
  BY ByteIs
<1> QED
  BY <1>1, <1>2

(* A queue of one.                                                         *)
LEMMA OneIs ==
  ASSUME NEW S, NEW a \in S, NEW s, s = <<a>>
  PROVE  s \in Seq(S) /\ Len(s) = 1 /\ s[1] = a /\ Head(s) = a
OBVIOUS

(* Queues of none, one and two.                                            *)
LEMMA ShortIs ==
  ASSUME NEW S, NEW a \in S, NEW b \in S
  PROVE  <<>> \in Seq(S) /\ <<a>> \in Seq(S) /\ <<a, b>> \in Seq(S)
OBVIOUS

(* What is said in the protocol are words.                                 *)
LEMMA Said ==
  /\ Protocol \subseteq Words /\ ScanCodes \subseteq Words
  /\ \A k \in Kinds : KnownKind(k) => k.extra \in Seq(Words) /\ k.ident \in Seq(Words)
<1>1. ASSUME NEW k \in Kinds PROVE {k.extra[1], k.ident[1], k.ident[2]} \subseteq Words
  BY DEF Words
<1>2. "AB" \in Words
  BY DEF Words, Protocol
<1>3. ASSUME NEW k \in Kinds, KnownKind(k) PROVE k.extra \in Seq(Words)
  <2>1. k.extra[1] \in Words
    BY <1>1
  <2>2. <<>> \in Seq(Words) /\ <<k.extra[1]>> \in Seq(Words)
    BY <2>1, ShortIs
  <2> QED
    BY <1>3, <2>2, Zenon DEF KnownKind
<1>4. ASSUME NEW k \in Kinds, KnownKind(k) PROVE k.ident \in Seq(Words)
  <2>1. k.ident[1] \in Words /\ k.ident[2] \in Words
    BY <1>1
  <2>2. /\ <<>> \in Seq(Words) /\ <<k.ident[1]>> \in Seq(Words)
        /\ <<"AB", k.ident[2]>> \in Seq(Words)
    BY <1>2, <2>1, ShortIs
  <2> QED
    BY <1>4, <2>2, Zenon DEF KnownKind
<1> QED
  BY <1>3, <1>4 DEF Words

(* A queue of some bytes is one of more.                                   *)
LEMMA MoreBytes ==
  ASSUME NEW S, NEW T, S \subseteq T, NEW s \in Seq(S)
  PROVE  s \in Seq(T)
OBVIOUS

(* Who says what.                                                          *)
LEMMA Classes ==
  /\ KeyBytes \subseteq Calm /\ Calm \subseteq Sober /\ Sober \subseteq Bytes
  /\ KeyBytes \subseteq Sober /\ KeyBytes \subseteq Bytes /\ Calm \subseteq Bytes
BY DEF KeyBytes, Calm, Sober

(* A read of bytes of a class leaves bytes of that class.                  *)
LEMMA ReadsOf ==
  ASSUME NEW S, S \subseteq Bytes, NEW bytes \in Seq(S), NEW byte, ReadResponse(bytes, byte)
  PROVE  /\ last' = byte /\ output' \in Seq(S) /\ byte \in S \cup {last}
         /\ TakesFirst(bytes, byte) \/ TooEarly(bytes, byte) \/ FindsNone(bytes, byte)
<1>1. bytes \in Seq(Bytes)
  BY MoreBytes
<1>2. /\ last' = byte
      /\ TakesFirst(bytes, byte) \/ TooEarly(bytes, byte) \/ FindsNone(bytes, byte)
  BY <1>1, ReadsOne
<1>3. CASE TakesFirst(bytes, byte)
  BY <1>2, <1>3, TailIs DEF TakesFirst
<1>4. CASE TooEarly(bytes, byte)
  BY <1>2, <1>4 DEF TooEarly
<1>5. CASE FindsNone(bytes, byte)
  BY <1>2, <1>5 DEF FindsNone
<1> QED
  BY <1>2, <1>3, <1>4, <1>5

(* A byte of the controller.                                               *)
LEMMA AskedIs ==
  ASSUME NEW S, S \subseteq Bytes, output \in Seq(S),
         NEW value \in Protocol, NEW cause \in Causes,
         NEW b, b = Byte(value, "controller", cause), b \in S
  PROVE  /\ Asked(value, cause) \in Seq(S) /\ Asked(value, cause) = Append(output, b)
         /\ Asked(value, cause) # <<>>
<1>1. Asked(value, cause) = Append(output, b)
  BY DEF Asked
<1> QED
  BY <1>1, AppendIs

(* What the controller says, and a key.                                    *)
LEMMA ControllerByte ==
  ASSUME NEW value \in {"passed", "failed", "00", "bad", "configuration"}, NEW cause \in Causes,
         NEW b, b = Byte(value, "controller", cause)
  PROVE  b \in Calm /\ b \in Sober /\ b \in Bytes /\ b.value = value /\ b.cause = cause
         /\ value \in Protocol
<1>1. value \in Words /\ "controller" \in Senders /\ value \in Protocol
  BY DEF Words, Protocol, Senders
<1>2. b \in Bytes /\ b.value = value /\ b.cause = cause
  BY <1>1, ByteIs
<1> QED
  BY <1>1, <1>2 DEF Calm, Sober

(* A key's byte ends nothing and begins nothing.                           *)
LEMMA KeyByte ==
  ASSUME PlainKeys, NEW code \in ScanCodes, NEW port \in Ports, NEW b, b = Byte(code, port, "key")
  PROVE  b \in KeyBytes
<1>1. code \in Words /\ port \in Senders /\ "key" \in Causes
  BY DEF Words, Senders, Ports, Causes
<1>2. b \in Bytes /\ b.value = code /\ b.cause = "key"
  BY <1>1, ByteIs
<1> QED
  BY <1>2 DEF Calm, KeyBytes, PlainKeys

-----------------------------------------------------------------------------
(* The controller's part keeps the invariant.                              *)

(* What stays right as long as nothing else is found.                      *)
LEMMA TypeStays ==
  ASSUME TypeIsRight, found' = found, ports' = ports
  PROVE  TypeIsRight'
BY DEF TypeIsRight

(* The first message finds everything in order.                            *)
LEMMA TypeStarts == KnownKinds /\ Init => TypeInv
<1> SUFFICES ASSUME Init PROVE TypeInv
  OBVIOUS
<1>1. HardwareOK
  BY DEF HardwareOK, Init, Configurations, Ports
<1>2. last \in KeyBytes
  <2>1. "none" \in Words /\ "none" \in Senders /\ "none" \in Causes
    BY DEF Words, Protocol, Senders, Causes
  <2>2. last \in Bytes /\ last.value = "none" /\ last.cause = "none"
    BY <2>1, ByteIs DEF Init
  <2> QED
    BY <2>2 DEF KeyBytes, Calm
<1>3. /\ output = <<>> /\ toCheck = <<>> /\ pc = "disable" /\ found = None
      /\ waiting = [p \in Ports |-> <<>>] /\ scanning \subseteq channels
  BY DEF Init
<1>4. output \in Seq(KeyBytes) /\ output \in Seq(Sober) /\ output \in Seq(Bytes)
      /\ waiting \in [Ports -> Seq(KeyBytes)]
  BY <1>3
<1>5. SpeechType
  BY <1>1, <1>2, <1>3, <1>4, Classes DEF SpeechType, Places, Early
<1>6. CheckInv
  BY <1>3 DEF CheckInv, Queues, Checking, Calmly
<1>7. StartInv
  BY <1>2, <1>3, <1>4 DEF StartInv
<1>8. SpeechInv
  BY <1>3, <1>4 DEF SpeechInv, Calmly
<1>9. TypeIsRight
  BY <1>3 DEF TypeIsRight
<1> QED
  BY <1>5, <1>6, <1>7, <1>8, <1>9 DEF TypeInv

(* Both devices off.                                                       *)
LEMMA DisableDevicesTyped == TypeInv /\ DisableDevices => TypeInv'
<1> SUFFICES ASSUME TypeInv, DisableDevices PROVE TypeInv'
  OBVIOUS
<1>1. /\ pc = "disable" /\ pc' = "configure" /\ config' = [config EXCEPT !.disabled = channels]
      /\ channels' = channels /\ ports' = ports /\ scanning' = scanning /\ waiting' = waiting
      /\ toCheck' = toCheck /\ found' = found
  BY DEF DisableDevices, hardware, results
<1>2. output \in Seq(KeyBytes) /\ last \in KeyBytes
  BY <1>1 DEF TypeInv, StartInv
<1>3. PICK byte : ReadResponse(output, byte)
  BY DEF DisableDevices
<1>4. output' \in Seq(KeyBytes) /\ last' \in KeyBytes
  BY <1>2, <1>3, Classes, ReadsOf
<1>5. output' \in Seq(Bytes) /\ last' \in Bytes
  BY <1>4, Classes, MoreBytes
<1>6. HardwareOK' /\ config'.disabled = channels
  BY <1>1 DEF TypeInv, SpeechType, HardwareOK, Configurations, Ports
<1>7. SpeechType'
  BY <1>1, <1>5, <1>6 DEF TypeInv, SpeechType, Places, Early
<1>8. CheckInv'
  BY <1>1 DEF TypeInv, CheckInv, Early, Checking, Calmly
<1>9. StartInv'
  BY <1>1, <1>4, <1>6 DEF StartInv
<1>10. SpeechInv'
  <2>1. output' \in Seq(Sober)
    BY <1>4, Classes, MoreBytes
  <2> QED
    BY <1>1, <2>1 DEF SpeechInv, Calmly
<1>11. TypeIsRight'
  BY <1>1, TypeStays DEF TypeInv
<1> QED
  BY <1>7, <1>8, <1>9, <1>10, <1>11 DEF TypeInv

(* The bytes that do not end the controller's self test.                   *)
Unpassed == {b \in Sober : b.value # "passed"}

(* The configuration: only if it was read in time is nothing left over.    *)
LEMMA ConfigureTyped == TypeInv /\ Configure => TypeInv'
<1> SUFFICES ASSUME TypeInv, Configure PROVE TypeInv'
  OBVIOUS
<1>1. /\ pc = "configure" /\ pc' = "self_test"
      /\ channels' = channels /\ ports' = ports /\ scanning' = scanning /\ waiting' = waiting
      /\ toCheck' = toCheck /\ found' = found
  BY DEF Configure, hardware
<1>2. output \in Seq(KeyBytes) /\ last \in KeyBytes /\ config.disabled = channels
  BY <1>1 DEF TypeInv, StartInv
<1>b. PICK byte : \E c \in Configurations :
        /\ ReadResponse(Asked("configuration", "configuration"), byte) /\ ReadAs(byte, c)
        /\ is_double_channel' = ("second" \in c.disabled)
        /\ config' = Cleared(c)
  BY Zenon DEF Configure
<1>3. PICK c \in Configurations :
        /\ ReadResponse(Asked("configuration", "configuration"), byte) /\ ReadAs(byte, c)
        /\ is_double_channel' = ("second" \in c.disabled)
        /\ config' = Cleared(c)
  BY <1>b
<1> DEFINE bytes == Asked("configuration", "configuration")
           b == Byte("configuration", "controller", "configuration")
<1>a. ReadResponse(bytes, byte)
  BY <1>3
<1>4. KeyBytes \subseteq Unpassed /\ Unpassed \subseteq Bytes /\ Unpassed \subseteq Sober
  BY Classes DEF KeyBytes, Unpassed
<1>5. b \in Unpassed /\ b.cause = "configuration"
  <2>1. "configuration" \in Causes
    BY DEF Causes
  <2>2. b \in Sober /\ b.value = "configuration" /\ b.cause = "configuration"
    BY <2>1, ControllerByte
  <2> HIDE DEF b
  <2> QED
    BY <2>2 DEF Unpassed
<1>6. output \in Seq(Unpassed)
  BY <1>2, <1>4, MoreBytes
<1>7. bytes \in Seq(Unpassed) /\ bytes = Append(output, b) /\ bytes # <<>>
  <2>1. "configuration" \in Causes /\ "configuration" \in Protocol
    BY DEF Causes, Protocol
  <2> QED
    BY <1>4, <1>5, <1>6, <2>1, AskedIs
<1> HIDE DEF bytes, b
<1>8. /\ last' = byte /\ output' \in Seq(Unpassed) /\ byte \in Unpassed \cup {last}
      /\ TakesFirst(bytes, byte) \/ TooEarly(bytes, byte) \/ FindsNone(bytes, byte)
  <2>1. last' = byte
    BY <1>4, <1>7, <1>a, ReadsOf, Zenon
  <2>2. output' \in Seq(Unpassed)
    BY <1>4, <1>7, <1>a, ReadsOf, Zenon
  <2>3. byte \in Unpassed \cup {last}
    BY <1>4, <1>7, <1>a, ReadsOf, Zenon
  <2>4. TakesFirst(bytes, byte) \/ TooEarly(bytes, byte) \/ FindsNone(bytes, byte)
    BY <1>4, <1>7, <1>a, ReadsOf, Zenon
  <2> QED
    BY <2>1, <2>2, <2>3, <2>4
<1>9. last' \in Unpassed
  BY <1>2, <1>4, <1>8
<1>10. HardwareOK' /\ config'.disabled = c.disabled
  <2>1. config' \in Configurations /\ config'.disabled = c.disabled
    BY <1>3 DEF Cleared, Configurations
  <2> QED
    BY <1>1, <2>1 DEF TypeInv, SpeechType, HardwareOK
<1>11. output' \in Seq(Bytes) /\ last' \in Bytes /\ output' \in Seq(Sober)
  BY <1>4, <1>8, <1>9, Classes, MoreBytes
<1>12. SpeechType'
  BY <1>1, <1>10, <1>11 DEF TypeInv, SpeechType, Places, Early
<1>13. CheckInv'
  BY <1>1 DEF TypeInv, CheckInv, Early, Checking, Calmly
<1>14. InStep' \/ OutOfStep'
  <2>1. CASE output' = <<>>
    <3>1. TakesFirst(bytes, byte)
      BY <1>7, <1>8, <2>1 DEF TooEarly, FindsNone
    <3>2. byte = bytes[1] /\ Tail(bytes) = <<>> /\ Len(<<>>) = 0
      BY <2>1, <3>1 DEF TakesFirst
    <3>3. output = <<>> /\ bytes[1] = b
      <4>1. Len(Tail(bytes)) = Len(bytes) - 1
        BY <1>7, TailIs
      <4>2. Len(bytes) = Len(output) + 1 /\ bytes[Len(output) + 1] = b /\ Len(output) \in Nat
        BY <1>5, <1>6, <1>7, AppendIs
      <4>3. Len(Tail(bytes)) = 0
        BY <3>2
      <4> QED
        BY <1>2, <4>1, <4>2, <4>3
    <3>4. c = config
      BY <1>3, <1>5, <3>2, <3>3 DEF ReadAs
    <3>5. config'.disabled = channels'
      BY <1>1, <1>2, <1>10, <3>4
    <3>6. is_double_channel' => "second" \in channels'
      BY <1>1, <1>2, <1>3, <3>4
    <3> QED
      BY <2>1, <3>5, <3>6 DEF InStep
  <2>2. CASE output' # <<>>
    <3>1. output'[1] \in Unpassed
      BY <1>8, <2>2, TailIs
    <3> QED
      BY <2>2, <3>1 DEF OutOfStep, Unpassed
  <2> QED
    BY <2>1, <2>2
<1>15. StartInv'
  <2>1. last'.value # "passed"
    BY <1>9 DEF Unpassed
  <2> QED
    BY <1>1, <1>14, <2>1 DEF StartInv
<1>16. SpeechInv'
  BY <1>1, <1>11 DEF SpeechInv, Calmly
<1>17. TypeIsRight'
  BY <1>1, TypeStays DEF TypeInv
<1> QED
  BY <1>12, <1>13, <1>15, <1>16, <1>17 DEF TypeInv

(* The self test.                                                          *)
LEMMA SelfTestTyped == TypeInv /\ SelfTest => TypeInv'
<1> SUFFICES ASSUME TypeInv, SelfTest PROVE TypeInv'
  OBVIOUS
<1>1. /\ pc = "self_test"
      /\ channels' = channels /\ ports' = ports /\ scanning' = scanning /\ waiting' = waiting
      /\ toCheck' = toCheck /\ found' = found /\ is_double_channel' = is_double_channel
      /\ config' \in {config, [config EXCEPT !.translate = TRUE]}
  BY DEF SelfTest, hardware, results
<1>0. PICK answer \in {"passed", "failed"} : \E byte :
        /\ ReadResponse(Asked(answer, "self_test"), byte)
        /\ pc' = IF byte.value = "passed" THEN "test_first" ELSE "panic"
  BY DEF SelfTest
<1>2. PICK byte :
        /\ ReadResponse(Asked(answer, "self_test"), byte)
        /\ pc' = IF byte.value = "passed" THEN "test_first" ELSE "panic"
  BY <1>0
<1> DEFINE bytes == Asked(answer, "self_test")
           b == Byte(answer, "controller", "self_test")
<1>3. output \in Seq(Sober) /\ last \in Bytes /\ last.value # "passed" /\ (InStep \/ OutOfStep)
  BY <1>1 DEF TypeInv, SpeechType, StartInv, SpeechInv, Early
<1>4. "self_test" \in Causes /\ answer \in {"passed", "failed", "00", "bad", "configuration"}
  BY DEF Causes
<1>a. b = Byte(answer, "controller", "self_test")
  OBVIOUS
<1> HIDE DEF b
<1>5. b \in Sober /\ answer \in Protocol
  <2>1. b \in Sober
    BY <1>4, <1>a, ControllerByte
  <2>2. answer \in Protocol
    BY DEF Protocol
  <2> QED
    BY <2>1, <2>2
<1>6. bytes \in Seq(Sober) /\ bytes = Append(output, b) /\ bytes # <<>>
  <2>0. Sober \subseteq Bytes
    BY Classes
  <2>1. bytes \in Seq(Sober)
    BY <1>3, <1>4, <1>5, <1>a, <2>0, AskedIs, Zenon
  <2>2. bytes = Append(output, b)
    BY <1>a DEF Asked
  <2>3. Append(output, b) # <<>>
    BY <1>3, <1>5, AppendIs, Zenon
  <2> QED
    BY <2>1, <2>2, <2>3
<1>7. ReadResponse(bytes, byte)
  BY <1>2
<1> HIDE DEF bytes, b
<1>8. /\ last' = byte /\ output' \in Seq(Sober) /\ byte \in Sober \cup {last}
      /\ TakesFirst(bytes, byte) \/ TooEarly(bytes, byte) \/ FindsNone(bytes, byte)
  <2>0. Sober \subseteq Bytes
    BY Classes
  <2>1. last' = byte
    BY <1>6, <1>7, <2>0, ReadsOf, Zenon
  <2>2. output' \in Seq(Sober)
    BY <1>6, <1>7, <2>0, ReadsOf, Zenon
  <2>3. byte \in Sober \cup {last}
    BY <1>6, <1>7, <2>0, ReadsOf, Zenon
  <2>4. TakesFirst(bytes, byte) \/ TooEarly(bytes, byte) \/ FindsNone(bytes, byte)
    BY <1>6, <1>7, <2>0, ReadsOf, Zenon
  <2> QED
    BY <2>1, <2>2, <2>3, <2>4
<1>9. output' \in Seq(Bytes) /\ last' \in Bytes
  BY <1>3, <1>8, Classes, MoreBytes
<1>10. HardwareOK'
  BY <1>1 DEF TypeInv, SpeechType, HardwareOK, Configurations
<1>11. pc' \in {"test_first", "panic"}
  BY <1>2
<1>12. SpeechType'
  BY <1>1, <1>9, <1>10, <1>11 DEF TypeInv, SpeechType, Places, Early
<1>13. CheckInv'
  <2>1. toCheck = <<>>
    BY <1>1 DEF TypeInv, CheckInv, Early
  <2> QED
    BY <1>1, <1>11, <2>1 DEF TypeInv, CheckInv, Queues, Early, Checking, Calmly
<1>14. pc' = "test_first" => (is_double_channel => "second" \in channels)
  <2> SUFFICES ASSUME pc' = "test_first" PROVE InStep
    BY DEF InStep
  <2>1. byte.value = "passed"
    BY <1>2
  <2>2. TakesFirst(bytes, byte)
    BY <1>3, <1>6, <1>8, <2>1 DEF TooEarly, FindsNone
  <2>3. SUFFICES ASSUME OutOfStep PROVE FALSE
    BY <1>3
  <2>4. bytes[1] = output[1]
    <3>1. output # <<>>
      BY <2>3 DEF OutOfStep
    <3>2. Append(output, b)[1] = output[1]
      BY <1>3, <1>5, <3>1, FirstStays, Zenon
    <3> QED
      BY <1>6, <3>2
  <2> QED
    BY <2>1, <2>2, <2>3, <2>4 DEF TakesFirst, OutOfStep
<1>15. StartInv'
  BY <1>1, <1>11, <1>14 DEF StartInv
<1>16. SpeechInv'
  BY <1>8, <1>11 DEF SpeechInv, Calmly
<1>17. TypeIsRight'
  BY <1>1, TypeStays DEF TypeInv
<1> QED
  BY <1>12, <1>13, <1>15, <1>16, <1>17 DEF TypeInv

(* A channel's test.                                                       *)
LEMMA TestChannelTyped ==
  ASSUME TypeInv, NEW port \in Ports, TestChannel(port),
         pc \in {"test_first", "test_second"}, pc' \in {"test_second", "reset", "enable_interrupt"}
  PROVE  /\ SpeechType' /\ StartInv' /\ SpeechInv' /\ TypeIsRight'
         /\ channels' = channels /\ is_double_channel' = is_double_channel /\ found' = found
         /\ toCheck' = toCheck \/ toCheck' = Append(toCheck, port)
<1>0. PICK answer \in {"00", "bad"} : \E byte :
        /\ ReadResponse(Asked(answer, "test_channel"), byte)
        /\ toCheck' = IF byte.value = "00" THEN Append(toCheck, port) ELSE toCheck
  BY DEF TestChannel
<1>1. PICK byte :
        /\ ReadResponse(Asked(answer, "test_channel"), byte)
        /\ toCheck' = IF byte.value = "00" THEN Append(toCheck, port) ELSE toCheck
  BY <1>0
<1>2. /\ channels' = channels /\ ports' = ports /\ scanning' = scanning /\ waiting' = waiting
      /\ config' = config /\ is_double_channel' = is_double_channel /\ found' = found
  BY DEF TestChannel, hardware
<1> DEFINE bytes == Asked(answer, "test_channel")
           b == Byte(answer, "controller", "test_channel")
<1>3. output \in Seq(Sober) /\ last \in Bytes
  BY DEF TypeInv, SpeechType, SpeechInv, Early
<1>4. "test_channel" \in Causes /\ answer \in {"passed", "failed", "00", "bad", "configuration"}
  BY DEF Causes
<1>a. b = Byte(answer, "controller", "test_channel")
  OBVIOUS
<1> HIDE DEF b
<1>5. b \in Sober /\ answer \in Protocol
  <2>1. b \in Sober
    BY <1>4, <1>a, ControllerByte
  <2>2. answer \in Protocol
    BY DEF Protocol
  <2> QED
    BY <2>1, <2>2
<1>6. bytes \in Seq(Sober)
  <2>0. Sober \subseteq Bytes
    BY Classes
  <2>1. bytes \in Seq(Sober)
    BY <1>3, <1>4, <1>5, <1>a, <2>0, AskedIs, Zenon
  <2>2. bytes = Append(output, b)
    BY <1>a DEF Asked
  <2> QED
    BY <2>1, <2>2
<1>7. ReadResponse(bytes, byte)
  BY <1>1
<1> HIDE DEF bytes, b
<1>8. last' = byte /\ output' \in Seq(Sober) /\ byte \in Sober \cup {last}
  <2>0. Sober \subseteq Bytes
    BY Classes
  <2>1. last' = byte
    BY <1>6, <1>7, <2>0, ReadsOf, Zenon
  <2>2. output' \in Seq(Sober)
    BY <1>6, <1>7, <2>0, ReadsOf, Zenon
  <2>3. byte \in Sober \cup {last}
    BY <1>6, <1>7, <2>0, ReadsOf, Zenon
  <2> QED
    BY <2>1, <2>2, <2>3
<1>9. output' \in Seq(Bytes) /\ last' \in Bytes
  BY <1>3, <1>8, Classes, MoreBytes
<1>10. SpeechType'
  BY <1>2, <1>9 DEF TypeInv, SpeechType, HardwareOK, Places, Early, Checking
<1>11. StartInv'
  BY DEF StartInv
<1>12. SpeechInv'
  BY <1>8 DEF SpeechInv, Calmly
<1>13. TypeIsRight'
  BY <1>2, TypeStays DEF TypeInv
<1> QED
  BY <1>1, <1>2, <1>10, <1>11, <1>12, <1>13

(* The queue of a test.                                                    *)
LEMMA Appended ==
  /\ Append(<<>>, "first") = <<"first">> /\ Append(<<>>, "second") = <<"second">>
  /\ Append(<<"first">>, "second") = <<"first", "second">>
  /\ <<"first">> # <<>> /\ <<"second">> # <<>> /\ <<"first", "second">> # <<>>
  /\ <<"first">> # <<"second">> /\ <<"first">> # <<"first", "second">>
  /\ <<"second">> # <<"first", "second">>
<1>1. /\ <<"first">> # <<>> /\ <<"second">> # <<>> /\ <<"first", "second">> # <<>>
      /\ <<"first">> # <<"second">> /\ <<"first">> # <<"first", "second">>
      /\ <<"second">> # <<"first", "second">>
  OBVIOUS
<1>2. Append(<<>>, "first") = <<"first">>
  OBVIOUS
<1>3. Append(<<>>, "second") = <<"second">>
  OBVIOUS
<1>4. Append(<<"first">>, "second") = <<"first", "second">>
  <2> DEFINE s == <<"first">>
             t == Append(s, "second")
  <2>1. /\ s \in Seq({"first", "second"}) /\ Len(s) = 1 /\ s[1] = "first"
        /\ "second" \in {"first", "second"}
    OBVIOUS
  <2> HIDE DEF s
  <2>2. /\ t \in Seq({"first", "second"}) /\ Len(t) = Len(s) + 1 /\ t[Len(s) + 1] = "second"
        /\ \A i \in 1..Len(s) : t[i] = s[i]
    BY <2>1, AppendIs, ZenonT(60)
  <2>a. Len(t) = 2 /\ t[2] = "second" /\ t[1] = "first"
    BY <2>1, <2>2
  <2> HIDE DEF t
  <2>3. t = <<t[1], t[2]>>
    BY <2>2, <2>a, TwoIs
  <2> QED
    BY <2>a, <2>3 DEF s, t
<1> QED
  BY <1>1, <1>2, <1>3, <1>4

(* The first channel.                                                      *)
LEMMA TestFirstTyped == TypeInv /\ TestFirst => TypeInv'
<1> SUFFICES ASSUME TypeInv, TestFirst PROVE TypeInv'
  OBVIOUS
<1>1. /\ pc = "test_first" /\ TestChannel("first")
      /\ pc' = IF is_double_channel THEN "test_second" ELSE CheckNext(toCheck')
  BY DEF TestFirst
<1>2. pc' \in {"test_second", "reset", "enable_interrupt"}
  BY <1>1 DEF CheckNext
<1>3. /\ SpeechType' /\ StartInv' /\ SpeechInv' /\ TypeIsRight'
      /\ channels' = channels /\ found' = found /\ (found # None => found.port \in Ports)
      /\ toCheck' = toCheck \/ toCheck' = Append(toCheck, "first")
  BY <1>1, <1>2, TestChannelTyped DEF Ports, TypeInv, CheckInv
<1>4. toCheck = <<>> /\ (is_double_channel => "second" \in channels)
  BY <1>1 DEF TypeInv, CheckInv, StartInv, Early
<1>5. toCheck' \in {<<>>, <<"first">>}
  BY <1>3, <1>4, Appended
<1>6. pc' = "test_second" => "second" \in channels'
  BY <1>1, <1>3, <1>4 DEF CheckNext
<1>7. pc' = "reset" => toCheck' # <<>>
  BY <1>1 DEF CheckNext
<1>8. CheckInv'
  BY <1>2, <1>3, <1>5, <1>6, <1>7, Appended DEF CheckInv, Queues, Early, Checking, Calmly
<1> QED
  BY <1>3, <1>8 DEF TypeInv

(* The second channel.                                                     *)
LEMMA TestSecondTyped == TypeInv /\ TestSecond => TypeInv'
<1> SUFFICES ASSUME TypeInv, TestSecond PROVE TypeInv'
  OBVIOUS
<1>1. pc = "test_second" /\ TestChannel("second") /\ pc' = CheckNext(toCheck')
  BY DEF TestSecond
<1>2. pc' \in {"reset", "enable_interrupt"} /\ (pc' = "reset" => toCheck' # <<>>)
  BY <1>1 DEF CheckNext
<1>3. /\ SpeechType' /\ StartInv' /\ SpeechInv' /\ TypeIsRight'
      /\ channels' = channels /\ found' = found /\ (found # None => found.port \in Ports)
      /\ toCheck' = toCheck \/ toCheck' = Append(toCheck, "second")
  BY <1>1, <1>2, TestChannelTyped DEF Ports, TypeInv, CheckInv
<1>4. toCheck \in {<<>>, <<"first">>} /\ "second" \in channels
  BY <1>1 DEF TypeInv, CheckInv
<1>5. toCheck' \in Queues
  BY <1>3, <1>4, Appended DEF Queues
<1>6. CheckInv'
  BY <1>2, <1>3, <1>4, <1>5 DEF CheckInv, Early, Checking, Calmly
<1> QED
  BY <1>3, <1>6 DEF TypeInv

-----------------------------------------------------------------------------
(* Queues with one end of a test, and identifications in them.             *)

(* Where nothing ends, the test does not end twice.                        *)
LEMMA EndOnceSober ==
  ASSUME NEW s \in Seq(Sober)
  PROVE  EndOnce(s)
BY DEF EndOnce, Sober

(* It is so in what is left and with one more key.                         *)
LEMMA EndOnceKept ==
  ASSUME NEW s \in Seq(Bytes), EndOnce(s), NEW e \in Calm
  PROVE  EndOnce(Append(s, e)) /\ (s # <<>> => EndOnce(Tail(s)))
<1>1. EndOnce(Append(s, e))
  <2> DEFINE t == Append(s, e)
  <2>1. /\ Len(t) = Len(s) + 1 /\ Len(s) \in Nat /\ t[Len(s) + 1] = e
        /\ \A i \in 1..Len(s) : t[i] = s[i]
    BY Classes, AppendIs
  <2> HIDE DEF t
  <2> SUFFICES ASSUME NEW i \in 1..Len(t), NEW j \in 1..Len(t), i < j, t[i].value = "ok"
               PROVE  t[j] \in Calm
    BY DEF EndOnce
  <2>2. i \in 1..Len(s) /\ (j = Len(s) + 1 \/ j \in 1..Len(s))
    BY <2>1
  <2> QED
    BY <2>1, <2>2 DEF EndOnce
<1>2. ASSUME s # <<>> PROVE EndOnce(Tail(s))
  <2> DEFINE t == Tail(s)
  <2>1. \A i \in 1..Len(t) : t[i] = s[i + 1] /\ i + 1 \in 1..Len(s)
    BY <1>2, TailIs
  <2> HIDE DEF t
  <2> SUFFICES ASSUME NEW i \in 1..Len(t), NEW j \in 1..Len(t), i < j, t[i].value = "ok"
               PROVE  t[j] \in Calm
    BY DEF EndOnce
  <2>2. i + 1 \in 1..Len(s) /\ j + 1 \in 1..Len(s) /\ t[i] = s[i + 1] /\ t[j] = s[j + 1]
    BY <2>1
  <2>3. i + 1 < j + 1
    OBVIOUS
  <2> QED
    BY <2>2, <2>3 DEF EndOnce
<1> QED
  BY <1>1, <1>2

(* It is so behind what came before the test.                              *)
LEMMA EndOnceBehind ==
  ASSUME NEW s \in Seq(Sober), NEW t \in Seq(Bytes), EndOnce(t)
  PROVE  EndOnce(s \o t)
<1> DEFINE u == s \o t
<1>1. s \in Seq(Bytes)
  BY Classes, MoreBytes
<1>2. /\ Len(u) = Len(s) + Len(t) /\ Len(s) \in Nat /\ Len(t) \in Nat
      /\ \A i \in 1..Len(s) : u[i] = s[i]
      /\ \A i \in 1..Len(t) : u[Len(s) + i] = t[i]
  BY <1>1, BehindIs
<1> HIDE DEF u
<1> SUFFICES ASSUME NEW i \in 1..Len(u), NEW j \in 1..Len(u), i < j, u[i].value = "ok"
             PROVE  u[j] \in Calm
  BY DEF EndOnce, u
<1>3. i \notin 1..Len(s)
  <2> SUFFICES ASSUME i \in 1..Len(s) PROVE FALSE
    OBVIOUS
  <2>1. s[i] \in Sober
    OBVIOUS
  <2> QED
    BY <1>2, <2>1 DEF Sober
<1> DEFINE x == i - Len(s)
           y == j - Len(s)
<1>4. x \in 1..Len(t) /\ y \in 1..Len(t) /\ x < y /\ i = Len(s) + x /\ j = Len(s) + y
  BY <1>2, <1>3
<1> HIDE DEF x, y
<1>5. u[i] = t[x] /\ u[j] = t[y]
  BY <1>2, <1>4
<1> QED
  BY <1>4, <1>5 DEF EndOnce

(* After the end of the test all is calm.                                  *)
LEMMA CalmAfter ==
  ASSUME NEW s \in Seq(Bytes), EndOnce(s), s # <<>>, s[1].value = "ok"
  PROVE  Tail(s) \in Seq(Calm)
<1> DEFINE t == Tail(s)
<1>1. /\ t \in Seq(Bytes) /\ Len(t) \in Nat /\ Len(s) \in Nat /\ Len(s) >= 1
      /\ \A i \in 1..Len(t) : t[i] = s[i + 1] /\ i + 1 \in 1..Len(s)
  BY TailIs
<1> HIDE DEF t
<1>2. ASSUME NEW i \in 1..Len(t) PROVE t[i] \in Calm
  <2>1. 1 \in 1..Len(s) /\ i + 1 \in 1..Len(s) /\ 1 < i + 1 /\ t[i] = s[i + 1]
    BY <1>1
  <2> QED
    BY <2>1 DEF EndOnce
<1>3. t \in Seq(Calm)
  BY <1>1, <1>2
<1> QED
  BY <1>3 DEF t

(* Where nothing is identified.                                            *)
LEMMA AnnouncedCalm ==
  ASSUME NEW kind, NEW s \in Seq(Calm)
  PROVE  Announced(kind, s)
<1>1. \A i \in 1..Len(s) : s[i].value # "AB"
  BY DEF Calm
<1> QED
  BY <1>1 DEF Announced

(* In what is left, and with one more key.                                 *)
LEMMA AnnouncedKept ==
  ASSUME NEW kind, NEW s \in Seq(Bytes), Announced(kind, s), NEW e \in Calm
  PROVE  /\ Announced(kind, Append(s, e))
         /\ s # <<>> => /\ Announced(kind, Tail(s))
                        /\ s[1].value = "AB" => Tail(s) # <<>> /\ Right(kind, Tail(s)[1].value)
<1>1. Announced(kind, Append(s, e))
  <2> DEFINE t == Append(s, e)
  <2>1. /\ Len(t) = Len(s) + 1 /\ Len(s) \in Nat /\ t[Len(s) + 1] = e
        /\ \A i \in 1..Len(s) : t[i] = s[i]
    BY Classes, AppendIs
  <2> HIDE DEF t
  <2> SUFFICES ASSUME NEW i \in 1..Len(t), t[i].value = "AB"
               PROVE  i + 1 \in 1..Len(t) /\ Right(kind, t[i + 1].value)
    BY DEF Announced, t
  <2>2. i # Len(s) + 1
    BY <2>1 DEF Calm
  <2>3. i \in 1..Len(s)
    BY <2>1, <2>2
  <2>4. i + 1 \in 1..Len(s) /\ Right(kind, s[i + 1].value)
    BY <2>1, <2>3 DEF Announced
  <2> QED
    BY <2>1, <2>4
<1>2. ASSUME s # <<>> PROVE Announced(kind, Tail(s))
  <2> DEFINE t == Tail(s)
  <2>1. /\ Len(t) = Len(s) - 1 /\ Len(s) \in Nat
        /\ \A i \in 1..Len(t) : t[i] = s[i + 1] /\ i + 1 \in 1..Len(s)
    BY <1>2, TailIs
  <2> HIDE DEF t
  <2> SUFFICES ASSUME NEW i \in 1..Len(t), t[i].value = "AB"
               PROVE  i + 1 \in 1..Len(t) /\ Right(kind, t[i + 1].value)
    BY DEF Announced
  <2> DEFINE k == i + 1
  <2>2. k \in 1..Len(s) /\ s[k].value = "AB"
    BY <2>1
  <2> HIDE DEF k
  <2>3. k + 1 \in 1..Len(s) /\ Right(kind, s[k + 1].value)
    BY <2>2 DEF Announced
  <2>4. i + 1 \in 1..Len(t)
    BY <2>1, <2>3 DEF k
  <2>5. t[i + 1] = s[k + 1]
    BY <2>1, <2>4 DEF k
  <2> QED
    BY <2>3, <2>4, <2>5
<1>3. ASSUME s # <<>>, s[1].value = "AB" PROVE Tail(s) # <<>> /\ Right(kind, Tail(s)[1].value)
  <2> DEFINE t == Tail(s)
  <2>1. /\ Len(t) = Len(s) - 1 /\ Len(s) \in Nat /\ Len(s) >= 1
        /\ \A i \in 1..Len(t) : t[i] = s[i + 1] /\ i + 1 \in 1..Len(s)
    BY <1>3, TailIs
  <2> HIDE DEF t
  <2>2. 1 \in 1..Len(s)
    BY <2>1
  <2>3. 1 + 1 \in 1..Len(s) /\ Right(kind, s[1 + 1].value)
    BY <1>3, <2>2 DEF Announced
  <2>4. 1 \in 1..Len(t)
    BY <2>1, <2>3
  <2>5. t[1] = s[1 + 1] /\ Len(t) # 0
    BY <2>1, <2>4
  <2>6. t # <<>>
    BY <2>5
  <2> QED
    BY <2>3, <2>5, <2>6 DEF t
<1> QED
  BY <1>1, <1>2, <1>3

(* Behind other bytes.                                                     *)
LEMMA AnnouncedBehind ==
  ASSUME NEW kind, NEW s \in Seq(Calm), NEW t \in Seq(Bytes), Announced(kind, t)
  PROVE  Announced(kind, s \o t)
<1> DEFINE u == s \o t
<1>1. s \in Seq(Bytes)
  BY Classes, MoreBytes
<1>2. /\ Len(u) = Len(s) + Len(t) /\ Len(s) \in Nat /\ Len(t) \in Nat
      /\ \A i \in 1..Len(s) : u[i] = s[i]
      /\ \A i \in 1..Len(t) : u[Len(s) + i] = t[i]
  BY <1>1, BehindIs
<1> HIDE DEF u
<1> SUFFICES ASSUME NEW i \in 1..Len(u), u[i].value = "AB"
             PROVE  i + 1 \in 1..Len(u) /\ Right(kind, u[i + 1].value)
  BY DEF Announced, u
<1>3. i \notin 1..Len(s)
  <2> SUFFICES ASSUME i \in 1..Len(s) PROVE FALSE
    OBVIOUS
  <2>1. s[i] \in Calm
    OBVIOUS
  <2> QED
    BY <1>2, <2>1 DEF Calm
<1> DEFINE x == i - Len(s)
<1>4. x \in 1..Len(t) /\ i = Len(s) + x
  BY <1>2, <1>3
<1> HIDE DEF x
<1>5. t[x].value = "AB"
  BY <1>2, <1>4
<1>6. x + 1 \in 1..Len(t) /\ Right(kind, t[x + 1].value)
  BY <1>4, <1>5 DEF Announced
<1>7. i + 1 \in 1..Len(u) /\ i + 1 = Len(s) + (x + 1)
  BY <1>2, <1>4, <1>6
<1>8. u[i + 1] = t[x + 1]
  BY <1>2, <1>6, <1>7
<1> QED
  BY <1>6, <1>7, <1>8

-----------------------------------------------------------------------------
(* What the devices say.                                                   *)

(* Short answers behind one another.                                       *)
LEMMA Tuples ==
  ASSUME NEW a, NEW b, NEW c
  PROVE  /\ <<a>> \o <<>> = <<a>> /\ <<a>> \o <<b>> = <<a, b>> /\ <<a>> \o <<b, c>> = <<a, b, c>>
         /\ <<a, b>> \o <<>> = <<a, b>> /\ <<a, b>> \o <<c>> = <<a, b, c>>
         /\ Len(<<>>) = 0 /\ Len(<<a>>) = 1 /\ Len(<<a, b>>) = 2 /\ Len(<<a, b, c>>) = 3
<1>1. <<a>> \o <<>> = <<a>>
  OBVIOUS
<1>2. <<a>> \o <<b>> = <<a, b>>
  <2> DEFINE s == <<a>>
             t == <<b>>
             u == s \o t
  <2>1. /\ s \in Seq({a, b, c}) /\ Len(s) = 1 /\ s[1] = a
        /\ t \in Seq({a, b, c}) /\ Len(t) = 1 /\ t[1] = b
    OBVIOUS
  <2> HIDE DEF s, t
  <2>2. /\ u \in Seq({a, b, c}) /\ Len(u) = Len(s) + Len(t)
        /\ \A i \in 1..Len(s) : u[i] = s[i]
        /\ \A i \in 1..Len(t) : u[Len(s) + i] = t[i]
    BY <2>1, BehindIs
  <2> HIDE DEF u
  <2>3. Len(u) = 2 /\ u[1] = a /\ u[2] = b
    BY <2>1, <2>2
  <2>4. u = <<u[1], u[2]>>
    BY <2>2, <2>3, TwoIs
  <2> QED
    BY <2>3, <2>4 DEF s, t, u
<1>3. <<a>> \o <<b, c>> = <<a, b, c>>
  <2> DEFINE s == <<a>>
             t == <<b, c>>
             u == s \o t
  <2>1. /\ s \in Seq({a, b, c}) /\ Len(s) = 1 /\ s[1] = a
        /\ t \in Seq({a, b, c}) /\ Len(t) = 2 /\ t[1] = b /\ t[2] = c
    OBVIOUS
  <2> HIDE DEF s, t
  <2>2. /\ u \in Seq({a, b, c}) /\ Len(u) = Len(s) + Len(t)
        /\ \A i \in 1..Len(s) : u[i] = s[i]
        /\ \A i \in 1..Len(t) : u[Len(s) + i] = t[i]
    <3>1. s \in Seq({a, b, c}) /\ t \in Seq({a, b, c})
      BY <2>1
    <3>2. u \in Seq({a, b, c}) /\ Len(u) = Len(s) + Len(t)
      BY <3>1, BehindIs
    <3>3. \A i \in 1..Len(s) : u[i] = s[i]
      BY <3>1, BehindIs
    <3>4. \A i \in 1..Len(t) : u[Len(s) + i] = t[i]
      BY <3>1, BehindIs
    <3> QED
      BY <3>2, <3>3, <3>4
  <2> HIDE DEF u
  <2>3. Len(u) = 3 /\ u[1] = a /\ u[2] = b /\ u[3] = c
    BY <2>1, <2>2
  <2>4. u = <<u[1], u[2], u[3]>>
    BY <2>2, <2>3, ThreeIs
  <2> QED
    BY <2>3, <2>4 DEF s, t, u
<1>4. <<a, b>> \o <<>> = <<a, b>>
  OBVIOUS
<1>5. <<a, b>> \o <<c>> = <<a, b, c>>
  <2> DEFINE s == <<a, b>>
             t == <<c>>
             u == s \o t
  <2>1. /\ s \in Seq({a, b, c}) /\ Len(s) = 2 /\ s[1] = a /\ s[2] = b
        /\ t \in Seq({a, b, c}) /\ Len(t) = 1 /\ t[1] = c
    OBVIOUS
  <2> HIDE DEF s, t
  <2>2. /\ u \in Seq({a, b, c}) /\ Len(u) = Len(s) + Len(t)
        /\ \A i \in 1..Len(s) : u[i] = s[i]
        /\ \A i \in 1..Len(t) : u[Len(s) + i] = t[i]
    <3>1. s \in Seq({a, b, c}) /\ t \in Seq({a, b, c})
      BY <2>1
    <3>2. u \in Seq({a, b, c}) /\ Len(u) = Len(s) + Len(t)
      BY <3>1, BehindIs
    <3>3. \A i \in 1..Len(s) : u[i] = s[i]
      BY <3>1, BehindIs
    <3>4. \A i \in 1..Len(t) : u[Len(s) + i] = t[i]
      BY <3>1, BehindIs
    <3> QED
      BY <3>2, <3>3, <3>4
  <2> HIDE DEF u
  <2>3. Len(u) = 3 /\ u[1] = a /\ u[2] = b /\ u[3] = c
    BY <2>1, <2>2
  <2>4. u = <<u[1], u[2], u[3]>>
    BY <2>2, <2>3, ThreeIs
  <2> QED
    BY <2>3, <2>4 DEF s, t, u
<1>6. Len(<<>>) = 0 /\ Len(<<a>>) = 1 /\ Len(<<a, b>>) = 2 /\ Len(<<a, b, c>>) = 3
  OBVIOUS
<1> QED
  BY <1>1, <1>2, <1>3, <1>4, <1>5, <1>6

(* A device on a port of this machine is of a known kind.                  *)
LEMMA KindIs ==
  ASSUME HardwareOK, KnownKinds, NEW port \in channels
  PROVE  Kind(port) \in Kinds /\ KnownKind(Kind(port)) /\ port \in Ports
BY DEF HardwareOK, KnownKinds, Kind, Ports

(* The device that is checked is on a port of this machine.                *)
LEMMA DevIs ==
  ASSUME TypeInv, KnownKinds, toCheck # <<>>
  PROVE  /\ dev \in channels /\ dev \in Ports
         /\ Kind(dev) \in Kinds /\ KnownKind(Kind(dev))
         /\ Tail(toCheck) \in {<<>>, <<"second">>}
         /\ Tail(toCheck) # <<>> => "second" \in channels
<1>1. HardwareOK
  BY DEF TypeInv, SpeechType
<1>2. "first" \in channels
  BY <1>1 DEF HardwareOK, Ports
<1>3. CASE toCheck = <<"first">>
  <2>1. dev = "first" /\ Tail(toCheck) = <<>>
    BY <1>3 DEF dev
  <2> QED
    BY <1>1, <1>2, <2>1, KindIs
<1>4. CASE toCheck = <<"second">>
  <2>1. dev = "second" /\ Tail(toCheck) = <<>>
    BY <1>4 DEF dev
  <2>2. "second" \in channels
    BY <1>4 DEF TypeInv, CheckInv
  <2> QED
    BY <1>1, <2>1, <2>2, KindIs
<1>5. CASE toCheck = <<"first", "second">>
  <2>1. dev = "first"
    BY <1>5 DEF dev
  <2>2. Tail(toCheck) = <<"second">>
    BY <1>5
  <2>3. "second" \in channels
    BY <1>5 DEF TypeInv, CheckInv
  <2> QED
    BY <1>1, <1>2, <2>1, <2>2, <2>3, KindIs
<1> QED
  BY <1>3, <1>4, <1>5 DEF TypeInv, CheckInv, Queues

(* What a device answers to the reset.                                     *)
LEMMA ReplyToReset ==
  ASSUME HardwareOK, KnownKinds, NEW port \in channels,
         NEW v, v = Reply(port, "reset"), NEW k, k = Kind(port)
  PROVE  /\ v \in Seq(Words)
         /\ ~k.there => v = <<>>
         /\ k.there /\ "reset" \in k.refuses => v = <<"resend">>
         /\ k.there /\ "reset" \notin k.refuses =>
              \/ v = <<"ack", "ok">>
              \/ v = <<"ack", "ok", k.extra[1]>> /\ k.extra[1] \notin {"ok", "AB"}
<1>1. k \in Kinds /\ KnownKind(k) /\ k = ports[port].kind
  BY KindIs DEF Kind
<1>2. v = IF ~k.there THEN <<>>
          ELSE IF "reset" \in k.refuses THEN <<"resend">> ELSE <<"ack", "ok">> \o k.extra
  BY <1>1 DEF Reply, KnownKind
<1>3. k.extra = <<>> \/ (k.extra = <<k.extra[1]>> /\ k.extra[1] \notin {"ok", "AB"})
  BY <1>1 DEF KnownKind
<1>4. <<"ack", "ok">> \o <<>> = <<"ack", "ok">>
      /\ <<"ack", "ok">> \o <<k.extra[1]>> = <<"ack", "ok", k.extra[1]>>
  BY Tuples
<1>5. <<"ack", "ok">> \o k.extra \in Seq(Words)
  <2>1. "ack" \in Words /\ "ok" \in Words /\ k.extra \in Seq(Words)
    BY <1>1, Said DEF Protocol
  <2>2. <<"ack", "ok">> \in Seq(Words)
    BY <2>1, ShortIs, Zenon
  <2> QED
    BY <2>1, <2>2, BehindIs
<1>6. <<>> \in Seq(Words) /\ <<"resend">> \in Seq(Words)
  <2>1. "resend" \in Words
    BY Said DEF Protocol
  <2> QED
    BY <2>1, ShortIs, Zenon
<1>7. v \in Seq(Words)
  BY <1>2, <1>5, <1>6, Zenon
<1>8. k.there /\ "reset" \notin k.refuses =>
              \/ v = <<"ack", "ok">>
              \/ v = <<"ack", "ok", k.extra[1]>> /\ k.extra[1] \notin {"ok", "AB"}
  BY <1>2, <1>3, <1>4, Zenon
<1> QED
  BY <1>2, <1>7, <1>8, Zenon

(* What it answers to a command that switches its keys off.                *)
LEMMA ReplyToScanning ==
  ASSUME HardwareOK, KnownKinds, NEW port \in channels,
         NEW v, v = Reply(port, "disable_scanning"), NEW k, k = Kind(port)
  PROVE  /\ v \in Seq(Words)
         /\ ~k.there => v = <<>>
         /\ k.there /\ "disable_scanning" \in k.refuses => v = <<"resend">>
         /\ k.there /\ "disable_scanning" \notin k.refuses => v = <<"ack">>
<1>1. k \in Kinds /\ KnownKind(k) /\ k = ports[port].kind
  BY KindIs DEF Kind
<1>2. v = IF ~k.there THEN <<>>
          ELSE IF "disable_scanning" \in k.refuses THEN <<"resend">> ELSE <<"ack">>
  BY <1>1 DEF Reply, KnownKind
<1>3. <<>> \in Seq(Words) /\ <<"resend">> \in Seq(Words) /\ <<"ack">> \in Seq(Words)
  <2>1. "resend" \in Words /\ "ack" \in Words
    BY Said DEF Protocol
  <2> QED
    BY <2>1, ShortIs, Zenon
<1>4. v \in Seq(Words)
  BY <1>2, <1>3, Zenon
<1> QED
  BY <1>2, <1>4, Zenon

(* What it answers when it is asked to identify itself.                    *)
Shown(k) == IF config.translate /\ k.ident = <<"AB", "83">> THEN <<"AB", "41">> ELSE k.ident

LEMMA ReplyToIdentify ==
  ASSUME HardwareOK, KnownKinds, NEW port \in channels,
         NEW v, v = Reply(port, "identify"), NEW k, k = Kind(port)
  PROVE  /\ v \in Seq(Words)
         /\ ~k.there => v = <<>>
         /\ k.there /\ "identify" \in k.refuses => v = <<"resend">>
         /\ k.there /\ "identify" \notin k.refuses => v = <<"ack">> \o Shown(k)
<1>1. k \in Kinds /\ KnownKind(k) /\ k = ports[port].kind
  BY KindIs DEF Kind
<1>2. v = IF ~k.there THEN <<>>
          ELSE IF "identify" \in k.refuses THEN <<"resend">> ELSE <<"ack">> \o Shown(k)
  BY <1>1 DEF Reply, KnownKind, Shown
<1>3. <<>> \in Seq(Words) /\ <<"resend">> \in Seq(Words) /\ <<"ack">> \in Seq(Words)
      /\ <<"AB", "41">> \in Seq(Words)
  <2>1. "resend" \in Words /\ "ack" \in Words /\ "AB" \in Words /\ "41" \in Words
    BY Said DEF Protocol
  <2> QED
    BY <2>1, ShortIs, Zenon
<1>4. k.ident \in Seq(Words)
  BY <1>1, Said
<1>5. Shown(k) \in Seq(Words)
  BY <1>3, <1>4, Zenon DEF Shown
<1>6. <<"ack">> \o Shown(k) \in Seq(Words)
  BY <1>3, <1>5, BehindIs
<1>7. v \in Seq(Words)
  BY <1>2, <1>3, <1>6, Zenon
<1> QED
  BY <1>2, <1>7, Zenon

(* The answer to the reset ends the device's self test once.               *)
LEMMA ResetAnswer ==
  ASSUME HardwareOK, KnownKinds, NEW port \in channels,
         NEW a, a = Answer(Reply(port, "reset"), port, "reset")
  PROVE  a \in Seq(Bytes) /\ EndOnce(a)
<1> DEFINE v == Reply(port, "reset")
           k == Kind(port)
<1>1. /\ v \in Seq(Words)
      /\ \/ v = <<>> \/ v = <<"resend">> \/ v = <<"ack", "ok">>
         \/ v = <<"ack", "ok", k.extra[1]>> /\ k.extra[1] \notin {"ok", "AB"}
  <2>1. k.there \in BOOLEAN
    BY KindIs DEF KnownKind
  <2> QED
    BY <2>1, ReplyToReset
<1>2. port \in Senders /\ "reset" \in Causes
  BY KindIs DEF Senders, Causes, Ports
<1> DEFINE x == k.extra[1]
<1> HIDE DEF v, k, x
<1>3. a \in Seq(Bytes) /\ Len(a) = Len(v) /\ \A i \in 1..Len(v) : a[i].value = v[i]
  BY <1>1, <1>2, AnswerIs DEF v
<1>4. ASSUME NEW i \in 1..Len(a), NEW j \in 1..Len(a), i < j, a[i].value = "ok"
      PROVE  a[j] \in Calm
  <2>1. v[i] = "ok" /\ a[j].value = v[j] /\ a[j] \in Bytes /\ i \in 1..Len(v) /\ j \in 1..Len(v)
    BY <1>3, <1>4
  <2>2. CASE v = <<>> \/ v = <<"resend">>
    BY <1>4, <2>1, <2>2
  <2>3. CASE v = <<"ack", "ok">>
    <3>1. j = 2
      BY <1>4, <2>1, <2>3
    <3>2. i = 1
      BY <1>4, <3>1
    <3> QED
      BY <2>1, <2>3, <3>2
  <2>4. CASE v = <<"ack", "ok", x>> /\ x \notin {"ok", "AB"}
    <3>1. i = 1 \/ i = 2
      BY <1>4, <2>1, <2>4
    <3>2. i = 2
      BY <2>1, <2>4, <3>1
    <3>3. j = 3
      BY <1>4, <2>1, <2>4, <3>2
    <3>4. a[j].value = x
      BY <2>1, <2>4, <3>3
    <3> QED
      BY <2>1, <2>4, <3>4 DEF Calm
  <2> QED
    BY <1>1, <2>2, <2>3, <2>4 DEF x
<1> QED
  BY <1>3, <1>4 DEF EndOnce

(* An answer of a word is calm.                                            *)
LEMMA WordAnswer ==
  ASSUME NEW v \in Seq(Words), v = <<>> \/ v = <<"resend">> \/ v = <<"ack">>,
         NEW port \in Senders, NEW cause \in Causes, NEW a, a = Answer(v, port, cause)
  PROVE  a \in Seq(Calm)
<1>1. a \in Seq(Bytes) /\ Len(a) = Len(v) /\ \A i \in 1..Len(v) : a[i].value = v[i]
  BY AnswerIs
<1>2. ASSUME NEW i \in 1..Len(a) PROVE a[i] \in Calm
  <2>1. a[i] \in Bytes /\ a[i].value = v[i] /\ i \in 1..Len(v)
    BY <1>1
  <2>2. v[i] = "resend" \/ v[i] = "ack"
    BY <2>1
  <2> QED
    BY <2>1, <2>2 DEF Calm
<1> QED
  BY <1>1, <1>2

(* The answer to the command that switches the keys off says no more.      *)
LEMMA ScanningAnswer ==
  ASSUME HardwareOK, KnownKinds, NEW port \in channels
  PROVE  Answer(Reply(port, "disable_scanning"), port, "disable_scanning") \in Seq(Calm)
<1>1. /\ Reply(port, "disable_scanning") \in Seq(Words)
      /\ \/ Reply(port, "disable_scanning") = <<>> \/ Reply(port, "disable_scanning") = <<"resend">>
         \/ Reply(port, "disable_scanning") = <<"ack">>
  <2>1. Kind(port).there \in BOOLEAN
    BY KindIs DEF KnownKind
  <2> QED
    BY <2>1, ReplyToScanning
<1>2. port \in Senders /\ "disable_scanning" \in Causes
  BY KindIs DEF Senders, Causes, Ports
<1> QED
  BY <1>1, <1>2, WordAnswer, Zenon

(* An identification that begins with AB goes on.                          *)
LEMMA IdentifyAnswer ==
  ASSUME HardwareOK, KnownKinds, NEW port \in channels, NEW k, k = Kind(port),
         NEW a, a = Answer(Reply(port, "identify"), port, "identify")
  PROVE  a \in Seq(Bytes) /\ a \in Seq(Sober) /\ Announced(k, a)
<1> DEFINE v == Reply(port, "identify")
           x == k.ident[1]
           y == k.ident[2]
<1>1. k.there \in BOOLEAN /\ KnownKind(k)
  BY KindIs DEF KnownKind
<1>2. v \in Seq(Words) /\ (v = <<>> \/ v = <<"resend">> \/ v = <<"ack">> \o Shown(k))
  BY <1>1, ReplyToIdentify
<1>3. \/ Shown(k) = <<>>
      \/ Shown(k) = <<x>> /\ x \notin {"ok", "AB"}
      \/ Shown(k) = <<"AB", y>> /\ y \notin {"ok", "AB", "41", "C1"} /\ k.ident = <<"AB", y>>
      \/ Shown(k) = <<"AB", "41">> /\ k.ident = <<"AB", "83">>
  BY <1>1, Zenon DEF Shown, KnownKind
<1>4. port \in Senders /\ "identify" \in Causes
  BY KindIs DEF Senders, Causes, Ports
<1> HIDE DEF v, x, y
<1>5. a \in Seq(Bytes) /\ Len(a) = Len(v) /\ \A i \in 1..Len(v) : a[i].value = v[i]
  BY <1>2, <1>4, AnswerIs DEF v
<1>6. \/ v = <<>> \/ v = <<"resend">> \/ v = <<"ack">>
      \/ v = <<"ack", x>> /\ x \notin {"ok", "AB"}
      \/ \E z : v = <<"ack", "AB", z>> /\ z \notin {"ok", "AB"} /\ Right(k, z)
  <2>1. CASE v = <<"ack">> \o Shown(k) /\ Shown(k) = <<>>
    BY <2>1, Tuples
  <2>2. CASE v = <<"ack">> \o Shown(k) /\ Shown(k) = <<x>> /\ x \notin {"ok", "AB"}
    BY <2>2, Tuples
  <2>3. CASE v = <<"ack">> \o Shown(k) /\ Shown(k) = <<"AB", y>> /\ y \notin {"ok", "AB", "41", "C1"}
               /\ k.ident = <<"AB", y>>
    <3>1. v = <<"ack", "AB", y>>
      BY <2>3, Tuples, ZenonT(60)
    <3>2. y = "83" => k.ident = <<"AB", "83">>
      BY <2>3
    <3>3. Right(k, y)
      BY <2>3, <3>2 DEF Right, KeyboardType
    <3> QED
      BY <2>3, <3>1, <3>3
  <2>4. CASE v = <<"ack">> \o Shown(k) /\ Shown(k) = <<"AB", "41">> /\ k.ident = <<"AB", "83">>
    <3>1. v = <<"ack", "AB", "41">>
      <4>1. <<"ack">> \o <<"AB", "41">> = <<"ack", "AB", "41">>
        BY Tuples, Zenon
      <4> QED
        BY <2>4, <4>1
    <3>2. Right(k, "41")
      BY <2>4 DEF Right
    <3>3. "41" \notin {"ok", "AB"}
      OBVIOUS
    <3> QED
      BY <3>1, <3>2, <3>3
  <2> QED
    BY <1>2, <1>3, <2>1, <2>2, <2>3, <2>4
<1>7. ASSUME NEW i \in 1..Len(a) PROVE a[i] \in Sober
  <2>1. a[i] \in Bytes /\ a[i].value = v[i] /\ i \in 1..Len(v)
    BY <1>5
  <2>2. v[i] # "ok"
    <3>1. CASE v = <<>> \/ v = <<"resend">> \/ v = <<"ack">>
      BY <2>1, <3>1
    <3>2. CASE v = <<"ack", x>> /\ x \notin {"ok", "AB"}
      BY <2>1, <3>2
    <3>3. ASSUME NEW z, v = <<"ack", "AB", z>>, z \notin {"ok", "AB"} PROVE v[i] # "ok"
      BY <2>1, <3>3
    <3> QED
      BY <1>6, <3>1, <3>2, <3>3
  <2> QED
    BY <2>1, <2>2 DEF Sober
<1>8. ASSUME NEW i \in 1..Len(a), a[i].value = "AB"
      PROVE  i + 1 \in 1..Len(a) /\ Right(k, a[i + 1].value)
  <2>1. v[i] = "AB" /\ i \in 1..Len(v)
    BY <1>5, <1>8
  <2>2. CASE v = <<>> \/ v = <<"resend">> \/ v = <<"ack">>
    BY <2>1, <2>2
  <2>3. CASE v = <<"ack", x>> /\ x \notin {"ok", "AB"}
    BY <2>1, <2>3
  <2>4. ASSUME NEW z, v = <<"ack", "AB", z>>, z \notin {"ok", "AB"}, Right(k, z)
        PROVE  i + 1 \in 1..Len(a) /\ Right(k, a[i + 1].value)
    <3>1. i = 2 /\ Len(v) = 3
      BY <2>1, <2>4
    <3>2. i + 1 \in 1..Len(v) /\ i + 1 = 3
      BY <3>1
    <3>3. a[i + 1].value = z
      BY <1>5, <2>4, <3>2
    <3> QED
      BY <1>5, <2>4, <3>2, <3>3
  <2> QED
    BY <1>6, <2>2, <2>3, <2>4
<1> QED
  BY <1>5, <1>7, <1>8 DEF Announced

-----------------------------------------------------------------------------
(* The device's part keeps the invariant.                                  *)

(* The channel is enabled and the device is reset.                         *)
LEMMA ResetTyped == KnownKinds /\ TypeInv /\ Reset => TypeInv'
<1> SUFFICES ASSUME KnownKinds, TypeInv, Reset PROVE TypeInv'
  OBVIOUS
<1> DEFINE a == Answer(Reply(dev, "reset"), dev, "reset")
           w == waiting[dev]
           bytes == output \o w \o a
<1>1. /\ pc = "reset" /\ channels' = channels /\ ports' = ports
      /\ toCheck' = toCheck /\ found' = found /\ is_double_channel' = is_double_channel
      /\ config' = [config EXCEPT !.disabled = @ \ {dev}]
      /\ waiting' = [waiting EXCEPT ![dev] = <<>>]
      /\ scanning' = IF ports[dev].kind.keys THEN scanning \cup {dev} ELSE scanning \ {dev}
  BY DEF Reset, hardware, results
<1>2. PICK byte : ReadResponse(bytes, byte) /\ pc' = IF byte.value = "ack" THEN "reset_test" ELSE "panic"
  BY DEF Reset
<1>3. toCheck # <<>> /\ output \in Seq(Sober) /\ last \in Bytes /\ HardwareOK
      /\ waiting \in [Ports -> Seq(KeyBytes)] /\ scanning \subseteq channels
  BY <1>1 DEF TypeInv, CheckInv, SpeechInv, SpeechType, Checking
<1>4. dev \in channels /\ dev \in Ports
  BY <1>3, DevIs
<1>5. a \in Seq(Bytes) /\ EndOnce(a)
  BY <1>3, <1>4, ResetAnswer
<1>6. w \in Seq(KeyBytes)
  BY <1>3, <1>4
<1> HIDE DEF a, w
<1>7. w \in Seq(Sober)
  BY <1>6, Classes, MoreBytes
<1>8. output \o w \in Seq(Sober)
  BY <1>3, <1>7, BehindIs
<1>9. bytes \in Seq(Bytes) /\ EndOnce(bytes)
  <2>1. EndOnce((output \o w) \o a)
    BY <1>5, <1>8, EndOnceBehind
  <2>2. output \o w \in Seq(Bytes)
    BY <1>8, Classes, MoreBytes
  <2>3. (output \o w) \o a \in Seq(Bytes)
    BY <1>5, <2>2, BehindIs
  <2> QED
    BY <2>1, <2>3
<1> HIDE DEF bytes
<1>10. /\ last' = byte /\ output' \in Seq(Bytes) /\ byte \in Bytes \cup {last}
       /\ TakesFirst(bytes, byte) \/ TooEarly(bytes, byte) \/ FindsNone(bytes, byte)
  BY <1>2, <1>9, ReadsOf
<1>11. EndOnce(output')
  <2>1. CASE TakesFirst(bytes, byte)
    <3>1. PICK e : e \in Calm
      <4>1. "none" \in Words /\ "none" \in Senders /\ "none" \in Causes
        BY Said DEF Protocol, Senders, Causes
      <4>2. Byte("none", "none", "none") \in Calm
        BY <4>1, ByteIs DEF Calm
      <4> QED
        BY <4>2
    <3>2. bytes # <<>> => EndOnce(Tail(bytes))
      BY <1>9, <3>1, EndOnceKept
    <3> QED
      BY <2>1, <3>2 DEF TakesFirst
  <2>2. CASE TooEarly(bytes, byte)
    BY <1>9, <2>2 DEF TooEarly
  <2>3. CASE FindsNone(bytes, byte)
    BY <1>9, <2>3 DEF FindsNone
  <2> QED
    BY <1>10, <2>1, <2>2, <2>3
<1>12. HardwareOK'
  BY <1>1, <1>3 DEF HardwareOK, Configurations
<1>13. waiting' \in [Ports -> Seq(KeyBytes)] /\ scanning' \subseteq channels'
  <2>1. <<>> \in Seq(KeyBytes)
    OBVIOUS
  <2> QED
    BY <1>1, <1>3, <1>4, <2>1
<1>14. pc' \in {"reset_test", "panic"} /\ (pc' = "reset_test" => byte.value = "ack")
  BY <1>2
<1>15. SpeechType'
  BY <1>3, <1>10, <1>12, <1>13, <1>14 DEF SpeechType, Places, Checking
<1>16. CheckInv'
  BY <1>1, <1>3, <1>14 DEF TypeInv, CheckInv, Early, Checking, Calmly
<1>17. StartInv'
  BY <1>14 DEF StartInv
<1>18. SpeechInv'
  BY <1>10, <1>11, <1>14 DEF SpeechInv, Early, Calmly
<1>19. TypeIsRight'
  BY <1>1, TypeStays DEF TypeInv
<1> QED
  BY <1>15, <1>16, <1>17, <1>18, <1>19 DEF TypeInv

(* What holds anyway after a read that nothing depends on.                 *)
LEMMA NextPlace ==
  ASSUME TypeInv, pc \in Checking, pc' \in Checking \cup {"panic"},
         channels' = channels, ports' = ports, config' = config, scanning' \subseteq scanning,
         waiting' = waiting, toCheck' = toCheck, found' = found,
         output' \in Seq(Bytes), last' \in Bytes
  PROVE  /\ SpeechType' /\ CheckInv' /\ StartInv' /\ TypeIsRight'
         /\ Kind(dev)' = Kind(dev)
<1>1. SpeechType'
  BY DEF TypeInv, SpeechType, HardwareOK, Places
<1>2. CheckInv'
  BY DEF TypeInv, CheckInv, Early, Checking, Calmly
<1>3. StartInv'
  BY DEF StartInv, Checking, Calmly
<1>4. TypeIsRight'
  BY TypeStays DEF TypeInv
<1>5. Kind(dev)' = Kind(dev)
  BY DEF Kind, dev
<1> QED
  BY <1>1, <1>2, <1>3, <1>4, <1>5

(* The end of the device's self test.                                      *)
LEMMA ResetTestTyped == TypeInv /\ ResetTest => TypeInv'
<1> SUFFICES ASSUME TypeInv, ResetTest PROVE TypeInv'
  OBVIOUS
<1>1. /\ pc = "reset_test" /\ channels' = channels /\ ports' = ports /\ config' = config
      /\ scanning' = scanning /\ waiting' = waiting /\ toCheck' = toCheck /\ found' = found
  BY DEF ResetTest, hardware, results
<1>2. PICK byte : ReadResponse(output, byte) /\ pc' = IF byte.value = "ok" THEN "extra_read" ELSE "panic"
  BY DEF ResetTest
<1>3. output \in Seq(Bytes) /\ last \in Bytes /\ EndOnce(output) /\ last.value # "ok"
  BY <1>1 DEF TypeInv, SpeechType, SpeechInv
<1>4. /\ last' = byte /\ output' \in Seq(Bytes) /\ byte \in Bytes \cup {last}
      /\ TakesFirst(output, byte) \/ TooEarly(output, byte) \/ FindsNone(output, byte)
  BY <1>2, <1>3, ReadsOf
<1>5. pc' \in {"extra_read", "panic"} /\ (pc' = "extra_read" => byte.value = "ok")
  BY <1>2
<1>6. SpeechType' /\ CheckInv' /\ StartInv' /\ TypeIsRight'
  <2>1. pc \in Checking /\ pc' \in Checking \cup {"panic"}
    BY <1>1, <1>5 DEF Checking, Calmly
  <2> QED
    BY <1>1, <1>3, <1>4, <2>1, NextPlace
<1>7. byte.value = "ok" => output' \in Seq(Calm)
  <2> SUFFICES ASSUME byte.value = "ok" PROVE output' \in Seq(Calm)
    OBVIOUS
  <2>1. TakesFirst(output, byte)
    BY <1>3, <1>4 DEF TooEarly, FindsNone
  <2> QED
    BY <1>3, <2>1, CalmAfter DEF TakesFirst
<1>8. SpeechInv'
  BY <1>4, <1>5, <1>7 DEF SpeechInv, Early, Calmly
<1> QED
  BY <1>6, <1>8 DEF TypeInv

(* The read that fixes it.                                                 *)
LEMMA ExtraReadTyped == TypeInv /\ ExtraRead => TypeInv'
<1> SUFFICES ASSUME TypeInv, ExtraRead PROVE TypeInv'
  OBVIOUS
<1>1. /\ pc = "extra_read" /\ pc' = "disable_scanning"
      /\ channels' = channels /\ ports' = ports /\ config' = config
      /\ scanning' = scanning /\ waiting' = waiting /\ toCheck' = toCheck /\ found' = found
  BY DEF ExtraRead, hardware, results
<1>2. PICK byte : ReadResponse(output, byte)
  BY DEF ExtraRead
<1>3. output \in Seq(Calm) /\ last \in Bytes /\ last.value # "AB"
  BY <1>1 DEF TypeInv, SpeechType, SpeechInv, Calmly
<1>4. last' = byte /\ output' \in Seq(Calm) /\ byte \in Calm \cup {last}
  BY <1>2, <1>3, Classes, ReadsOf
<1>5. last' \in Bytes /\ last'.value # "AB" /\ output' \in Seq(Bytes)
  BY <1>3, <1>4, Classes, MoreBytes DEF Calm
<1>6. SpeechType' /\ CheckInv' /\ StartInv' /\ TypeIsRight'
  <2>1. pc \in Checking /\ pc' \in Checking \cup {"panic"}
    BY <1>1 DEF Checking, Calmly
  <2> QED
    BY <1>1, <1>5, <2>1, NextPlace
<1>7. SpeechInv'
  BY <1>1, <1>4, <1>5 DEF SpeechInv, Early
<1> QED
  BY <1>6, <1>7 DEF TypeInv

(* The end of the check of a device: what it is found to be, it is.        *)
LEMMA CheckedTyped ==
  ASSUME KnownKinds, TypeInv, pc \in Checking, NEW type, Checked(type),
         type \in {"keyboard", "translated"} => Kind(dev).ident = <<"AB", "83">>,
         channels' = channels, ports' = ports, config' = config, scanning' \subseteq scanning,
         waiting' = waiting, output' \in Seq(Sober), last' \in Bytes
  PROVE  TypeInv'
<1>1. /\ found' = Found(type) /\ toCheck' = Tail(toCheck) /\ pc' = CheckNext(toCheck')
  BY DEF Checked
<1>2. toCheck # <<>>
  BY DEF TypeInv, CheckInv
<1>3. Tail(toCheck) \in {<<>>, <<"second">>} /\ (Tail(toCheck) # <<>> => "second" \in channels)
  BY <1>2, DevIs
<1>4. pc' \in {"reset", "enable_interrupt"} /\ (pc' = "reset" => toCheck' # <<>>)
  BY <1>1 DEF CheckNext
<1>5. output' \in Seq(Bytes)
  BY Classes, MoreBytes
<1>6. SpeechType'
  BY <1>4, <1>5 DEF TypeInv, SpeechType, HardwareOK, Places, Checking
<1>a. found' # None => found'.port \in Ports
  <2>1. dev \in Ports
    BY <1>2, DevIs
  <2> QED
    BY <1>1, <2>1 DEF Found, TypeInv, CheckInv
<1>b. toCheck' \in Queues
  BY <1>1, <1>3 DEF Queues
<1>c. toCheck' \in {<<"second">>, <<"first", "second">>} => "second" \in channels'
  BY <1>1, <1>3, Appended
<1>7. CheckInv'
  BY <1>4, <1>a, <1>b, <1>c DEF CheckInv, Early, Checking, Calmly
<1>8. StartInv'
  BY <1>4 DEF StartInv
<1>9. SpeechInv'
  BY <1>4 DEF SpeechInv, Early, Calmly
<1>10. TypeIsRight'
  <2>1. CASE type \in {"keyboard", "translated"}
    <3>1. found'.port = dev
      BY <1>1, <2>1 DEF Found
    <3> QED
      BY <2>1, <3>1 DEF TypeIsRight, Kind
  <2>2. CASE type \notin {"keyboard", "translated"}
    <3>1. found' = found
      BY <1>1, <2>2 DEF Found
    <3> QED
      BY <3>1, TypeStays DEF TypeInv
  <2> QED
    BY <2>1, <2>2
<1> QED
  BY <1>6, <1>7, <1>8, <1>9, <1>10 DEF TypeInv

(* A command of detect_device_type.                                        *)
LEMMA DisableScanningTyped == KnownKinds /\ TypeInv /\ DisableScanning => TypeInv'
<1> SUFFICES ASSUME KnownKinds, TypeInv, DisableScanning PROVE TypeInv'
  OBVIOUS
<1> DEFINE a == Answer(Reply(dev, "disable_scanning"), dev, "disable_scanning")
           bytes == output \o a
<1>1. /\ pc = "disable_scanning" /\ channels' = channels /\ ports' = ports /\ config' = config
      /\ waiting' = waiting /\ scanning' \subseteq scanning
  BY DEF DisableScanning, hardware
<1>2. PICK byte :
        /\ ReadResponse(bytes, byte)
        /\ IF byte.value = "ack" THEN pc' = "identify" /\ UNCHANGED results ELSE Checked("none")
  BY DEF DisableScanning, DetectCommand, Written
<1>3. output \in Seq(Calm) /\ last \in Bytes /\ last.value # "AB" /\ HardwareOK /\ toCheck # <<>>
  BY <1>1 DEF TypeInv, SpeechType, SpeechInv, CheckInv, Calmly, Checking
<1>4. a \in Seq(Calm)
  BY <1>3, DevIs, ScanningAnswer
<1>5. bytes \in Seq(Calm)
  BY <1>3, <1>4, BehindIs
<1> HIDE DEF a, bytes
<1>6. last' = byte /\ output' \in Seq(Calm) /\ byte \in Calm \cup {last}
  BY <1>2, <1>5, Classes, ReadsOf
<1>7. last' \in Bytes /\ output' \in Seq(Bytes) /\ output' \in Seq(Sober)
  BY <1>3, <1>6, Classes, MoreBytes
<1>8. pc \in Checking
  BY <1>1 DEF Checking, Calmly
<1>9. CASE byte.value = "ack"
  <2>1. pc' = "identify" /\ toCheck' = toCheck /\ found' = found
    BY <1>2, <1>9 DEF results
  <2>2. pc' \in Checking \cup {"panic"}
    BY <2>1 DEF Checking, Calmly
  <2>3. SpeechType' /\ CheckInv' /\ StartInv' /\ TypeIsRight'
    BY <1>1, <1>7, <1>8, <2>1, <2>2, NextPlace
  <2>4. SpeechInv'
    BY <1>6, <1>9, <2>1 DEF SpeechInv, Early
  <2> QED
    BY <2>3, <2>4 DEF TypeInv
<1>10. CASE byte.value # "ack"
  <2>1. Checked("none")
    BY <1>2, <1>10
  <2> QED
    BY <1>1, <1>7, <1>8, <2>1, CheckedTyped
<1> QED
  BY <1>9, <1>10

(* The next: its answer may be an identification.                          *)
LEMMA IdentifyTyped == KnownKinds /\ TypeInv /\ Identify => TypeInv'
<1> SUFFICES ASSUME KnownKinds, TypeInv, Identify PROVE TypeInv'
  OBVIOUS
<1> DEFINE a == Answer(Reply(dev, "identify"), dev, "identify")
           bytes == output \o a
<1>1. /\ pc = "identify" /\ channels' = channels /\ ports' = ports /\ config' = config
      /\ waiting' = waiting /\ scanning' = scanning
  BY DEF Identify, hardware
<1>2. PICK byte :
        /\ ReadResponse(bytes, byte)
        /\ IF byte.value = "ack" THEN pc' = "first_byte" /\ UNCHANGED results ELSE Checked("none")
  BY DEF Identify, DetectCommand, Written
<1>3. output \in Seq(Calm) /\ output \in Seq(Sober) /\ last \in Bytes /\ HardwareOK /\ toCheck # <<>>
  <2>1. output \in Seq(Calm) /\ last \in Bytes /\ HardwareOK /\ toCheck # <<>>
    BY <1>1 DEF TypeInv, SpeechType, SpeechInv, CheckInv, Calmly, Checking
  <2> QED
    BY <2>1, Classes, MoreBytes
<1>4. a \in Seq(Bytes) /\ a \in Seq(Sober) /\ Announced(Kind(dev), a)
  BY <1>3, DevIs, IdentifyAnswer
<1> HIDE DEF a
<1>5. bytes \in Seq(Sober)
  BY <1>3, <1>4, BehindIs
<1>6. Announced(Kind(dev), bytes)
  BY <1>3, <1>4, AnnouncedBehind
<1>7. bytes \in Seq(Bytes)
  BY <1>5, Classes, MoreBytes
<1> HIDE DEF bytes
<1>8. /\ last' = byte /\ output' \in Seq(Sober) /\ byte \in Sober \cup {last}
      /\ TakesFirst(bytes, byte) \/ TooEarly(bytes, byte) \/ FindsNone(bytes, byte)
  BY <1>2, <1>5, Classes, ReadsOf
<1>9. last' \in Bytes /\ output' \in Seq(Bytes)
  BY <1>3, <1>8, Classes, MoreBytes
<1>10. Announced(Kind(dev), output')
  <2>1. CASE TakesFirst(bytes, byte)
    <3>1. PICK e : e \in Calm
      <4>1. "none" \in Words /\ "none" \in Senders /\ "none" \in Causes
        BY Said DEF Protocol, Senders, Causes
      <4>2. Byte("none", "none", "none") \in Calm
        BY <4>1, ByteIs DEF Calm
      <4> QED
        BY <4>2
    <3>2. bytes # <<>> => Announced(Kind(dev), Tail(bytes))
      BY <1>6, <1>7, <3>1, AnnouncedKept
    <3> QED
      BY <2>1, <3>2 DEF TakesFirst
  <2>2. CASE TooEarly(bytes, byte)
    BY <1>6, <2>2 DEF TooEarly
  <2>3. CASE FindsNone(bytes, byte)
    BY <1>6, <2>3 DEF FindsNone
  <2> QED
    BY <1>8, <2>1, <2>2, <2>3
<1>11. pc \in Checking
  BY <1>1 DEF Checking, Calmly
<1>12. CASE byte.value = "ack"
  <2>1. pc' = "first_byte" /\ toCheck' = toCheck /\ found' = found
    BY <1>2, <1>12 DEF results
  <2>2. pc' \in Checking \cup {"panic"}
    BY <2>1 DEF Checking
  <2>3. SpeechType' /\ CheckInv' /\ StartInv' /\ TypeIsRight' /\ Kind(dev)' = Kind(dev)
    BY <1>1, <1>9, <1>11, <2>1, <2>2, NextPlace
  <2>4. Announced(Kind(dev), output)'
    <3>1. Announced(Kind(dev)', output')
      BY <1>10, <2>3
    <3> QED
      BY <3>1
  <2>5. SpeechInv'
    BY <1>8, <1>12, <2>1, <2>4 DEF SpeechInv, Calmly
  <2> QED
    BY <2>3, <2>5 DEF TypeInv
<1>13. CASE byte.value # "ack"
  <2>1. Checked("none")
    BY <1>2, <1>13
  <2> QED
    BY <1>1, <1>8, <1>9, <1>11, <2>1, CheckedTyped
<1> QED
  BY <1>12, <1>13

(* The first byte of the identification.                                   *)
LEMMA FirstByteTyped == KnownKinds /\ TypeInv /\ FirstByte => TypeInv'
<1> SUFFICES ASSUME KnownKinds, TypeInv, FirstByte PROVE TypeInv'
  OBVIOUS
<1>1. /\ pc = "first_byte" /\ channels' = channels /\ ports' = ports /\ config' = config
      /\ waiting' = waiting /\ scanning' = scanning
  BY DEF FirstByte, hardware
<1>2. PICK byte :
        /\ ReadResponse(output, byte)
        /\ IF byte.value = "AB" THEN pc' = "second_byte" /\ UNCHANGED results
           ELSE Checked(IF byte.value \in {"00", "03", "04"} THEN "mouse" ELSE "none")
  BY DEF FirstByte
<1>3. /\ output \in Seq(Sober) /\ output \in Seq(Bytes) /\ last \in Bytes /\ last.value # "AB"
      /\ Announced(Kind(dev), output)
  BY <1>1 DEF TypeInv, SpeechType, SpeechInv
<1>4. /\ last' = byte /\ output' \in Seq(Sober) /\ byte \in Sober \cup {last}
      /\ TakesFirst(output, byte) \/ TooEarly(output, byte) \/ FindsNone(output, byte)
  BY <1>2, <1>3, Classes, ReadsOf
<1>5. last' \in Bytes /\ output' \in Seq(Bytes)
  BY <1>3, <1>4, Classes, MoreBytes
<1>6. pc \in Checking
  BY <1>1 DEF Checking
<1>7. CASE byte.value = "AB"
  <2>1. pc' = "second_byte" /\ toCheck' = toCheck /\ found' = found
    BY <1>2, <1>7 DEF results
  <2>2. pc' \in Checking \cup {"panic"}
    BY <2>1 DEF Checking
  <2>3. SpeechType' /\ CheckInv' /\ StartInv' /\ TypeIsRight' /\ Kind(dev)' = Kind(dev)
    BY <1>1, <1>5, <1>6, <2>1, <2>2, NextPlace
  <2>4. TakesFirst(output, byte)
    BY <1>3, <1>4, <1>7 DEF TooEarly, FindsNone
  <2>5. output # <<>> /\ output[1].value = "AB" /\ output' = Tail(output)
    BY <1>7, <2>4 DEF TakesFirst
  <2>6. Tail(output) # <<>> /\ Right(Kind(dev), Tail(output)[1].value)
    <3>1. PICK e : e \in Calm
      <4>1. "none" \in Words /\ "none" \in Senders /\ "none" \in Causes
        BY Said DEF Protocol, Senders, Causes
      <4>2. Byte("none", "none", "none") \in Calm
        BY <4>1, ByteIs DEF Calm
      <4> QED
        BY <4>2
    <3> QED
      BY <1>3, <2>5, <3>1, AnnouncedKept
  <2>7. output' # <<>> /\ Right(Kind(dev)', output'[1].value)
    BY <2>3, <2>5, <2>6
  <2>8. SpeechInv'
    BY <1>4, <1>7, <2>1, <2>7 DEF SpeechInv, Calmly
  <2> QED
    BY <2>3, <2>8 DEF TypeInv
<1>8. CASE byte.value # "AB"
  <2> DEFINE type == IF byte.value \in {"00", "03", "04"} THEN "mouse" ELSE "none"
  <2>1. Checked(type) /\ type \notin {"keyboard", "translated"}
    BY <1>2, <1>8
  <2> HIDE DEF type
  <2> QED
    BY <1>1, <1>4, <1>5, <1>6, <2>1, CheckedTyped
<1> QED
  BY <1>7, <1>8

(* The second one.                                                         *)
LEMMA SecondByteTyped == KnownKinds /\ TypeInv /\ SecondByte => TypeInv'
<1> SUFFICES ASSUME KnownKinds, TypeInv, SecondByte PROVE TypeInv'
  OBVIOUS
<1>1. /\ pc = "second_byte" /\ channels' = channels /\ ports' = ports /\ config' = config
      /\ waiting' = waiting /\ scanning' = scanning
  BY DEF SecondByte, hardware
<1>2. PICK byte : ReadResponse(output, byte) /\ Checked(KeyboardType(byte.value))
  BY DEF SecondByte
<1>3. /\ output \in Seq(Sober) /\ output \in Seq(Bytes) /\ last \in Bytes /\ last.value = "AB"
      /\ output # <<>> /\ Right(Kind(dev), output[1].value)
  BY <1>1 DEF TypeInv, SpeechType, SpeechInv
<1>4. /\ last' = byte /\ output' \in Seq(Sober) /\ byte \in Sober \cup {last}
      /\ TakesFirst(output, byte) \/ TooEarly(output, byte) \/ FindsNone(output, byte)
  BY <1>2, <1>3, Classes, ReadsOf
<1>5. last' \in Bytes /\ output' \in Seq(Bytes)
  BY <1>3, <1>4, Classes, MoreBytes
<1>6. pc \in Checking
  BY <1>1 DEF Checking
<1>7. KeyboardType(byte.value) # "none" => Kind(dev).ident = <<"AB", "83">>
  <2>1. CASE TakesFirst(output, byte)
    BY <1>3, <2>1 DEF TakesFirst, Right
  <2>2. CASE byte = last
    BY <1>3, <2>2 DEF KeyboardType
  <2> QED
    BY <1>4, <2>1, <2>2 DEF TooEarly, FindsNone
<1> DEFINE type == KeyboardType(byte.value)
<1>8. Checked(type) /\ (type \in {"keyboard", "translated"} => Kind(dev).ident = <<"AB", "83">>)
  BY <1>2, <1>7
<1> HIDE DEF type
<1> QED
  BY <1>1, <1>4, <1>5, <1>6, <1>8, CheckedTyped

-----------------------------------------------------------------------------
(* The rest.                                                               *)

(* The keyboard's driver is set up.                                        *)
LEMMA DriverTyped == TypeInv /\ (NoKeyboard \/ EnableInterrupt \/ Construct) => TypeInv'
<1> SUFFICES ASSUME TypeInv, NoKeyboard \/ EnableInterrupt \/ Construct PROVE TypeInv'
  OBVIOUS
<1>1. /\ pc' \in {"construct", "done", "panic"}
      /\ channels' = channels /\ ports' = ports /\ scanning' = scanning /\ waiting' = waiting
      /\ toCheck' = toCheck /\ found' = found
  BY DEF NoKeyboard, EnableInterrupt, Construct, hardware, results
<1>2. output \in Seq(Bytes) /\ last \in Bytes /\ HardwareOK
  BY DEF TypeInv, SpeechType
<1>3. output' \in Seq(Bytes) /\ last' \in Bytes /\ config' \in Configurations
  <2>1. CASE EnableInterrupt
    <3> DEFINE bytes == Asked("configuration", "configuration")
    <3>1. PICK byte : \E c \in Configurations :
            /\ ReadResponse(bytes, byte) /\ ReadAs(byte, c)
            /\ config' = [c EXCEPT !.irq = @ \cup {found.port}]
      BY <2>1, Zenon DEF EnableInterrupt
    <3>2. PICK c \in Configurations : config' = [c EXCEPT !.irq = @ \cup {found.port}]
      BY <3>1
    <3>3. bytes \in Seq(Bytes)
      <4>1. "configuration" \in Causes /\ "configuration" \in Protocol
        BY DEF Causes, Protocol
      <4>2. Byte("configuration", "controller", "configuration") \in Bytes
        BY <4>1, ControllerByte
      <4> QED
        BY <1>2, <4>1, <4>2, AskedIs
    <3>4. ReadResponse(bytes, byte)
      BY <3>1
    <3> HIDE DEF bytes
    <3>5. last' = byte /\ output' \in Seq(Bytes) /\ byte \in Bytes \cup {last}
      BY <3>3, <3>4, ReadsOf
    <3>6. found.port \in Ports
      BY <2>1 DEF EnableInterrupt, TypeInv, CheckInv
    <3> QED
      BY <1>2, <3>2, <3>5, <3>6 DEF Configurations
  <2>2. CASE NoKeyboard \/ Construct
    BY <1>2, <2>2 DEF NoKeyboard, Construct, HardwareOK
  <2> QED
    BY <2>1, <2>2
<1>4. SpeechType'
  BY <1>1, <1>2, <1>3 DEF TypeInv, SpeechType, HardwareOK, Places
<1>5. CheckInv'
  BY <1>1 DEF TypeInv, CheckInv, Early, Checking, Calmly
<1>6. StartInv'
  BY <1>1 DEF StartInv
<1>7. SpeechInv'
  BY <1>1 DEF SpeechInv, Early, Calmly
<1>8. TypeIsRight'
  BY <1>1, TypeStays DEF TypeInv
<1> QED
  BY <1>4, <1>5, <1>6, <1>7, <1>8 DEF TypeInv

(* A key, at any time.                                                     *)
LEMMA PressTyped ==
  ASSUME PlainKeys, TypeInv, NEW port \in Ports, Press(port)
  PROVE  TypeInv'
<1>1. /\ pc' = pc /\ channels' = channels /\ ports' = ports /\ scanning' = scanning
      /\ config' = config /\ last' = last /\ is_double_channel' = is_double_channel
      /\ toCheck' = toCheck /\ found' = found /\ port \in scanning
  BY DEF Press, hardware, results
<1>2. PICK e \in KeyBytes :
        \/ /\ waiting' = [waiting EXCEPT ![port] = Append(@, e)]
           /\ output' = output
        \/ /\ output' = Append(output, e) /\ waiting' = waiting
           /\ port \notin config.disabled
  <2>1. PICK code \in ScanCodes :
          IF port \in config.disabled \/ (pc = "disable" /\ output # <<>>)
          THEN /\ waiting' = [waiting EXCEPT ![port] = Append(@, Byte(code, port, "key"))]
               /\ UNCHANGED output
          ELSE output' = Append(output, Byte(code, port, "key")) /\ UNCHANGED waiting
    BY DEF Press
  <2>2. Byte(code, port, "key") \in KeyBytes
    BY KeyByte
  <2> QED
    BY <2>1, <2>2
<1>3. e \in Calm /\ e \in Sober /\ e \in Bytes /\ e.value # "passed"
  BY Classes DEF KeyBytes
<1>4. SpeechType /\ scanning \subseteq channels /\ output \in Seq(Bytes)
  BY DEF TypeInv, SpeechType
<1>5. CASE output' = output /\ waiting' = [waiting EXCEPT ![port] = Append(@, e)]
  <2>1. waiting' \in [Ports -> Seq(KeyBytes)]
    <3>1. waiting \in [Ports -> Seq(KeyBytes)] /\ waiting[port] \in Seq(KeyBytes)
      BY <1>4 DEF SpeechType
    <3>2. Append(waiting[port], e) \in Seq(KeyBytes)
      BY <3>1, AppendIs
    <3> QED
      BY <1>5, <3>1, <3>2
  <2>2. SpeechType'
    BY <1>1, <1>4, <1>5, <2>1 DEF SpeechType, HardwareOK
  <2>3. CheckInv' /\ StartInv'
    BY <1>1, <1>5 DEF TypeInv, CheckInv, StartInv, InStep, OutOfStep
  <2>4. Kind(dev)' = Kind(dev)
    BY <1>1 DEF Kind, dev
  <2>5. SpeechInv'
    BY <1>1, <1>5, <2>4 DEF TypeInv, SpeechInv
  <2>6. TypeIsRight'
    BY <1>1, TypeStays DEF TypeInv
  <2> QED
    BY <2>2, <2>3, <2>5, <2>6 DEF TypeInv
<1>6. CASE output' = Append(output, e) /\ waiting' = waiting /\ port \notin config.disabled
  <2>1. output' \in Seq(Bytes) /\ output' # <<>> /\ (output # <<>> => output'[1] = output[1])
    BY <1>3, <1>4, <1>6, AppendIs, FirstStays
  <2>2. SpeechType'
    BY <1>1, <1>4, <1>6, <2>1 DEF SpeechType, HardwareOK
  <2>3. CheckInv'
    BY <1>1 DEF TypeInv, CheckInv
  <2>4. StartInv'
    <3>1. output \in Seq(KeyBytes) => output' \in Seq(KeyBytes)
      BY <1>6, AppendIs
    <3>2. ~InStep
      BY <1>1, <1>4, <1>6 DEF InStep
    <3>3. OutOfStep => OutOfStep'
      BY <2>1 DEF OutOfStep
    <3> QED
      BY <1>1, <3>1, <3>2, <3>3 DEF TypeInv, StartInv
  <2>5. Kind(dev)' = Kind(dev)
    BY <1>1 DEF Kind, dev
  <2>6. output \in Seq(Sober) => output' \in Seq(Sober)
    BY <1>3, <1>6, AppendIs
  <2>7. output \in Seq(Calm) => output' \in Seq(Calm)
    BY <1>3, <1>6, AppendIs
  <2>8. EndOnce(output) => EndOnce(output')
    BY <1>3, <1>4, <1>6, EndOnceKept
  <2>9. Announced(Kind(dev), output) => Announced(Kind(dev)', output')
    BY <1>3, <1>4, <1>6, <2>5, AnnouncedKept
  <2>10. Right(Kind(dev), output[1].value) /\ output # <<>>
           => output' # <<>> /\ Right(Kind(dev)', output'[1].value)
    BY <2>1, <2>5
  <2>11. SpeechInv'
    BY <1>1, <2>6, <2>7, <2>8, <2>9, <2>10 DEF TypeInv, SpeechInv
  <2>12. TypeIsRight'
    BY <1>1, TypeStays DEF TypeInv
  <2> QED
    BY <2>2, <2>3, <2>4, <2>11, <2>12 DEF TypeInv
<1> QED
  BY <1>2, <1>5, <1>6

(* Nothing happens.                                                        *)
LEMMA TypeStutters == TypeInv /\ UNCHANGED vars => TypeInv'
<1> SUFFICES ASSUME TypeInv, UNCHANGED vars PROVE TypeInv'
  OBVIOUS
<1>1. /\ pc' = pc /\ channels' = channels /\ ports' = ports /\ scanning' = scanning
      /\ config' = config /\ last' = last /\ is_double_channel' = is_double_channel
      /\ toCheck' = toCheck /\ found' = found /\ output' = output /\ waiting' = waiting
  BY DEF vars, hardware, results
<1>2. Kind(dev)' = Kind(dev)
  BY <1>1 DEF Kind, dev
<1>3. SpeechType' /\ CheckInv' /\ StartInv'
  BY <1>1 DEF TypeInv, SpeechType, HardwareOK, CheckInv, StartInv, InStep, OutOfStep
<1>4. SpeechInv'
  BY <1>1, <1>2 DEF TypeInv, SpeechInv
<1>5. TypeIsRight'
  BY <1>1, TypeStays DEF TypeInv
<1> QED
  BY <1>3, <1>4, <1>5 DEF TypeInv

(* The invariant holds in every state of every run.                        *)
LEMMA TypeAlways ==
  ASSUME KnownKinds, PlainKeys
  PROVE  Spec => []TypeInv
<1>1. Init => TypeInv
  BY TypeStarts
<1>2. TypeInv /\ [Next]_vars => TypeInv'
  <2> SUFFICES ASSUME TypeInv, [Next]_vars PROVE TypeInv'
    OBVIOUS
  <2>1. CASE init_ps2_controller
    BY <2>1, DisableDevicesTyped, ConfigureTyped, SelfTestTyped, TestFirstTyped, TestSecondTyped,
       ResetTyped, ResetTestTyped, ExtraReadTyped, DisableScanningTyped, IdentifyTyped,
       FirstByteTyped, SecondByteTyped, DriverTyped DEF init_ps2_controller
  <2>2. CASE \E port \in Ports : Press(port)
    BY <2>2, PressTyped
  <2>3. CASE UNCHANGED vars
    BY <2>3, TypeStutters
  <2> QED
    BY <2>1, <2>2, <2>3 DEF Next
<1> QED
  BY <1>1, <1>2, PTL DEF Spec

(* A keyboard is never taken for another kind of device nor a device for a *)
(* keyboard, whatever is pressed and however late the answers are, if the  *)
(* devices identify themselves the known way and no key sends what ends a  *)
(* test or begins an identification (ps2.cpp:68-112).                      *)
THEOREM KeyboardIsRecognised ==
  ASSUME KnownKinds, PlainKeys
  PROVE  Spec => []TypeIsRight
<1>1. TypeInv => TypeIsRight
  BY DEF TypeInv
<1> QED
  BY <1>1, TypeAlways, PTL

-----------------------------------------------------------------------------
(* A quiet run.                                                            *)

(* In a quiet run a read takes the first byte, or there is none.           *)
LEMMA QuietReads ==
  ASSUME NEW bytes \in Seq(Bytes), last \in Bytes, NEW byte, ReadResponse(bytes, byte), ~late'
  PROVE  /\ last' = byte /\ ~late /\ output' \in Seq(Bytes) /\ last' \in Bytes
         /\ \/ bytes # <<>> /\ byte = bytes[1] /\ output' = Tail(bytes)
            \/ bytes = <<>> /\ byte = last /\ output' = <<>>
<1>1. /\ last' = byte /\ output' \in Seq(Bytes) /\ byte \in Bytes \cup {last}
      /\ TakesFirst(bytes, byte) \/ TooEarly(bytes, byte) \/ FindsNone(bytes, byte)
  BY ReadsOf
<1>2. ~TooEarly(bytes, byte)
  BY DEF TooEarly
<1> QED
  BY <1>1, <1>2 DEF TakesFirst, FindsNone

(* Nothing waits in a queue of length 0.                                   *)
LEMMA NoneWaits == ASSUME NEW S, NEW s \in Seq(S), Len(s) = 0 PROVE s = <<>>
  OBVIOUS

(* A queue of one is empty afterwards.                                     *)
LEMMA OneRead ==
  ASSUME NEW S, NEW s \in Seq(S), Len(s) = 1
  PROVE  s # <<>> /\ Tail(s) = <<>>
<1>1. s # <<>>
  OBVIOUS
<1>2. Len(Tail(s)) = 0 /\ Tail(s) \in Seq(S)
  BY <1>1, TailIs
<1> DEFINE t == Tail(s)
<1>3. t \in Seq(S) /\ Len(t) = 0
  BY <1>2
<1> HIDE DEF t
<1>4. t = <<>>
  BY <1>3, NoneWaits
<1> QED
  BY <1>1, <1>4 DEF t

(* So is what the controller was asked for.                                *)
LEMMA AskedQuietly ==
  ASSUME output = <<>>, last \in Bytes,
         NEW value \in {"passed", "failed", "00", "bad", "configuration"}, NEW cause \in Causes,
         NEW byte, ReadResponse(Asked(value, cause), byte), ~late'
  PROVE  /\ last' = byte /\ byte = Byte(value, "controller", cause) /\ byte \in Bytes
         /\ byte.value = value /\ byte.cause = cause /\ output' = <<>>
         /\ Asked(value, cause) # <<>> /\ Head(Asked(value, cause)) = byte
<1> DEFINE b == Byte(value, "controller", cause)
           bytes == Asked(value, cause)
<1>1. b \in Bytes /\ b.value = value /\ b.cause = cause
  BY ControllerByte
<1>2. bytes = <<b>>
  BY DEF Asked
<1> HIDE DEF b, bytes
<1>3. bytes \in Seq(Bytes) /\ Len(bytes) = 1 /\ bytes[1] = b /\ Head(bytes) = b
  BY <1>1, <1>2, OneIs
<1>4. bytes # <<>> /\ Tail(bytes) = <<>>
  BY <1>3, OneRead
<1>5. ReadResponse(bytes, byte)
  BY DEF bytes
<1>6. last' = byte /\ byte = bytes[1] /\ output' = Tail(bytes)
  BY <1>3, <1>4, <1>5, QuietReads
<1> QED
  BY <1>1, <1>3, <1>4, <1>6 DEF b, bytes

(* The device that is checked is on a good port.                           *)
LEMMA QuietDev ==
  ASSUME KnownKinds, QuietRun, pc \in Checking
  PROVE  /\ dev \in channels /\ dev \in Ports /\ Good(dev)
         /\ Kind(dev) \in Kinds /\ KnownKind(Kind(dev))
         /\ \/ Tail(toCheck) = <<>> /\ (dev = "first" => ~Good("second"))
            \/ Tail(toCheck) = <<"second">> /\ dev = "first" /\ Good("second")
         /\ dev = "first" => FoundSoFar = None
         /\ dev = "second" => FoundSoFar = FirstFound
<1>1. InTurn /\ toCheck # <<>> /\ HardwareOK
  BY DEF QuietRun, QuietCheck, QuietType, Checking, Calmly
<1>2. CASE toCheck = <<"first">> /\ Good("first") /\ ~Good("second")
  <2>1. dev = "first" /\ Tail(toCheck) = <<>>
    BY <1>2 DEF dev
  <2>2. FoundSoFar = None
    BY <1>2 DEF FoundSoFar
  <2> QED
    BY <1>1, <1>2, <2>1, <2>2, KindIs DEF Good
<1>3. CASE toCheck = <<"second">> /\ Good("second")
  <2>1. dev = "second" /\ Tail(toCheck) = <<>>
    BY <1>3 DEF dev
  <2>2. FoundSoFar = FirstFound
    BY <1>3 DEF FoundSoFar
  <2> QED
    BY <1>1, <1>3, <2>1, <2>2, KindIs DEF Good
<1>4. CASE toCheck = <<"first", "second">> /\ Good("first") /\ Good("second")
  <2>1. dev = "first"
    BY <1>4 DEF dev
  <2>2. Tail(toCheck) = <<"second">>
    BY <1>4
  <2>3. FoundSoFar = None
    BY <1>4 DEF FoundSoFar
  <2> QED
    BY <1>1, <1>4, <2>1, <2>2, <2>3, KindIs DEF Good
<1> QED
  BY <1>1, <1>2, <1>3, <1>4 DEF InTurn

(* Nothing but the driver's place, the bytes and who scans changes.        *)
LEMMA QuietPlace ==
  ASSUME KnownKinds, QuietRun, pc \in Checking, pc' \in Checking \cup {"panic"},
         channels' = channels, ports' = ports,
         config'.translate = config.translate, config'.irq = config.irq, config' \in Configurations,
         waiting' = waiting, toCheck' = toCheck, found' = found, s_keyboard' = s_keyboard,
         found # None => found.port \notin scanning',
         pc' \in {"identify", "first_byte", "second_byte"} => dev \notin scanning',
         output' \in Seq(Bytes), last' \in Bytes
  PROVE  /\ QuietType' /\ QuietCheck' /\ QuietFound' /\ Kind(dev)' = Kind(dev)
<1>1. QuietType'
  BY DEF QuietRun, QuietType, HardwareOK, Places
<1>2. QuietCheck'
  <2>1. InTurn' <=> InTurn
    BY DEF InTurn, Good
  <2> QED
    BY <2>1 DEF QuietRun, QuietCheck, Early, Checking, Calmly
<1>3. Kind(dev)' = Kind(dev) /\ dev' = dev
  BY DEF Kind, dev
<1>4. QuietFound'
  <2>1. FoundSoFar' = FoundSoFar
    BY DEF FoundSoFar, FirstFound, KeyboardAt, Usable
  <2>2. /\ found = FoundSoFar /\ config.irq = {} /\ s_keyboard = None
    BY DEF QuietRun, QuietFound, Places, Checking, Calmly
  <2>3. pc' \notin {"disable", "configure", "self_test", "test_first", "test_second",
                    "enable_interrupt", "construct", "done"}
    BY DEF Checking, Calmly
  <2> QED
    BY <1>3, <2>1, <2>2, <2>3 DEF QuietFound, Early
<1> QED
  BY <1>1, <1>2, <1>3, <1>4

(* A device's answer: its first word is read, the others wait.             *)
LEMMA AnsweredQuietly ==
  ASSUME NEW v \in Seq(Words), v # <<>>, NEW port \in Senders, NEW cause \in Causes,
         NEW a, a = Answer(v, port, cause), last \in Bytes,
         NEW byte, ReadResponse(a, byte), ~late'
  PROVE  /\ last' = byte /\ byte.value = v[1] /\ output' \in Seq(Bytes) /\ last' \in Bytes
         /\ Len(v) \in Nat /\ Len(v) >= 1 /\ Len(output') = Len(v) - 1
         /\ \A i \in 1..Len(output') : output'[i].value = v[i + 1]
<1>1. /\ a \in Seq(Bytes) /\ Len(a) = Len(v) /\ Len(v) \in Nat
      /\ \A i \in 1..Len(v) : a[i].value = v[i]
  BY AnswerIs
<1>2. Len(v) >= 1
  BY TailIs
<1>3. a # <<>>
  BY <1>1, <1>2
<1>4. last' = byte /\ byte = a[1] /\ output' = Tail(a) /\ output' \in Seq(Bytes) /\ last' \in Bytes
  BY <1>1, <1>3, QuietReads
<1>5. /\ Len(Tail(a)) = Len(a) - 1
      /\ \A i \in 1..Len(Tail(a)) : Tail(a)[i] = a[i + 1] /\ i + 1 \in 1..Len(a)
  BY <1>1, <1>3, TailIs
<1>6. byte.value = v[1]
  BY <1>1, <1>2, <1>4
<1>7. \A i \in 1..Len(output') : output'[i].value = v[i + 1]
  BY <1>1, <1>4, <1>5
<1> QED
  BY <1>1, <1>2, <1>4, <1>5, <1>6, <1>7

(* An answer of one word.                                                  *)
LEMMA WordQuietly ==
  ASSUME NEW v \in Seq(Words), NEW w, v = <<w>>, NEW port \in Senders, NEW cause \in Causes,
         NEW a, a = Answer(v, port, cause), last \in Bytes,
         NEW byte, ReadResponse(a, byte), ~late'
  PROVE  last' = byte /\ byte.value = w /\ output' = <<>> /\ last' \in Bytes
<1>1. v # <<>> /\ Len(v) = 1 /\ v[1] = w
  OBVIOUS
<1>2. /\ last' = byte /\ byte.value = v[1] /\ output' \in Seq(Bytes) /\ last' \in Bytes
      /\ Len(output') = Len(v) - 1
  BY <1>1, AnsweredQuietly
<1>3. Len(output') = 0
  BY <1>1, <1>2
<1>4. output' = <<>>
  BY <1>2, <1>3, NoneWaits
<1> QED
  BY <1>1, <1>2, <1>4

(* No answer.                                                              *)
LEMMA UnansweredQuietly ==
  ASSUME NEW v \in Seq(Words), v = <<>>, NEW port \in Senders, NEW cause \in Causes,
         NEW a, a = Answer(v, port, cause), last \in Bytes,
         NEW byte, ReadResponse(a, byte), ~late'
  PROVE  last' = last /\ byte = last /\ output' = <<>> /\ last' \in Bytes
<1>1. a \in Seq(Bytes) /\ Len(a) = Len(v)
  BY AnswerIs
<1>2. Len(a) = 0
  BY <1>1
<1>3. a = <<>>
  BY <1>1, <1>2, NoneWaits
<1> QED
  BY <1>1, <1>3, QuietReads

(* A read of nothing.                                                      *)
LEMMA SilentRead ==
  ASSUME output = <<>>, last \in Bytes, NEW byte, ReadResponse(output, byte), ~late'
  PROVE  last' = last /\ byte = last /\ output' = <<>> /\ last' \in Bytes
<1>1. byte \in {last} /\ output' = output /\ last' = byte
  BY DEF ReadResponse, Readable, Taken
<1> QED
  BY <1>1

(* What keeps the controller's part quiet.                                 *)
LEMMA StartsQuiet ==
  ASSUME QuietRun, pc \in Early, pc' \in {"configure", "self_test", "test_first", "panic"},
         channels' = channels, ports' = ports, waiting' = waiting,
         toCheck' = toCheck, found' = found, s_keyboard' = s_keyboard,
         output' = <<>>, last' \in Bytes, config' \in Configurations,
         pc' \in {"configure", "self_test"} => config'.disabled = channels,
         pc' \in {"self_test", "test_first"} =>
           config'.irq = {} /\ (is_double_channel' <=> "second" \in channels),
         pc' = "panic" => StopsForAReason'
  PROVE  QuietRun'
<1>1. QuietType'
  BY DEF QuietRun, QuietType, HardwareOK, Places, Early
<1>2. AnswerInv'
  BY DEF AnswerInv, NothingSaid
<1>3. toCheck = <<>> /\ found = None /\ s_keyboard = None
  BY DEF QuietRun, QuietCheck, QuietFound, Early
<1>4. QuietCheck'
  BY <1>3 DEF QuietCheck, InTurn, Early, Checking, Calmly
<1>5. QuietFound'
  BY <1>3 DEF QuietFound, Early, Checking, Calmly, Places
<1>6. StopsForAReason'
  BY DEF StopsForAReason
<1> QED
  BY <1>1, <1>2, <1>4, <1>5, <1>6 DEF QuietRun

(* Both devices are switched off.                                          *)
LEMMA DisableDevicesQuiet ==
  ASSUME QuietRun, ~late', DisableDevices
  PROVE  QuietRun'
<1>1. /\ pc = "disable" /\ pc' = "configure" /\ config' = [config EXCEPT !.disabled = channels]
      /\ channels' = channels /\ ports' = ports /\ waiting' = waiting
      /\ toCheck' = toCheck /\ found' = found /\ s_keyboard' = s_keyboard
  BY DEF DisableDevices, hardware, results
<1>2. output = <<>> /\ last \in Bytes /\ HardwareOK
  BY <1>1 DEF QuietRun, QuietType, AnswerInv, NothingSaid
<1>3. PICK byte : ReadResponse(output, byte)
  BY DEF DisableDevices
<1>4. output' = <<>> /\ last' \in Bytes
  BY <1>2, <1>3, SilentRead
<1>5. config' \in Configurations /\ config'.disabled = channels
  BY <1>1, <1>2 DEF HardwareOK, Configurations, Ports
<1> QED
  BY <1>1, <1>4, <1>5, StartsQuiet DEF Early

(* The configuration is read and written again.                            *)
LEMMA ConfigureQuiet ==
  ASSUME QuietRun, ~late', Configure
  PROVE  QuietRun'
<1>1. /\ pc = "configure" /\ pc' = "self_test"
      /\ channels' = channels /\ ports' = ports /\ waiting' = waiting
      /\ toCheck' = toCheck /\ found' = found /\ s_keyboard' = s_keyboard
  BY DEF Configure, hardware
<1>2. output = <<>> /\ last \in Bytes /\ HardwareOK /\ config.disabled = channels
  BY <1>1 DEF QuietRun, QuietType, AnswerInv, NothingSaid, QuietCheck
<1> DEFINE bytes == Asked("configuration", "configuration")
<1>3. PICK byte : \E c \in Configurations :
        /\ ReadResponse(bytes, byte) /\ ReadAs(byte, c)
        /\ is_double_channel' = ("second" \in c.disabled)
        /\ config' = Cleared(c)
  BY Zenon DEF Configure
<1>4. PICK c \in Configurations :
        /\ ReadResponse(bytes, byte) /\ ReadAs(byte, c)
        /\ is_double_channel' = ("second" \in c.disabled)
        /\ config' = Cleared(c)
  BY <1>3
<1>5. "configuration" \in Causes
  BY DEF Causes
<1>6. output' = <<>> /\ last' \in Bytes /\ byte.cause = "configuration"
  BY <1>2, <1>4, <1>5, AskedQuietly
<1>7. c = config
  BY <1>4, <1>6 DEF ReadAs
<1>8. /\ config' \in Configurations /\ config'.irq = {} /\ config'.disabled = channels
      /\ is_double_channel' <=> "second" \in channels
  BY <1>2, <1>4, <1>7 DEF Cleared, Configurations
<1> QED
  BY <1>1, <1>6, <1>8, StartsQuiet DEF Early

(* The controller's test.                                                  *)
LEMMA SelfTestQuiet ==
  ASSUME QuietRun, ~late', SelfTest
  PROVE  QuietRun'
<1>1. /\ pc = "self_test"
      /\ channels' = channels /\ ports' = ports /\ waiting' = waiting
      /\ toCheck' = toCheck /\ found' = found /\ s_keyboard' = s_keyboard
      /\ is_double_channel' = is_double_channel
      /\ config' = config \/ config' = [config EXCEPT !.translate = TRUE]
  BY DEF SelfTest, hardware, results
<1>2. output = <<>> /\ last \in Bytes /\ HardwareOK
  BY <1>1 DEF QuietRun, QuietType, AnswerInv, NothingSaid
<1>3. config.irq = {} /\ (is_double_channel <=> "second" \in channels)
  BY <1>1 DEF QuietRun, QuietCheck, QuietFound, Places, Early
<1>4. PICK answer \in {"passed", "failed"} :
        \E byte \in Readable(Asked(answer, "self_test")) :
          /\ ReadResponse(Asked(answer, "self_test"), byte)
          /\ pc' = IF byte.value = "passed" THEN "test_first" ELSE "panic"
  BY Zenon DEF SelfTest
<1>5. PICK byte : /\ ReadResponse(Asked(answer, "self_test"), byte)
                  /\ pc' = IF byte.value = "passed" THEN "test_first" ELSE "panic"
  BY <1>4
<1>6. "self_test" \in Causes
  BY DEF Causes
<1>7. output' = <<>> /\ last' \in Bytes /\ last' = byte /\ byte.value = answer
  BY <1>2, <1>5, <1>6, AskedQuietly
<1>8. config' \in Configurations /\ config'.irq = {}
  BY <1>1, <1>2, <1>3 DEF HardwareOK, Configurations
<1>9. pc' = "panic" => StopsForAReason'
  BY <1>5, <1>7 DEF StopsForAReason
<1>10. pc' \in {"test_first", "panic"}
  BY <1>5
<1>11. is_double_channel' <=> "second" \in channels
  BY <1>1, <1>3
<1> QED
  BY <1>1, <1>7, <1>8, <1>9, <1>10, <1>11, StartsQuiet DEF Early

(* A channel's test.                                                       *)
LEMMA TestedQuietly ==
  ASSUME QuietRun, ~late', pc \in {"test_first", "test_second"},
         NEW port \in Ports, TestChannel(port)
  PROVE  /\ channels' = channels /\ ports' = ports /\ waiting' = waiting /\ config' = config
         /\ found' = found /\ s_keyboard' = s_keyboard /\ output' = <<>> /\ last' \in Bytes
         /\ is_double_channel' = is_double_channel
         /\ toCheck' = IF Good(port) THEN Append(toCheck, port) ELSE toCheck
<1>1. /\ channels' = channels /\ ports' = ports /\ waiting' = waiting /\ config' = config
      /\ found' = found /\ s_keyboard' = s_keyboard
      /\ is_double_channel' = is_double_channel
  BY DEF TestChannel, hardware
<1>2. output = <<>> /\ last \in Bytes
  BY DEF QuietRun, QuietType, AnswerInv, NothingSaid
<1> DEFINE value == IF Good(port) THEN "00" ELSE "bad"
<1>3. PICK byte : /\ ReadResponse(Asked(value, "test_channel"), byte)
                  /\ toCheck' = IF byte.value = "00" THEN Append(toCheck, port) ELSE toCheck
  BY Zenon DEF TestChannel, Good
<1>4. value \in {"passed", "failed", "00", "bad", "configuration"} /\ "test_channel" \in Causes
  BY DEF Causes
<1>5. value = "00" <=> Good(port)
  OBVIOUS
<1> HIDE DEF value
<1>6. output' = <<>> /\ last' = byte /\ byte \in Bytes /\ byte.value = value
  BY <1>2, <1>3, <1>4, AskedQuietly
<1>7. toCheck' = IF Good(port) THEN Append(toCheck, port) ELSE toCheck
  BY <1>3, <1>5, <1>6
<1> QED
  BY <1>1, <1>6, <1>7

(* The devices behind the channels that passed are left to check.          *)
LEMMA LeftToCheck ==
  ASSUME QuietRun, pc \in {"test_first", "test_second"},
         channels' = channels, ports' = ports, waiting' = waiting, config' = config,
         found' = found, s_keyboard' = s_keyboard, output' = <<>>, last' \in Bytes,
         InTurn', pc' = CheckNext(toCheck'),
         toCheck' = <<>> => ~Good("first") /\ ~Good("second"),
         toCheck' = <<"second">> => ~Good("first")
  PROVE  QuietRun'
<1>1. \/ pc' = "reset" /\ toCheck' # <<>>
      \/ pc' = "enable_interrupt" /\ toCheck' = <<>>
  BY DEF CheckNext
<1>2. QuietType'
  BY <1>1 DEF QuietRun, QuietType, HardwareOK, Places, Checking
<1>3. AnswerInv'
  BY <1>1 DEF AnswerInv, NothingSaid
<1>4. QuietCheck'
  BY <1>1 DEF QuietCheck, Early, Checking, Calmly
<1>5. found = None /\ s_keyboard = None /\ config.irq = {}
  BY DEF QuietRun, QuietFound, Places, Early
<1>6. FoundSoFar' = None
  <2>1. CASE toCheck' = <<>>
    <3>1. ~Usable("first")' /\ ~Usable("second")'
      BY <2>1 DEF Good, Usable
    <3> QED
      BY <2>1, <3>1 DEF FoundSoFar, FirstFound
  <2>2. CASE toCheck' = <<"second">>
    <3>1. ~Usable("first")'
      BY <2>2 DEF Good, Usable
    <3>2. toCheck' # <<>>
      BY <2>2
    <3> QED
      BY <2>2, <3>1, <3>2 DEF FoundSoFar, FirstFound
  <2>3. CASE toCheck' # <<>> /\ toCheck' # <<"second">>
    BY <2>3 DEF FoundSoFar
  <2> QED
    BY <2>1, <2>2, <2>3
<1>7. QuietFound'
  BY <1>1, <1>5, <1>6 DEF QuietFound, Early, Checking, Calmly, Places
<1>8. StopsForAReason'
  BY <1>1 DEF StopsForAReason
<1> QED
  BY <1>2, <1>3, <1>4, <1>7, <1>8 DEF QuietRun

(* The first channel.                                                      *)
LEMMA TestFirstQuiet ==
  ASSUME QuietRun, ~late', TestFirst
  PROVE  QuietRun'
<1>1. /\ pc = "test_first" /\ TestChannel("first")
      /\ pc' = IF is_double_channel THEN "test_second" ELSE CheckNext(toCheck')
  BY DEF TestFirst
<1>2. /\ channels' = channels /\ ports' = ports /\ waiting' = waiting /\ config' = config
      /\ found' = found /\ s_keyboard' = s_keyboard /\ output' = <<>> /\ last' \in Bytes
      /\ toCheck' = IF Good("first") THEN Append(toCheck, "first") ELSE toCheck
  BY <1>1, TestedQuietly DEF Ports
<1>3. toCheck = <<>> /\ (is_double_channel <=> "second" \in channels)
  BY <1>1 DEF QuietRun, QuietCheck, Early
<1>4. toCheck' = IF Good("first") THEN <<"first">> ELSE <<>>
  BY <1>2, <1>3
<1>5. CASE is_double_channel
  <2>1. pc' = "test_second"
    BY <1>1, <1>5
  <2>2. QuietType'
    BY <1>2, <2>1 DEF QuietRun, QuietType, HardwareOK, Places
  <2>3. AnswerInv'
    BY <1>2, <2>1 DEF AnswerInv, NothingSaid
  <2>4. Good("first")' <=> Good("first")
    BY <1>2 DEF Good
  <2>5. QuietCheck'
    BY <1>2, <1>3, <1>4, <1>5, <2>1, <2>4 DEF QuietCheck, Early, Checking, Calmly
  <2>6. found = None /\ s_keyboard = None /\ config.irq = {}
    BY <1>1 DEF QuietRun, QuietFound, Places, Early
  <2>7. QuietFound'
    BY <1>2, <2>1, <2>6 DEF QuietFound, Early, Checking, Calmly, Places
  <2>8. StopsForAReason'
    BY <2>1 DEF StopsForAReason
  <2> QED
    BY <2>2, <2>3, <2>5, <2>7, <2>8 DEF QuietRun
<1>6. CASE ~is_double_channel
  <2>1. pc' = CheckNext(toCheck')
    BY <1>1, <1>6
  <2>2. ~Good("second")
    BY <1>3, <1>6 DEF Good
  <2>a. (Good("first")' <=> Good("first")) /\ (Good("second")' <=> Good("second"))
    BY <1>2 DEF Good
  <2>3. InTurn' /\ toCheck' # <<"second">>
    <3>1. CASE Good("first")
      <4>1. toCheck' = <<"first">>
        BY <1>4, <3>1
      <4>2. Good("first")' /\ ~Good("second")'
        BY <2>2, <2>a, <3>1
      <4> QED
        BY <4>1, <4>2 DEF InTurn
    <3>2. CASE ~Good("first")
      <4>1. toCheck' = <<>>
        BY <1>4, <3>2
      <4> QED
        BY <4>1 DEF InTurn
    <3> QED
      BY <3>1, <3>2
  <2>4. toCheck' = <<>> => ~Good("first")
    BY <1>4
  <2> QED
    BY <1>1, <1>2, <2>1, <2>2, <2>3, <2>4, LeftToCheck
<1> QED
  BY <1>5, <1>6

(* The second channel.                                                     *)
LEMMA TestSecondQuiet ==
  ASSUME QuietRun, ~late', TestSecond
  PROVE  QuietRun'
<1>1. pc = "test_second" /\ TestChannel("second") /\ pc' = CheckNext(toCheck')
  BY DEF TestSecond
<1>2. /\ channels' = channels /\ ports' = ports /\ waiting' = waiting /\ config' = config
      /\ found' = found /\ s_keyboard' = s_keyboard /\ output' = <<>> /\ last' \in Bytes
      /\ toCheck' = IF Good("second") THEN Append(toCheck, "second") ELSE toCheck
  BY <1>1, TestedQuietly DEF Ports
<1>3. toCheck = IF Good("first") THEN <<"first">> ELSE <<>>
  BY <1>1 DEF QuietRun, QuietCheck
<1>4. (Good("first")' <=> Good("first")) /\ (Good("second")' <=> Good("second"))
  BY <1>2 DEF Good
<1>5. /\ Good("first") /\ Good("second") => toCheck' = <<"first", "second">>
      /\ Good("first") /\ ~Good("second") => toCheck' = <<"first">>
      /\ ~Good("first") /\ Good("second") => toCheck' = <<"second">>
      /\ ~Good("first") /\ ~Good("second") => toCheck' = <<>>
  <2>1. Append(<<"first">>, "second") = <<"first", "second">> /\ Append(<<>>, "second") = <<"second">>
    BY Appended
  <2>2. CASE Good("first") /\ Good("second")
    <3>1. toCheck = <<"first">> /\ toCheck' = Append(toCheck, "second")
      BY <1>2, <1>3, <2>2
    <3> QED
      BY <2>1, <2>2, <3>1
  <2>3. CASE Good("first") /\ ~Good("second")
    BY <1>2, <1>3, <2>3
  <2>4. CASE ~Good("first") /\ Good("second")
    <3>1. toCheck = <<>> /\ toCheck' = Append(toCheck, "second")
      BY <1>2, <1>3, <2>4
    <3> QED
      BY <2>1, <2>4, <3>1
  <2>5. CASE ~Good("first") /\ ~Good("second")
    BY <1>2, <1>3, <2>5
  <2> QED
    BY <2>2, <2>3, <2>4, <2>5
<1>6. InTurn'
  BY <1>4, <1>5 DEF InTurn
<1>7. toCheck' = <<>> => ~Good("first") /\ ~Good("second")
  BY <1>5
<1>8. toCheck' = <<"second">> => ~Good("first")
  BY <1>5
<1> QED
  BY <1>1, <1>2, <1>6, <1>7, <1>8, LeftToCheck

(* The end of the check of a device in a quiet run: its keyboard, if it is *)
(* one, is what is found.                                                  *)
LEMMA CheckedQuietly ==
  ASSUME KnownKinds, QuietRun, pc \in {"disable_scanning", "identify", "first_byte", "second_byte"},
         NEW type, Checked(type),
         type \in {"keyboard", "translated"} <=> Usable(dev),
         Usable(dev) => type = KeyboardAt(dev).type /\ dev \notin scanning',
         channels' = channels, ports' = ports, config' = config, scanning' \subseteq scanning,
         waiting' = waiting, output' = <<>>, last' \in Bytes
  PROVE  QuietRun'
<1>1. /\ found' = Found(type) /\ toCheck' = Tail(toCheck) /\ pc' = CheckNext(toCheck')
      /\ s_keyboard' = s_keyboard
  BY DEF Checked
<1>2. \/ pc' = "reset" /\ toCheck' # <<>>
      \/ pc' = "enable_interrupt" /\ toCheck' = <<>>
  BY <1>1 DEF CheckNext
<1>3. pc \in Checking
  BY DEF Checking, Calmly
<1>4. /\ dev \in channels /\ Good(dev)
      /\ \/ toCheck' = <<>> /\ (dev = "first" => ~Good("second"))
         \/ toCheck' = <<"second">> /\ dev = "first" /\ Good("second")
      /\ dev = "first" => FoundSoFar = None
      /\ dev = "second" => FoundSoFar = FirstFound
      /\ dev \in Ports
  BY <1>1, <1>3, QuietDev, Zenon
<1>5. QuietType'
  BY <1>2 DEF QuietRun, QuietType, HardwareOK, Places, Checking
<1>6. AnswerInv'
  BY <1>2 DEF AnswerInv, NothingSaid
<1>7. Good("second")' <=> Good("second")
  BY DEF Good
<1>8. InTurn'
  BY <1>4, <1>7 DEF InTurn
<1>9. QuietCheck'
  BY <1>2, <1>8 DEF QuietCheck, Early, Checking, Calmly
<1>10. /\ found = FoundSoFar /\ config.irq = {} /\ s_keyboard = None
       /\ found # None => found.port \notin scanning
  BY <1>3 DEF QuietRun, QuietFound, Places, Checking, Calmly
<1>11. found' = IF Usable(dev) THEN KeyboardAt(dev) ELSE found
  BY <1>1 DEF Found, KeyboardAt
<1>12. \A p \in Ports : (Usable(p)' <=> Usable(p)) /\ KeyboardAt(p)' = KeyboardAt(p)
  BY DEF Usable, KeyboardAt
<1>13. FirstFound' = FirstFound
  BY <1>12 DEF FirstFound, Ports
<1>14. found' = FoundSoFar'
  <2>1. CASE dev = "first"
    <3>1. found' = FirstFound
      BY <1>4, <1>10, <1>11, <2>1 DEF FirstFound
    <3>2. CASE toCheck' = <<>>
      <4>1. ~Usable("second")'
        BY <1>4, <1>12, <2>1, <3>2, Appended DEF Good, Usable, Ports
      <4> QED
        BY <1>13, <3>1, <3>2, <4>1 DEF FoundSoFar
    <3>3. CASE toCheck' = <<"second">>
      <4>1. toCheck' # <<>>
        BY <3>3
      <4> QED
        BY <1>13, <3>1, <3>3, <4>1 DEF FoundSoFar
    <3> QED
      BY <1>4, <3>2, <3>3
  <2>2. CASE dev = "second"
    <3>1. toCheck' = <<>>
      BY <1>4, <2>2
    <3>2. found' = IF Usable("second") THEN KeyboardAt("second") ELSE FirstFound
      BY <1>4, <1>10, <1>11, <2>2
    <3>3. /\ Usable("second")' <=> Usable("second")
          /\ KeyboardAt("second")' = KeyboardAt("second")
      BY <1>12 DEF Ports
    <3> QED
      BY <1>13, <3>1, <3>2, <3>3 DEF FoundSoFar
  <2> QED
    BY <1>4, <2>1, <2>2 DEF Ports
<1>15. found' # None => found'.port \notin scanning'
  BY <1>10, <1>11 DEF KeyboardAt
<1>16. QuietFound'
  BY <1>1, <1>2, <1>10, <1>14, <1>15 DEF QuietFound, Early, Checking, Calmly, Places
<1>17. StopsForAReason'
  BY <1>2 DEF StopsForAReason
<1> QED
  BY <1>5, <1>6, <1>9, <1>16, <1>17 DEF QuietRun

(* The kernel stops because of the device that is checked.                 *)
LEMMA StopsQuietly ==
  ASSUME KnownKinds, QuietRun, pc \in Checking, pc' = "panic",
         ~Kind(dev).there \/ "reset" \in Kind(dev).refuses,
         channels' = channels, ports' = ports
  PROVE  StopsForAReason'
<1>1. dev \in channels /\ Good(dev)
  BY QuietDev
<1> QED
  BY <1>1 DEF StopsForAReason, Good, Kind

(* The device is reset.                                                    *)
LEMMA ResetQuiet ==
  ASSUME KnownKinds, QuietRun, ~late', Reset
  PROVE  QuietRun'
<1>1. /\ pc = "reset" /\ channels' = channels /\ ports' = ports
      /\ toCheck' = toCheck /\ found' = found /\ s_keyboard' = s_keyboard
      /\ config' = [config EXCEPT !.disabled = @ \ {dev}]
      /\ waiting' = [waiting EXCEPT ![dev] = <<>>]
      /\ scanning' \subseteq scanning \cup {dev}
  BY DEF Reset, hardware, results
<1>2. pc \in Checking
  BY <1>1 DEF Checking
<1>3. /\ dev \in channels /\ dev \in Ports /\ Good(dev) /\ KnownKind(Kind(dev))
      /\ dev = "first" => FoundSoFar = None
      /\ dev = "second" => FoundSoFar = FirstFound
  BY <1>2, QuietDev
<1>4. output = <<>> /\ last \in Bytes /\ HardwareOK /\ waiting = [p \in Ports |-> <<>>]
  BY <1>1 DEF QuietRun, QuietType, AnswerInv, NothingSaid
<1> DEFINE v == Reply(dev, "reset")
           k == Kind(dev)
           a == Answer(v, dev, "reset")
           bytes == output \o waiting[dev] \o a
<1>5. PICK byte : ReadResponse(bytes, byte) /\ pc' = IF byte.value = "ack" THEN "reset_test" ELSE "panic"
  BY <1>1, Zenon DEF Reset
<1>6. /\ v \in Seq(Words)
      /\ ~k.there => v = <<>>
      /\ k.there /\ "reset" \in k.refuses => v = <<"resend">>
      /\ k.there /\ "reset" \notin k.refuses =>
           \/ v = <<"ack", "ok">>
           \/ v = <<"ack", "ok", k.extra[1]>> /\ k.extra[1] \notin {"ok", "AB"}
  BY <1>3, <1>4, ReplyToReset
<1>7. dev \in Senders /\ "reset" \in Causes
  BY <1>3 DEF Ports, Senders, Causes
<1> HIDE DEF v, k
<1>8. a \in Seq(Bytes)
  BY <1>6, <1>7, AnswerIs
<1>9. bytes = a
  <2>1. waiting[dev] = <<>>
    BY <1>3, <1>4
  <2>2. <<>> \o <<>> \o a = a
    <3> HIDE DEF a
    <3> QED
      BY <1>8
  <2> QED
    BY <1>4, <2>1, <2>2
<1> HIDE DEF a, bytes
<1>10. ReadResponse(a, byte)
  BY <1>5, <1>9
<1>11. /\ waiting' = waiting
       /\ config'.translate = config.translate /\ config'.irq = config.irq /\ config' \in Configurations
  BY <1>1, <1>3, <1>4 DEF HardwareOK, Configurations
<1>12. found # None => found.port \notin scanning'
  <2>1. found = FoundSoFar /\ (found # None => found.port \notin scanning)
    BY <1>2 DEF QuietRun, QuietFound
  <2>2. dev = "second" /\ found # None => found.port = "first"
    BY <1>3, <2>1 DEF FirstFound, KeyboardAt
  <2> QED
    BY <1>1, <1>3, <2>1, <2>2 DEF Ports
<1>13. CASE ~k.there
  <2>1. v = <<>>
    BY <1>6, <1>13
  <2>2. last' = last /\ byte = last /\ output' = <<>> /\ last' \in Bytes
    BY <1>4, <1>6, <1>7, <1>10, <2>1, UnansweredQuietly DEF a
  <2>3. output' \in Seq(Bytes)
    BY <2>2
  <2>4. pc' \in {"reset_test", "panic"}
    BY <1>5
  <2>5. QuietType' /\ QuietCheck' /\ QuietFound' /\ Kind(dev)' = Kind(dev)
    BY <1>1, <1>2, <1>11, <1>12, <2>2, <2>3, <2>4, QuietPlace DEF Checking
  <2>6. AnswerInv'
    BY <1>5, <1>13, <2>2, <2>4, <2>5 DEF AnswerInv, NothingSaid, k
  <2>7. StopsForAReason'
    BY <1>1, <1>2, <1>13, <2>4, StopsQuietly DEF k, StopsForAReason
  <2> QED
    BY <2>5, <2>6, <2>7 DEF QuietRun
<1>14. CASE k.there /\ "reset" \in k.refuses
  <2>1. v = <<"resend">>
    BY <1>6, <1>14
  <2>2. last' = byte /\ byte.value = "resend" /\ output' = <<>> /\ last' \in Bytes
    BY <1>4, <1>6, <1>7, <1>10, <2>1, WordQuietly DEF a
  <2>3. output' \in Seq(Bytes)
    BY <2>2
  <2>4. pc' = "panic"
    BY <1>5, <2>2
  <2>5. QuietType' /\ QuietCheck' /\ QuietFound' /\ Kind(dev)' = Kind(dev)
    BY <1>1, <1>2, <1>11, <1>12, <2>2, <2>3, <2>4, QuietPlace
  <2>6. AnswerInv'
    BY <2>4 DEF AnswerInv
  <2>7. StopsForAReason'
    BY <1>1, <1>2, <1>14, <2>4, StopsQuietly DEF k
  <2> QED
    BY <2>5, <2>6, <2>7 DEF QuietRun
<1>15. CASE k.there /\ "reset" \notin k.refuses
  <2>1. v # <<>> /\ v[1] = "ack" /\ v[2] = "ok" /\ Len(v) \in 2..3
    <3>1. CASE v = <<"ack", "ok">>
      BY <3>1
    <3>2. CASE v = <<"ack", "ok", k.extra[1]>>
      BY <3>2
    <3> QED
      BY <1>6, <1>15, <3>1, <3>2
  <2>2. /\ last' = byte /\ byte.value = v[1] /\ output' \in Seq(Bytes) /\ last' \in Bytes
        /\ Len(output') = Len(v) - 1
        /\ \A i \in 1..Len(output') : output'[i].value = v[i + 1]
    BY <1>4, <1>6, <1>7, <1>10, <2>1, AnsweredQuietly DEF a
  <2>3. pc' = "reset_test"
    BY <1>5, <2>1, <2>2
  <2>4. Len(output') <= 2 /\ 1 \in 1..Len(output')
    BY <2>1, <2>2
  <2>5. output'[1].value = "ok" /\ output' # <<>>
    BY <2>1, <2>2, <2>4
  <2>6. QuietType' /\ QuietCheck' /\ QuietFound' /\ Kind(dev)' = Kind(dev)
    BY <1>1, <1>2, <1>11, <1>12, <2>2, <2>3, QuietPlace DEF Checking
  <2>7. Obeys'
    BY <1>15, <2>6 DEF Obeys, Refuses, k
  <2>8. AnswerInv'
    BY <2>3, <2>4, <2>5, <2>7 DEF AnswerInv
  <2>9. StopsForAReason'
    BY <2>3 DEF StopsForAReason
  <2> QED
    BY <2>6, <2>8, <2>9 DEF QuietRun
<1> QED
  BY <1>3, <1>13, <1>14, <1>15 DEF KnownKind, k

(* The end of the reset.                                                   *)
LEMMA ResetTestQuiet ==
  ASSUME KnownKinds, QuietRun, ~late', ResetTest
  PROVE  QuietRun'
<1>1. /\ pc = "reset_test" /\ channels' = channels /\ ports' = ports /\ config' = config
      /\ toCheck' = toCheck /\ found' = found /\ s_keyboard' = s_keyboard
      /\ waiting' = waiting /\ scanning' = scanning
  BY DEF ResetTest, hardware, results
<1>2. pc \in Checking /\ output \in Seq(Bytes) /\ last \in Bytes /\ config \in Configurations
      /\ (found # None => found.port \notin scanning)
  BY <1>1 DEF Checking, QuietRun, QuietType, QuietFound, HardwareOK
<1>3. PICK byte : ReadResponse(output, byte) /\ pc' = IF byte.value = "ok" THEN "extra_read" ELSE "panic"
  BY DEF ResetTest
<1>4. \/ Obeys /\ output # <<>> /\ output[1].value = "ok" /\ Len(output) <= 2
      \/ ~Kind(dev).there /\ output = <<>> /\ last.value = "ack"
  BY <1>1 DEF QuietRun, AnswerInv, NothingSaid
<1>5. pc' \in Checking \cup {"panic"} /\ pc' \notin {"identify", "first_byte", "second_byte"}
  BY <1>3 DEF Checking, Calmly
<1>6. CASE Obeys /\ output # <<>> /\ output[1].value = "ok" /\ Len(output) <= 2
  <2> DEFINE bytes == output
  <2>1. bytes \in Seq(Bytes) /\ bytes # <<>> /\ ReadResponse(bytes, byte)
    BY <1>2, <1>3, <1>6
  <2> HIDE DEF bytes
  <2>2. last' = byte /\ byte = bytes[1] /\ output' = Tail(bytes) /\ output' \in Seq(Bytes)
        /\ last' \in Bytes
    BY <1>2, <2>1, QuietReads
  <2>3. Len(Tail(bytes)) = Len(bytes) - 1 /\ Len(bytes) \in Nat
    BY <2>1, TailIs
  <2>4. Len(output') <= 1
    BY <1>6, <2>2, <2>3 DEF bytes
  <2>5. pc' = "extra_read"
    BY <1>3, <1>6, <2>2 DEF bytes
  <2>6. QuietType' /\ QuietCheck' /\ QuietFound' /\ Kind(dev)' = Kind(dev)
    BY <1>1, <1>2, <1>5, <2>2, QuietPlace
  <2>7. Obeys'
    BY <1>6, <2>6 DEF Obeys, Refuses
  <2>8. AnswerInv'
    BY <2>4, <2>5, <2>7 DEF AnswerInv
  <2>9. StopsForAReason'
    BY <2>5 DEF StopsForAReason
  <2> QED
    BY <2>6, <2>8, <2>9 DEF QuietRun
<1>7. CASE ~Kind(dev).there /\ output = <<>> /\ last.value = "ack"
  <2>1. last' = last /\ byte = last /\ output' = <<>> /\ last' \in Bytes
    BY <1>2, <1>3, <1>7, SilentRead
  <2>2. pc' = "panic" /\ output' \in Seq(Bytes)
    BY <1>3, <1>7, <2>1
  <2>3. QuietType' /\ QuietCheck' /\ QuietFound' /\ Kind(dev)' = Kind(dev)
    BY <1>1, <1>2, <1>5, <2>1, <2>2, QuietPlace
  <2>4. AnswerInv'
    BY <2>2 DEF AnswerInv
  <2>5. StopsForAReason'
    BY <1>1, <1>2, <1>7, <2>2, StopsQuietly
  <2> QED
    BY <2>3, <2>4, <2>5 DEF QuietRun
<1> QED
  BY <1>4, <1>6, <1>7

(* The read that takes what is left.                                       *)
LEMMA ExtraReadQuiet ==
  ASSUME KnownKinds, QuietRun, ~late', ExtraRead
  PROVE  QuietRun'
<1>1. /\ pc = "extra_read" /\ pc' = "disable_scanning"
      /\ channels' = channels /\ ports' = ports /\ config' = config
      /\ toCheck' = toCheck /\ found' = found /\ s_keyboard' = s_keyboard
      /\ waiting' = waiting /\ scanning' = scanning
  BY DEF ExtraRead, hardware, results
<1>2. pc \in Checking /\ output \in Seq(Bytes) /\ last \in Bytes /\ config \in Configurations
      /\ (found # None => found.port \notin scanning)
  BY <1>1 DEF Checking, Calmly, QuietRun, QuietType, QuietFound, HardwareOK
<1>3. PICK byte : ReadResponse(output, byte)
  BY DEF ExtraRead
<1>4. Obeys /\ Len(output) <= 1
  BY <1>1 DEF QuietRun, AnswerInv
<1>5. output' = <<>> /\ last' \in Bytes
  <2>1. CASE output = <<>>
    BY <1>2, <1>3, <2>1, SilentRead
  <2>2. CASE output # <<>>
    <3> DEFINE bytes == output
    <3>1. bytes \in Seq(Bytes) /\ bytes # <<>> /\ ReadResponse(bytes, byte) /\ Len(bytes) <= 1
      BY <1>2, <1>3, <1>4, <2>2
    <3> HIDE DEF bytes
    <3>2. output' = Tail(bytes) /\ last' \in Bytes
      BY <1>2, <3>1, QuietReads
    <3> DEFINE n == Len(bytes)
    <3>3. n \in Nat /\ n >= 1 /\ n <= 1
      BY <3>1, TailIs
    <3> HIDE DEF n
    <3>4. n = 1
      BY <3>3
    <3> QED
      BY <3>1, <3>2, <3>4, OneRead DEF n
  <2> QED
    BY <2>1, <2>2
<1>6. output' \in Seq(Bytes)
  BY <1>5
<1>7. QuietType' /\ QuietCheck' /\ QuietFound' /\ Kind(dev)' = Kind(dev)
  BY <1>1, <1>2, <1>5, <1>6, QuietPlace DEF Checking, Calmly
<1>8. Obeys'
  BY <1>4, <1>7 DEF Obeys, Refuses
<1>9. AnswerInv'
  BY <1>1, <1>5, <1>8 DEF AnswerInv, NothingSaid
<1>10. StopsForAReason'
  BY <1>1 DEF StopsForAReason
<1> QED
  BY <1>7, <1>9, <1>10 DEF QuietRun

(* What is read in answer to a command, when nothing else waits.           *)
LEMMA CommandQuietly ==
  ASSUME output = <<>>, NEW a \in Seq(Bytes)
  PROVE  output \o a = a
OBVIOUS

(* The device's keys are switched off.                                     *)
LEMMA DisableScanningQuiet ==
  ASSUME KnownKinds, QuietRun, ~late', DisableScanning
  PROVE  QuietRun'
<1>1. /\ pc = "disable_scanning" /\ channels' = channels /\ ports' = ports /\ config' = config
      /\ waiting' = waiting
      /\ scanning' = IF "disable_scanning" \in Kind(dev).refuses THEN scanning ELSE scanning \ {dev}
  BY DEF DisableScanning, hardware, Kind
<1>2. pc \in Checking /\ output = <<>> /\ last \in Bytes /\ config \in Configurations /\ HardwareOK
      /\ (found # None => found.port \notin scanning) /\ Obeys
  BY <1>1 DEF Checking, Calmly, QuietRun, QuietType, QuietFound, HardwareOK, AnswerInv, NothingSaid
<1>3. dev \in channels /\ dev \in Ports /\ KnownKind(Kind(dev))
  BY <1>2, QuietDev
<1> DEFINE v == Reply(dev, "disable_scanning")
           a == Answer(v, dev, "disable_scanning")
           k == Kind(dev)
<1>4. PICK byte :
        /\ ReadResponse(output \o a, byte)
        /\ IF byte.value = "ack" THEN pc' = "identify" /\ UNCHANGED results ELSE Checked("none")
  BY Zenon DEF DisableScanning, DetectCommand, Written
<1>5. /\ v \in Seq(Words)
      /\ k.there /\ "disable_scanning" \in k.refuses => v = <<"resend">>
      /\ k.there /\ "disable_scanning" \notin k.refuses => v = <<"ack">>
  BY <1>2, <1>3, ReplyToScanning
<1>6. dev \in Senders /\ "disable_scanning" \in Causes
  BY <1>3 DEF Ports, Senders, Causes
<1>7. k.there
  BY <1>2 DEF Obeys
<1> HIDE DEF v
<1>8. a \in Seq(Bytes)
  BY <1>5, <1>6, AnswerIs
<1> HIDE DEF a
<1>9. ReadResponse(a, byte)
  BY <1>2, <1>4, <1>8, CommandQuietly
<1>10. CASE "disable_scanning" \in k.refuses
  <2>1. v = <<"resend">>
    BY <1>5, <1>7, <1>10
  <2>2. byte.value = "resend" /\ output' = <<>> /\ last' \in Bytes
    BY <1>2, <1>5, <1>6, <1>9, <2>1, WordQuietly DEF a
  <2>3. Checked("none") /\ scanning' = scanning
    BY <1>1, <1>4, <1>10, <2>2
  <2>4. ~Usable(dev)
    BY <1>10 DEF Usable, Kind
  <2> DEFINE type == "none"
  <2>5. /\ Checked(type) /\ (type \in {"keyboard", "translated"} <=> Usable(dev))
        /\ Usable(dev) => type = KeyboardAt(dev).type /\ dev \notin scanning'
    BY <2>3, <2>4
  <2> HIDE DEF type
  <2> QED
    BY <1>1, <2>2, <2>3, <2>5, CheckedQuietly
<1>11. CASE "disable_scanning" \notin k.refuses
  <2>1. v = <<"ack">>
    BY <1>5, <1>7, <1>11
  <2>2. byte.value = "ack" /\ output' = <<>> /\ last' \in Bytes
    BY <1>2, <1>5, <1>6, <1>9, <2>1, WordQuietly DEF a
  <2>3. pc' = "identify" /\ toCheck' = toCheck /\ found' = found /\ s_keyboard' = s_keyboard
    BY <1>4, <2>2 DEF results
  <2>4. dev \notin scanning' /\ (found # None => found.port \notin scanning')
    BY <1>1, <1>2, <1>11
  <2>5. output' \in Seq(Bytes)
    BY <2>2
  <2>6. QuietType' /\ QuietCheck' /\ QuietFound' /\ Kind(dev)' = Kind(dev)
    BY <1>1, <1>2, <2>2, <2>3, <2>4, <2>5, QuietPlace DEF Checking, Calmly
  <2>7. Obeys' /\ ~Refuses("disable_scanning")'
    BY <1>2, <1>11, <2>6 DEF Obeys, Refuses
  <2>8. AnswerInv'
    BY <2>2, <2>3, <2>7 DEF AnswerInv, NothingSaid
  <2>9. StopsForAReason'
    BY <2>3 DEF StopsForAReason
  <2> QED
    BY <2>6, <2>8, <2>9 DEF QuietRun
<1> QED
  BY <1>10, <1>11

(* The device is asked to identify itself.                                 *)
LEMMA IdentifyQuiet ==
  ASSUME KnownKinds, QuietRun, ~late', Identify
  PROVE  QuietRun'
<1>1. /\ pc = "identify" /\ channels' = channels /\ ports' = ports /\ config' = config
      /\ waiting' = waiting /\ scanning' = scanning
  BY DEF Identify, hardware
<1>2. pc \in Checking /\ output = <<>> /\ last \in Bytes /\ config \in Configurations /\ HardwareOK
      /\ (found # None => found.port \notin scanning) /\ Obeys /\ ~Refuses("disable_scanning")
      /\ dev \notin scanning
  BY <1>1 DEF Checking, Calmly, QuietRun, QuietType, QuietFound, HardwareOK, AnswerInv, NothingSaid
<1>3. dev \in channels /\ dev \in Ports /\ KnownKind(Kind(dev))
  BY <1>2, QuietDev
<1> DEFINE v == Reply(dev, "identify")
           a == Answer(v, dev, "identify")
           k == Kind(dev)
<1>4. PICK byte :
        /\ ReadResponse(output \o a, byte)
        /\ IF byte.value = "ack" THEN pc' = "first_byte" /\ UNCHANGED results ELSE Checked("none")
  BY Zenon DEF Identify, DetectCommand, Written
<1>5. /\ v \in Seq(Words)
      /\ k.there /\ "identify" \in k.refuses => v = <<"resend">>
      /\ k.there /\ "identify" \notin k.refuses => v = <<"ack">> \o Shown(k)
  BY <1>2, <1>3, ReplyToIdentify
<1>6. dev \in Senders /\ "identify" \in Causes
  BY <1>3 DEF Ports, Senders, Causes
<1>7. k.there
  BY <1>2 DEF Obeys
<1> HIDE DEF v
<1>8. a \in Seq(Bytes)
  BY <1>5, <1>6, AnswerIs
<1> HIDE DEF a
<1>9. ReadResponse(a, byte)
  BY <1>2, <1>4, <1>8, CommandQuietly
<1>10. CASE "identify" \in k.refuses
  <2>1. v = <<"resend">>
    BY <1>5, <1>7, <1>10
  <2>2. byte.value = "resend" /\ output' = <<>> /\ last' \in Bytes
    BY <1>2, <1>5, <1>6, <1>9, <2>1, WordQuietly DEF a
  <2>3. Checked("none")
    BY <1>4, <2>2
  <2>4. ~Usable(dev)
    BY <1>10 DEF Usable, Kind
  <2> DEFINE type == "none"
  <2>5. /\ Checked(type) /\ (type \in {"keyboard", "translated"} <=> Usable(dev))
        /\ Usable(dev) => type = KeyboardAt(dev).type /\ dev \notin scanning'
    BY <2>3, <2>4
  <2> HIDE DEF type
  <2> QED
    BY <1>1, <2>2, <2>5, CheckedQuietly
<1>11. CASE "identify" \notin k.refuses
  <2>1. v = <<"ack">> \o Shown(k)
    BY <1>5, <1>7, <1>11
  <2>2. k.refuses = {}
    <3>1. k.refuses \subseteq {"reset", "disable_scanning", "identify"}
      BY <1>3 DEF KnownKind
    <3>2. "reset" \notin k.refuses /\ "disable_scanning" \notin k.refuses
      BY <1>2 DEF Obeys, Refuses
    <3> QED
      BY <1>11, <3>1, <3>2
  <2>3. \/ k.ident = <<>> /\ v = <<"ack">>
        \/ k.ident = <<k.ident[1]>> /\ k.ident[1] # "AB" /\ v = <<"ack", k.ident[1]>>
        \/ k.ident = <<"AB", k.ident[2]>> /\ v = <<"ack", "AB", Second>>
    <3>1. CASE k.ident = <<>>
      <4>1. Shown(k) = <<>>
        BY <3>1 DEF Shown
      <4> QED
        BY <2>1, <3>1, <4>1, Tuples
    <3>2. CASE k.ident = <<k.ident[1]>> /\ k.ident[1] # "AB"
      <4>1. Shown(k) = <<k.ident[1]>>
        BY <3>2 DEF Shown
      <4>2. v = <<"ack", k.ident[1]>>
        BY <2>1, <4>1, Tuples, Zenon
      <4> QED
        BY <3>2, <4>2
    <3>3. CASE k.ident = <<"AB", k.ident[2]>>
      <4>1. k.ident = <<"AB", "83">> <=> k.ident[2] = "83"
        BY <3>3
      <4>2. Shown(k) = <<"AB", Second>>
        BY <3>3, <4>1 DEF Shown, Second
      <4>3. v = <<"ack", "AB", Second>>
        BY <2>1, <4>2, Tuples, ZenonT(60)
      <4> QED
        BY <3>3, <4>3
    <3> QED
      BY <1>3, <3>1, <3>2, <3>3 DEF KnownKind
  <2>4. v # <<>> /\ v[1] = "ack"
    BY <2>3
  <2>5. /\ last' = byte /\ byte.value = v[1] /\ output' \in Seq(Bytes) /\ last' \in Bytes
        /\ Len(output') = Len(v) - 1
        /\ \A i \in 1..Len(output') : output'[i].value = v[i + 1]
    BY <1>2, <1>5, <1>6, <1>9, <2>4, AnsweredQuietly DEF a
  <2>6. pc' = "first_byte" /\ toCheck' = toCheck /\ found' = found /\ s_keyboard' = s_keyboard
    BY <1>4, <2>4, <2>5 DEF results
  <2>7. QuietType' /\ QuietCheck' /\ QuietFound' /\ Kind(dev)' = Kind(dev)
    BY <1>1, <1>2, <2>5, <2>6, QuietPlace DEF Checking
  <2>8. Second' = Second
    BY <1>1, <2>7 DEF Second
  <2>9. \/ k.ident = <<>> /\ output' = <<>> /\ last'.value = "ack"
        \/ /\ k.ident = <<k.ident[1]>> /\ k.ident[1] # "AB"
           /\ Len(output') = 1 /\ output'[1].value = k.ident[1]
        \/ /\ k.ident = <<"AB", k.ident[2]>>
           /\ Len(output') = 2 /\ output'[1].value = "AB" /\ output'[2].value = Second
    <3>1. CASE k.ident = <<>> /\ v = <<"ack">>
      <4>1. Len(output') = 0
        BY <2>5, <3>1
      <4>2. output' = <<>>
        BY <2>5, <4>1, NoneWaits
      <4> QED
        BY <2>4, <2>5, <3>1, <4>2
    <3>2. CASE k.ident = <<k.ident[1]>> /\ k.ident[1] # "AB" /\ v = <<"ack", k.ident[1]>>
      <4>1. Len(v) = 2 /\ v[2] = k.ident[1]
        BY <3>2
      <4>2. Len(output') = 1 /\ output'[1].value = v[2]
        BY <2>5, <4>1
      <4> QED
        BY <3>2, <4>1, <4>2
    <3>3. CASE k.ident = <<"AB", k.ident[2]>> /\ v = <<"ack", "AB", Second>>
      <4>1. Len(v) = 3 /\ v[2] = "AB" /\ v[3] = Second
        BY <3>3
      <4>2. Len(output') = 2 /\ output'[1].value = v[2] /\ output'[2].value = v[3]
        BY <2>5, <4>1
      <4> QED
        BY <3>3, <4>1, <4>2
    <3> QED
      BY <2>3, <3>1, <3>2, <3>3
  <2> HIDE DEF k
  <2>10. AnswerInv'
    <3>1. Kind(dev)' = k
      BY <2>7 DEF k
    <3>2. pc' = "first_byte"
      BY <2>6
    <3> HIDE DEF k
    <3> QED
      BY <1>7, <2>2, <2>8, <2>9, <3>1, <3>2 DEF AnswerInv, NothingSaid, Only
  <2>11. StopsForAReason'
    BY <2>6 DEF StopsForAReason
  <2> QED
    BY <2>7, <2>10, <2>11 DEF QuietRun
<1> QED
  BY <1>10, <1>11

(* The first byte of an identification.                                    *)
LEMMA FirstByteQuiet ==
  ASSUME KnownKinds, QuietRun, ~late', FirstByte
  PROVE  QuietRun'
<1>1. /\ pc = "first_byte" /\ channels' = channels /\ ports' = ports /\ config' = config
      /\ waiting' = waiting /\ scanning' = scanning
  BY DEF FirstByte, hardware
<1>2. pc \in Checking /\ output \in Seq(Bytes) /\ last \in Bytes /\ config \in Configurations
      /\ (found # None => found.port \notin scanning) /\ dev \notin scanning
  BY <1>1 DEF Checking, QuietRun, QuietType, QuietFound, HardwareOK
<1> DEFINE k == Kind(dev)
<1>3. PICK byte :
        /\ ReadResponse(output, byte)
        /\ IF byte.value = "AB" THEN pc' = "second_byte" /\ UNCHANGED results
           ELSE Checked(IF byte.value \in {"00", "03", "04"} THEN "mouse" ELSE "none")
  BY DEF FirstByte
<1>4. k.there /\ k.refuses = {}
      /\ \/ k.ident = <<>> /\ output = <<>> /\ last.value = "ack"
         \/ /\ k.ident = <<k.ident[1]>> /\ k.ident[1] # "AB"
            /\ Len(output) = 1 /\ output[1].value = k.ident[1]
         \/ /\ k.ident = <<"AB", k.ident[2]>>
            /\ Len(output) = 2 /\ output[1].value = "AB" /\ output[2].value = Second
  BY <1>1 DEF QuietRun, AnswerInv, NothingSaid, Only
<1>5. CASE k.ident = <<>> /\ output = <<>> /\ last.value = "ack"
  <2>1. byte = last /\ output' = <<>> /\ last' \in Bytes
    BY <1>2, <1>3, <1>5, SilentRead
  <2>2. ~Usable(dev)
    <3>1. Kind(dev).ident # <<"AB", "83">>
      BY <1>5
    <3> QED
      BY <3>1 DEF Usable, Kind
  <2> DEFINE type == IF byte.value \in {"00", "03", "04"} THEN "mouse" ELSE "none"
  <2>3. /\ Checked(type) /\ type \notin {"keyboard", "translated"}
    BY <1>3, <1>5, <2>1
  <2> HIDE DEF type
  <2> QED
    BY <1>1, <2>1, <2>2, <2>3, CheckedQuietly
<1>6. CASE /\ k.ident = <<k.ident[1]>> /\ k.ident[1] # "AB"
           /\ Len(output) = 1 /\ output[1].value = k.ident[1]
  <2> DEFINE bytes == output
  <2>1. bytes \in Seq(Bytes) /\ Len(bytes) = 1 /\ ReadResponse(bytes, byte) /\ bytes[1].value # "AB"
    BY <1>2, <1>3, <1>6
  <2> HIDE DEF bytes
  <2>2. bytes # <<>> /\ Tail(bytes) = <<>>
    BY <2>1, OneRead
  <2>3. byte = bytes[1] /\ output' = <<>> /\ last' \in Bytes
    BY <1>2, <2>1, <2>2, QuietReads
  <2>4. ~Usable(dev)
    <3>1. Kind(dev).ident # <<"AB", "83">>
      BY <1>6
    <3> QED
      BY <3>1 DEF Usable, Kind
  <2>5. byte.value # "AB"
    BY <2>1, <2>3
  <2> DEFINE type == IF byte.value \in {"00", "03", "04"} THEN "mouse" ELSE "none"
  <2>6. /\ Checked(type) /\ type \notin {"keyboard", "translated"}
    BY <1>3, <2>5
  <2> HIDE DEF type
  <2> QED
    BY <1>1, <2>3, <2>4, <2>6, CheckedQuietly
<1>7. CASE /\ k.ident = <<"AB", k.ident[2]>>
           /\ Len(output) = 2 /\ output[1].value = "AB" /\ output[2].value = Second
  <2> DEFINE bytes == output
  <2>1. bytes \in Seq(Bytes) /\ Len(bytes) = 2 /\ ReadResponse(bytes, byte)
        /\ bytes[1].value = "AB" /\ bytes[2].value = Second
    BY <1>2, <1>3, <1>7
  <2> HIDE DEF bytes
  <2>2. Len(bytes) = 2
    BY <2>1
  <2>3. bytes # <<>>
    BY <2>2
  <2>4. byte = bytes[1] /\ output' = Tail(bytes) /\ output' \in Seq(Bytes) /\ last' \in Bytes
    BY <1>2, <2>1, <2>3, QuietReads
  <2>5. /\ Len(Tail(bytes)) = Len(bytes) - 1
        /\ \A i \in 1..Len(Tail(bytes)) : Tail(bytes)[i] = bytes[i + 1]
    BY <2>1, <2>3, TailIs
  <2>6. Len(output') = 1
    BY <2>2, <2>4, <2>5
  <2>7. output'[1] = bytes[2]
    BY <2>4, <2>5, <2>6
  <2>8. pc' = "second_byte" /\ toCheck' = toCheck /\ found' = found /\ s_keyboard' = s_keyboard
    BY <1>3, <2>1, <2>4 DEF results
  <2>9. QuietType' /\ QuietCheck' /\ QuietFound' /\ Kind(dev)' = Kind(dev)
    BY <1>1, <1>2, <2>4, <2>8, QuietPlace DEF Checking
  <2>10. Second' = Second
    BY <1>1, <2>9 DEF Second
  <2>11. output'[1].value = Second
    BY <2>1, <2>7
  <2>12. AnswerInv'
    <3>1. Kind(dev)' = k
      BY <2>9
    <3> HIDE DEF k
    <3> QED
      BY <1>4, <1>7, <2>6, <2>8, <2>10, <2>11, <3>1 DEF AnswerInv, Only
  <2>13. StopsForAReason'
    BY <2>8 DEF StopsForAReason
  <2> QED
    BY <2>9, <2>12, <2>13 DEF QuietRun
<1> HIDE DEF k
<1> QED
  BY <1>4, <1>5, <1>6, <1>7

(* The second byte: a keyboard's is a keyboard's.                          *)
LEMMA SecondByteQuiet ==
  ASSUME KnownKinds, QuietRun, ~late', SecondByte
  PROVE  QuietRun'
<1>1. /\ pc = "second_byte" /\ channels' = channels /\ ports' = ports /\ config' = config
      /\ waiting' = waiting /\ scanning' = scanning
  BY DEF SecondByte, hardware
<1>2. pc \in Checking /\ output \in Seq(Bytes) /\ last \in Bytes /\ dev \notin scanning
  BY <1>1 DEF Checking, QuietRun, QuietType, QuietFound
<1>3. dev \in channels /\ Good(dev) /\ KnownKind(Kind(dev))
  BY <1>2, QuietDev
<1> DEFINE k == Kind(dev)
           bytes == output
<1>4. PICK byte : ReadResponse(bytes, byte) /\ Checked(KeyboardType(byte.value))
  BY DEF SecondByte
<1>5. /\ k.refuses = {} /\ k.ident = <<"AB", k.ident[2]>>
      /\ bytes \in Seq(Bytes) /\ Len(bytes) = 1 /\ bytes[1].value = Second
  BY <1>1, <1>2 DEF QuietRun, AnswerInv, Only
<1> HIDE DEF bytes
<1>6. bytes # <<>> /\ Tail(bytes) = <<>>
  BY <1>5, OneRead
<1>7. byte = bytes[1] /\ output' = <<>> /\ last' \in Bytes
  BY <1>2, <1>4, <1>5, <1>6, QuietReads
<1>8. k.ident[2] \notin {"ok", "AB", "41", "C1"}
  <2>1. k.ident # <<>>
    BY <1>5
  <2>2. CASE k.ident = <<k.ident[1]>> /\ k.ident[1] \notin {"ok", "AB"}
    <3>1. k.ident[1] = "AB"
      BY <1>5
    <3> QED
      BY <2>2, <3>1
  <2> QED
    BY <1>3, <2>1, <2>2 DEF KnownKind
<1>9. Usable(dev) <=> k.ident[2] = "83"
  <2>1. k.ident = <<"AB", "83">> <=> k.ident[2] = "83"
    BY <1>5
  <2> QED
    BY <1>3, <1>5, <2>1 DEF Usable, Good, Kind
<1> DEFINE type == KeyboardType(Second)
<1>10. type = IF k.ident[2] # "83" THEN "none"
              ELSE IF config.translate THEN "translated" ELSE "keyboard"
  BY <1>8 DEF KeyboardType, Second
<1>11. Checked(type)
  BY <1>4, <1>5, <1>7
<1> HIDE DEF type, k
<1>12. /\ type \in {"keyboard", "translated"} <=> Usable(dev)
       /\ Usable(dev) => type = KeyboardAt(dev).type
  BY <1>9, <1>10 DEF KeyboardAt
<1> QED
  BY <1>1, <1>2, <1>7, <1>11, <1>12, CheckedQuietly

(* The keyboard's driver is set up.                                        *)
LEMMA NoKeyboardQuiet ==
  ASSUME QuietRun, NoKeyboard
  PROVE  QuietRun'
<1>1. /\ pc = "enable_interrupt" /\ pc' = "done" /\ found = None
      /\ channels' = channels /\ ports' = ports /\ config' = config /\ waiting' = waiting
      /\ output' = output /\ last' = last
      /\ toCheck' = toCheck /\ found' = found /\ s_keyboard' = s_keyboard
  BY DEF NoKeyboard, hardware, results
<1>2. /\ toCheck = <<>> /\ found = FoundSoFar /\ s_keyboard = None /\ output = <<>>
  BY <1>1 DEF QuietRun, QuietCheck, QuietFound, AnswerInv, NothingSaid, Places
<1>3. QuietType'
  BY <1>1 DEF QuietRun, QuietType, HardwareOK, Places
<1>4. AnswerInv'
  BY <1>1, <1>2 DEF AnswerInv, NothingSaid
<1>5. QuietCheck'
  BY <1>1, <1>2 DEF QuietCheck, InTurn, Early, Checking, Calmly
<1>6. FoundSoFar' = FoundSoFar
  BY <1>1 DEF FoundSoFar, FirstFound, KeyboardAt, Usable
<1>7. QuietFound'
  BY <1>1, <1>2, <1>6 DEF QuietFound, Early, Checking, Calmly, Places, None
<1>8. StopsForAReason'
  BY <1>1 DEF StopsForAReason
<1> QED
  BY <1>3, <1>4, <1>5, <1>7, <1>8 DEF QuietRun

(* The interrupt of the keyboard's port is set in what was read as the        *)
(* configuration, which is the configuration as nothing else was said.        *)
LEMMA EnableInterruptQuiet ==
  ASSUME QuietRun, ~late', EnableInterrupt
  PROVE  QuietRun'
<1>1. /\ pc = "enable_interrupt" /\ pc' = "construct" /\ found # None
      /\ channels' = channels /\ ports' = ports /\ waiting' = waiting /\ scanning' = scanning
      /\ toCheck' = toCheck /\ found' = found /\ s_keyboard' = s_keyboard
  BY DEF EnableInterrupt, hardware, results
<1>2. /\ toCheck = <<>> /\ found = FoundSoFar /\ s_keyboard = None /\ output = <<>>
      /\ last \in Bytes /\ config \in Configurations /\ config.irq = {}
      /\ found.port \notin scanning
  BY <1>1 DEF QuietRun, QuietType, QuietCheck, QuietFound, AnswerInv, NothingSaid, Places, HardwareOK
<1> DEFINE bytes == Asked("configuration", "configuration")
<1>3. PICK byte : \E c \in Configurations :
        /\ ReadResponse(bytes, byte) /\ ReadAs(byte, c)
        /\ config' = [c EXCEPT !.irq = @ \cup {found.port}]
  BY Zenon DEF EnableInterrupt
<1>4. PICK c \in Configurations :
        /\ ReadResponse(bytes, byte) /\ ReadAs(byte, c)
        /\ config' = [c EXCEPT !.irq = @ \cup {found.port}]
  BY <1>3
<1>5. "configuration" \in Causes
  BY DEF Causes
<1>6. output' = <<>> /\ last' \in Bytes /\ byte.cause = "configuration"
  BY <1>2, <1>4, <1>5, AskedQuietly
<1>7. c = config
  BY <1>4, <1>6 DEF ReadAs
<1>8. found.port \in Ports
  BY <1>1, <1>2 DEF FoundSoFar, FirstFound, KeyboardAt, Ports
<1>9. /\ config' \in Configurations /\ config'.irq = {found.port}
      /\ config'.translate = config.translate
  BY <1>2, <1>4, <1>7, <1>8 DEF Configurations
<1>10. QuietType'
  BY <1>1, <1>6, <1>9 DEF QuietRun, QuietType, HardwareOK, Places
<1>11. AnswerInv'
  BY <1>1, <1>6 DEF AnswerInv, NothingSaid
<1>12. QuietCheck'
  BY <1>1, <1>2 DEF QuietCheck, InTurn, Early, Checking, Calmly
<1>13. FoundSoFar' = FoundSoFar
  BY <1>1, <1>9 DEF FoundSoFar, FirstFound, KeyboardAt, Usable
<1>14. QuietFound'
  BY <1>1, <1>2, <1>9, <1>13 DEF QuietFound, Early, Checking, Calmly, Places
<1>15. StopsForAReason'
  BY <1>1 DEF StopsForAReason
<1> QED
  BY <1>10, <1>11, <1>12, <1>14, <1>15 DEF QuietRun

(* The driver is made for the keyboard that was found.                        *)
LEMMA ConstructQuiet ==
  ASSUME QuietRun, Construct
  PROVE  QuietRun'
<1>1. /\ pc = "construct"
      /\ channels' = channels /\ ports' = ports /\ config' = config /\ waiting' = waiting
      /\ output' = output /\ last' = last /\ scanning' = scanning
      /\ toCheck' = toCheck /\ found' = found
      /\ \/ found.type = "keyboard" /\ s_keyboard' = found /\ pc' = "done"
         \/ found.type # "keyboard" /\ s_keyboard' = s_keyboard /\ pc' = "panic"
  BY DEF Construct, hardware
<1>2. /\ toCheck = <<>> /\ found = FoundSoFar /\ s_keyboard = None /\ output = <<>>
      /\ found # None /\ config.irq = {found.port} /\ found.port \notin scanning
  BY <1>1 DEF QuietRun, QuietCheck, QuietFound, AnswerInv, NothingSaid, Places
<1>3. QuietType'
  BY <1>1 DEF QuietRun, QuietType, HardwareOK, Places
<1>4. AnswerInv'
  BY <1>1, <1>2 DEF AnswerInv, NothingSaid
<1>5. QuietCheck'
  BY <1>1, <1>2 DEF QuietCheck, InTurn, Early, Checking, Calmly
<1>6. FoundSoFar' = FoundSoFar
  BY <1>1 DEF FoundSoFar, FirstFound, KeyboardAt, Usable
<1>7. QuietFound'
  BY <1>1, <1>2, <1>6 DEF QuietFound, Early, Checking, Calmly, Places
<1>8. StopsForAReason'
  <2>1. found.type # "keyboard" => config.translate
    BY <1>2 DEF FoundSoFar, FirstFound, KeyboardAt
  <2> QED
    BY <1>1, <2>1 DEF StopsForAReason
<1> QED
  BY <1>3, <1>4, <1>5, <1>7, <1>8 DEF QuietRun

-----------------------------------------------------------------------------
(* Every run, as long as it is quiet.                                      *)

QuietSoFar == keys \in Nat /\ QuietInv

(* An answer that came late stays late.                                    *)
LEMMA LateStays ==
  ASSUME init_ps2_controller, late
  PROVE  late'
<1>1. ASSUME NEW bytes, NEW byte, ReadResponse(bytes, byte) PROVE late'
  BY <1>1 DEF ReadResponse
<1>2. CASE DisableDevices \/ ResetTest \/ ExtraRead \/ FirstByte \/ SecondByte
  BY <1>1, <1>2, Zenon DEF DisableDevices, ResetTest, ExtraRead, FirstByte, SecondByte
<1>3. CASE Configure \/ EnableInterrupt
  BY <1>1, <1>3, Zenon DEF Configure, EnableInterrupt
<1>4. CASE SelfTest
  BY <1>1, <1>4, Zenon DEF SelfTest
<1>5. CASE TestFirst \/ TestSecond
  BY <1>1, <1>5, Zenon DEF TestFirst, TestSecond, TestChannel
<1>6. CASE Reset
  BY <1>1, <1>6, Zenon DEF Reset
<1>7. CASE DisableScanning \/ Identify
  BY <1>1, <1>7, Zenon DEF DisableScanning, Identify, DetectCommand
<1>8. CASE NoKeyboard \/ Construct
  BY <1>8 DEF NoKeyboard, Construct
<1> QED
  BY <1>2, <1>3, <1>4, <1>5, <1>6, <1>7, <1>8 DEF init_ps2_controller

(* The driver presses no keys.                                             *)
LEMMA KeysStay == init_ps2_controller => keys' = keys
BY DEF init_ps2_controller, DisableDevices, Configure, SelfTest, TestFirst, TestSecond, TestChannel,
       Reset, ResetTest, ExtraRead, DisableScanning, Identify, FirstByte, SecondByte,
       NoKeyboard, EnableInterrupt, Construct

(* Nothing was said and nothing found in the beginning.                    *)
LEMMA QuietStarts == Init => QuietSoFar
<1> SUFFICES ASSUME Init PROVE keys \in Nat /\ QuietRun
  BY DEF QuietSoFar, QuietInv
<1>1. HardwareOK
  BY DEF HardwareOK, Init, Configurations, Ports
<1>2. last \in Bytes
  <2>1. "none" \in Words /\ "none" \in Senders /\ "none" \in Causes
    BY DEF Words, Protocol, Senders, Causes
  <2> QED
    BY <2>1, ByteIs DEF Init
<1>3. /\ output = <<>> /\ toCheck = <<>> /\ pc = "disable" /\ found = None /\ s_keyboard = None
      /\ waiting = [p \in Ports |-> <<>>] /\ keys = 0
  BY DEF Init
<1>4. QuietType
  BY <1>1, <1>2, <1>3 DEF QuietType, Places, Early
<1>5. AnswerInv
  BY <1>3 DEF AnswerInv, NothingSaid
<1>6. QuietCheck
  BY <1>3 DEF QuietCheck, InTurn, Early, Checking, Calmly
<1>7. QuietFound
  BY <1>3 DEF QuietFound, Early, Checking, Calmly, Places
<1>8. StopsForAReason
  BY <1>3 DEF StopsForAReason
<1> QED
  BY <1>3, <1>4, <1>5, <1>6, <1>7, <1>8 DEF QuietRun

(* Nothing happens.                                                        *)
LEMMA QuietStutters == QuietRun /\ UNCHANGED vars => QuietRun'
<1> SUFFICES ASSUME QuietRun, UNCHANGED vars PROVE QuietRun'
  OBVIOUS
<1>1. /\ pc' = pc /\ channels' = channels /\ ports' = ports /\ scanning' = scanning
      /\ config' = config /\ last' = last /\ is_double_channel' = is_double_channel
      /\ toCheck' = toCheck /\ found' = found /\ s_keyboard' = s_keyboard
      /\ output' = output /\ waiting' = waiting
  BY DEF vars, hardware, results
<1>2. Kind(dev)' = Kind(dev) /\ dev' = dev
  BY <1>1 DEF Kind, dev
<1>3. QuietType'
  BY <1>1 DEF QuietRun, QuietType, HardwareOK
<1>4. Second' = Second /\ (Obeys' <=> Obeys)
      /\ \A command : Refuses(command)' <=> Refuses(command)
  BY <1>1, <1>2 DEF Second, Obeys, Refuses
<1>5. AnswerInv'
  <2> DEFINE k == Kind(dev)
  <2>1. k' = k
    BY <1>2
  <2> HIDE DEF k
  <2> QED
    BY <1>1, <1>2, <1>4 DEF QuietRun, AnswerInv, NothingSaid, Only
<1>6. QuietCheck'
  <2>1. (Good("first")' <=> Good("first")) /\ (Good("second")' <=> Good("second"))
    BY <1>1 DEF Good
  <2> QED
    BY <1>1, <2>1 DEF QuietRun, QuietCheck, InTurn
<1>7. FoundSoFar' = FoundSoFar
  BY <1>1 DEF FoundSoFar, FirstFound, KeyboardAt, Usable
<1>8. QuietFound'
  BY <1>1, <1>2, <1>7 DEF QuietRun, QuietFound
<1>9. StopsForAReason'
  <2>1. Quiet' <=> Quiet
    BY DEF vars, Quiet
  <2> QED
    BY <1>1, <2>1 DEF QuietRun, StopsForAReason
<1> QED
  BY <1>3, <1>5, <1>6, <1>8, <1>9 DEF QuietRun

(* The invariant holds in every state of every run.                        *)
LEMMA QuietAlways ==
  ASSUME KnownKinds
  PROVE  Spec => []QuietSoFar
<1>1. Init => QuietSoFar
  BY QuietStarts
<1>2. QuietSoFar /\ [Next]_vars => QuietSoFar'
  <2> SUFFICES ASSUME QuietSoFar, [Next]_vars PROVE QuietSoFar'
    OBVIOUS
  <2>1. CASE init_ps2_controller
    <3>1. keys' = keys
      BY <2>1, KeysStay
    <3>2. ASSUME Quiet' PROVE QuietRun'
      <4>1. ~late' /\ ~late /\ keys = 0
        BY <2>1, <3>1, <3>2, LateStays DEF Quiet
      <4>2. QuietRun
        BY <4>1 DEF QuietSoFar, QuietInv, Quiet
      <4>3. CASE DisableDevices \/ Configure \/ SelfTest \/ TestFirst \/ TestSecond
        BY <4>1, <4>2, <4>3, DisableDevicesQuiet, ConfigureQuiet, SelfTestQuiet, TestFirstQuiet,
           TestSecondQuiet
      <4>4. CASE Reset \/ ResetTest \/ ExtraRead
        BY <4>1, <4>2, <4>4, ResetQuiet, ResetTestQuiet, ExtraReadQuiet
      <4>5. CASE DisableScanning \/ Identify \/ FirstByte \/ SecondByte
        BY <4>1, <4>2, <4>5, DisableScanningQuiet, IdentifyQuiet, FirstByteQuiet, SecondByteQuiet
      <4>6. CASE NoKeyboard \/ EnableInterrupt \/ Construct
        BY <4>1, <4>2, <4>6, NoKeyboardQuiet, EnableInterruptQuiet, ConstructQuiet
      <4> QED
        BY <2>1, <4>3, <4>4, <4>5, <4>6 DEF init_ps2_controller
    <3> QED
      BY <3>1, <3>2 DEF QuietSoFar, QuietInv
  <2>2. CASE \E port \in Ports : Press(port)
    <3>1. keys' = keys + 1
      BY <2>2 DEF Press
    <3> QED
      BY <3>1 DEF QuietSoFar, QuietInv, Quiet
  <2>3. CASE UNCHANGED vars
    <3>1. keys' = keys /\ (Quiet' <=> Quiet)
      BY <2>3 DEF vars, Quiet
    <3> QED
      BY <2>3, <3>1, QuietStutters DEF QuietSoFar, QuietInv
  <2> QED
    BY <2>1, <2>2, <2>3 DEF Next
<1> QED
  BY <1>1, <1>2, PTL DEF Spec

(* If nobody presses a key and every answer is there when it is read, the  *)
(* driver that is set up is the one of the keyboard there is, whatever is  *)
(* on the other port; all that the devices sent has been read, by the      *)
(* extra read too, the keyboard is off, and its interrupt is the only one  *)
(* that is enabled (ps2.cpp:211-287).                                      *)
THEOREM KeyboardIsSetUp ==
  ASSUME KnownKinds
  PROVE  Spec => []KeyboardBeginsClean
<1>1. QuietSoFar => KeyboardBeginsClean
  <2> SUFFICES ASSUME QuietRun, pc = "done"
               PROVE  /\ s_keyboard.port = Expected
                      /\ s_keyboard # None =>
                           /\ output = <<>> /\ s_keyboard.port \notin scanning
                           /\ config.irq = {s_keyboard.port}
    BY DEF QuietSoFar, QuietInv, KeyboardBeginsClean
  <2>1. toCheck = <<>> /\ found = FoundSoFar /\ s_keyboard = found /\ output = <<>>
        /\ (found # None => found.port \notin scanning /\ config.irq = {found.port})
    BY DEF QuietRun, QuietCheck, QuietFound, AnswerInv, NothingSaid
  <2>2. found = IF Usable("second") THEN KeyboardAt("second")
                ELSE IF Usable("first") THEN KeyboardAt("first") ELSE None
    BY <2>1 DEF FoundSoFar, FirstFound
  <2>3. Expected = IF Usable("second") THEN "second" ELSE IF Usable("first") THEN "first" ELSE "none"
    <3>1. "second" \in Keyboards <=> Usable("second")
      BY DEF Keyboards, Ports
    <3>2. "first" \in Keyboards <=> Usable("first")
      BY DEF Keyboards, Ports
    <3>3. Keyboards \subseteq {"first", "second"}
      BY DEF Keyboards, Ports
    <3> QED
      BY <3>1, <3>2, <3>3 DEF Expected
  <2>4. found.port = Expected
    BY <2>2, <2>3 DEF KeyboardAt, None
  <2> QED
    BY <2>1, <2>4
<1> QED
  BY <1>1, QuietAlways, PTL

(* If nobody presses a key and every answer is there when it is read, the  *)
(* kernel stops only if the controller fails its test or loses its         *)
(* configuration, or if a port whose test passes is empty or its device    *)
(* refuses the reset (ps2.cpp:196-231, keyboard.cpp:40).                   *)
THEOREM NothingElseStops ==
  ASSUME KnownKinds
  PROVE  Spec => []StopsForAReason
<1>1. QuietSoFar => StopsForAReason
  BY DEF QuietSoFar, QuietInv, QuietRun, StopsForAReason
<1> QED
  BY <1>1, QuietAlways, PTL
=============================================================================
