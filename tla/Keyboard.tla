------------------------------ MODULE Keyboard ------------------------------
(***************************************************************************)
(* The PS/2 keyboard driver (kernel/x86/ps2_keyboard.cpp) from the end of  *)
(* its constructor on, and the keyboard file (kernel/process/              *)
(* keyboardfile.cpp) it types into.  The driver runs in the keyboard's     *)
(* interrupt handler, one byte at a time; the file's other operations are  *)
(* called by one thread at a time, with interrupts on until their guard    *)
(* switches them off.  The keyboard itself is modelled from what the       *)
(* driver expects of it.                                                   *)
(***************************************************************************)
EXTENDS Integers, Sequences, FiniteSets

CONSTANTS
  Letters,      (* the keys that scancode_to_ascii knows                   *)
  Shifts,       (* S3_LSHIFT and S3_RSHIFT                                 *)
  Silent,       (* keys for which it returns 0                             *)
  Pids,         (* processes that open the file                            *)
  BufferSize,   (* capacity of KeyboardFile::m_buffer                      *)
  WireSize,     (* bound: bytes the keyboard holds for the host            *)
  MaxLetters,   (* bound: letters typed                                    *)
  MaxSilent,    (* bound: releases of silent keys                          *)
  Garbled,      (* the bytes to the keyboard that may arrive garbled       *)
  MaxGarbled    (* bound: how many do                                      *)

Commands == {"set_scancode_set", "three", "enable_scanning"}

(* The keys: the names that ps2_keyboard_scancodes.hpp gives to codes.     *)
Keys == Letters \cup Shifts \cup Silent

ASSUME KeyboardAssumption ==
  /\ BufferSize \in Nat \ {0} /\ WireSize \in Nat
  /\ MaxLetters \in Nat /\ MaxSilent \in Nat /\ MaxGarbled \in Nat
  /\ Garbled \subseteq Commands
  /\ 0 \notin Pids
  /\ Letters \cap Shifts = {} /\ Silent \cap (Letters \cup Shifts) = {}
  /\ Keys \cap {"ack", "resend", "release"} = {}

VARIABLES
  m_command_queue,
  m_state,         (* "ExpectingAck", "ExpectingKeyCode" or "Relase"       *)
  m_shift_count,
  m_owning_pid,
  m_buffer,        (* the keys in the file, as indices into "delivered"    *)
  call,            (* the call that holds KeyboardFile::m_lock             *)
  toDevice,        (* bytes on their way to the keyboard                   *)
  toHost,          (* bytes on their way to the driver                     *)
  device,          (* the keyboard: scancode set, scanning, parameter due  *)
  held,            (* the keys that are down                               *)
  typed,           (* the letters typed, each with whether a shift was down*)
  delivered,       (* what key_trigger was called with                     *)
  got,             (* what was read since the file was opened              *)
  openedAt,        (* how much was delivered when it was opened            *)
  silentReleased,  (* how often a silent key was released                  *)
  garbled          (* how many bytes were garbled                          *)

driver  == <<m_command_queue, m_state, m_shift_count>>
file    == <<m_owning_pid, m_buffer, call, got, openedAt>>
keys    == <<held, typed, silentReleased>>
vars    == <<driver, file, toDevice, toHost, device, keys, delivered, garbled>>

NoCall == [op |-> "none"]

RangeOf(s) == {s[i] : i \in 1..Len(s)}
Prefix(s, t) == Len(s) <= Len(t) /\ s = SubSeq(t, 1, Len(s))
TakeUpTo(s, n) == SubSeq(s, 1, IF n < Len(s) THEN n ELSE Len(s))

-----------------------------------------------------------------------------
(* Commands.                                                               *)

get_data_byte_count(command) == IF command = "set_scancode_set" THEN 1 ELSE 0

(* Mutant: only the command byte is sent.                                  *)
CommandBytesAlone(queue) == TakeUpTo(queue, 1)

(* What send_command writes: the first command with its data bytes, which  *)
(* all stay in the queue.                                                  *)
CommandBytes(queue) ==
  IF queue = <<>> THEN <<>> ELSE TakeUpTo(queue, 1 + get_data_byte_count(Head(queue)))

(* Mutant: scanning is enabled first.                                      *)
StartEnabling == <<"enable_scanning", "set_scancode_set", "three">>

(* What the constructor queues.                                            *)
Start == <<"set_scancode_set", "three", "enable_scanning">>

(* The queue after an acknowledgement.                                     *)
Acknowledged(queue) ==
  LET n == 1 + get_data_byte_count(Head(queue)) IN SubSeq(queue, n + 1, Len(queue))

Init ==
  /\ m_command_queue = Start
  /\ toDevice = CommandBytes(Start)
  /\ m_state = "ExpectingAck" /\ m_shift_count = 0
  /\ m_owning_pid = 0 /\ m_buffer = <<>> /\ call = NoCall
  /\ toHost = <<>>
  /\ device = [set |-> 2, scanning |-> FALSE, parameter |-> FALSE]
  /\ held = {} /\ typed = <<>> /\ delivered = <<>>
  /\ got = <<>> /\ openedAt = 0
  /\ silentReleased = 0 /\ garbled = 0

-----------------------------------------------------------------------------
(* Scancodes.                                                              *)

(* Whether scancode_to_ascii has a character for the code.                 *)
HasCharacter(code) == code \in Letters

(* The character, changed by with_shift if a shift key is down.            *)
with_shift(code, shift) == <<code, shift>>

After(state, shift, key) == [state |-> state, shift |-> shift, key |-> key]

(* Mutant: the release of a letter does not end the release.               *)
FedKeepingRelease(code) ==
  CASE m_state = "ExpectingKeyCode" /\ code = "release" -> After("Relase", m_shift_count, <<>>)
    [] code \in Shifts /\ m_state = "ExpectingKeyCode" ->
         After(m_state, (m_shift_count + 1) % 256, <<>>)
    [] code \in Shifts /\ m_state # "ExpectingKeyCode" ->
         After("ExpectingKeyCode", (m_shift_count - 1) % 256, <<>>)
    [] code \in Letters /\ m_state = "ExpectingKeyCode" ->
         After(m_state, m_shift_count, <<with_shift(code, m_shift_count > 0)>>)
    [] OTHER -> After(m_state, m_shift_count, <<>>)

(* What feed_scancode makes of a byte.  m_shift_count is a u8.  A code     *)
(* without a character leaves the state alone, after a release, too.       *)
Fed(code) ==
  CASE m_state = "ExpectingKeyCode" /\ code = "release" -> After("Relase", m_shift_count, <<>>)
    [] code \in Shifts /\ m_state = "ExpectingKeyCode" ->
         After(m_state, (m_shift_count + 1) % 256, <<>>)
    [] code \in Shifts /\ m_state # "ExpectingKeyCode" ->
         After("ExpectingKeyCode", (m_shift_count - 1) % 256, <<>>)
    [] HasCharacter(code) /\ m_state = "ExpectingKeyCode" ->
         After(m_state, m_shift_count, <<with_shift(code, m_shift_count > 0)>>)
    [] HasCharacter(code) /\ m_state # "ExpectingKeyCode" ->
         After("ExpectingKeyCode", m_shift_count, <<>>)
    [] OTHER -> After(m_state, m_shift_count, <<>>)

(* m_buffer.push, which drops what does not fit; nobody has to be owner.   *)
key_trigger ==
  m_buffer' = IF Len(m_buffer) < BufferSize THEN Append(m_buffer, Len(delivered) + 1)
                                            ELSE m_buffer

feed_scancode(code) ==
  /\ m_state # "ExpectingAck"
  /\ LET fed == Fed(code) IN
       /\ m_state' = fed.state
       /\ m_shift_count' = fed.shift
       /\ IF fed.key = <<>> THEN UNCHANGED m_buffer ELSE key_trigger
       /\ delivered' = delivered \o fed.key
  /\ UNCHANGED <<m_command_queue, toDevice>>

(* Any other message fails the assertion of line 84.                       *)
handle_acknowledgement(message) ==
  /\ m_state = "ExpectingAck"
  /\ \/ /\ message = "resend"
        /\ toDevice' = toDevice \o CommandBytes(m_command_queue)
        /\ UNCHANGED <<m_command_queue, m_state>>
     \/ /\ message = "ack"
        /\ m_command_queue' = Acknowledged(m_command_queue)
        /\ toDevice' = toDevice \o CommandBytes(m_command_queue')
        /\ m_state' = IF m_command_queue' = <<>> THEN "ExpectingKeyCode" ELSE m_state
  /\ UNCHANGED <<m_shift_count, m_buffer, delivered>>

handle_message ==
  /\ toHost # <<>>
  /\ toHost' = Tail(toHost)
  /\ handle_acknowledgement(Head(toHost)) \/ feed_scancode(Head(toHost))
  /\ UNCHANGED <<m_owning_pid, call, got, openedAt, device, keys, garbled>>

-----------------------------------------------------------------------------
(* The file.  A call takes the lock and checks the owner, then does the    *)
(* rest with interrupts off and leaves; between the two the handler may    *)
(* run.  A call that is refused changes nothing.                           *)

OpenStart(pid) ==
  /\ call = NoCall /\ m_owning_pid = 0
  /\ m_owning_pid' = pid
  /\ call' = [op |-> "open"]
  /\ openedAt' = Len(delivered) /\ got' = <<>>
  /\ UNCHANGED <<driver, m_buffer, toDevice, toHost, device, keys, delivered, garbled>>

(* Mutant: what was typed before stays in the file.                        *)
OpenEndKeeping ==
  /\ call.op = "open"
  /\ call' = NoCall
  /\ UNCHANGED <<driver, m_owning_pid, m_buffer, got, openedAt, toDevice, toHost,
                 device, keys, delivered, garbled>>

OpenEnd ==
  /\ call.op = "open"
  /\ m_buffer' = <<>>
  /\ call' = NoCall
  /\ UNCHANGED <<driver, m_owning_pid, got, openedAt, toDevice, toHost, device, keys,
                 delivered, garbled>>

CloseStart(pid) ==
  /\ call = NoCall /\ m_owning_pid = pid
  /\ call' = [op |-> "close"]
  /\ UNCHANGED <<driver, m_owning_pid, m_buffer, got, openedAt, toDevice, toHost,
                 device, keys, delivered, garbled>>

CloseEnd ==
  /\ call.op = "close"
  /\ m_owning_pid' = 0
  /\ m_buffer' = <<>>
  /\ call' = NoCall
  /\ got' = <<>> /\ openedAt' = 0
  /\ UNCHANGED <<driver, toDevice, toHost, device, keys, delivered, garbled>>

(* Nobody checks who reads.                                                *)
ReadStart(length) ==
  /\ call = NoCall
  /\ call' = [op |-> "read", length |-> length]
  /\ UNCHANGED <<driver, m_owning_pid, m_buffer, got, openedAt, toDevice, toHost,
                 device, keys, delivered, garbled>>

ReadEnd ==
  /\ call.op = "read"
  /\ LET taken == TakeUpTo(m_buffer, call.length) IN
       /\ got' = got \o taken
       /\ m_buffer' = SubSeq(m_buffer, Len(taken) + 1, Len(m_buffer))
  /\ call' = NoCall
  /\ UNCHANGED <<driver, m_owning_pid, openedAt, toDevice, toHost, device, keys,
                 delivered, garbled>>

-----------------------------------------------------------------------------
(* The keyboard.  It answers every byte, asks for bytes again that arrive  *)
(* garbled or that it does not expect, and takes a command in the place of *)
(* a parameter for a command.                                              *)

KeyboardAnswers(answer, dev) ==
  /\ toDevice # <<>>
  /\ toDevice' = Tail(toDevice)
  /\ toHost' = Append(toHost, answer)
  /\ device' = dev
  /\ UNCHANGED <<driver, file, keys, delivered>>

KeyboardObeys ==
  /\ \/ /\ toDevice # <<>> /\ Head(toDevice) = "set_scancode_set"
        /\ KeyboardAnswers("ack", [device EXCEPT !.parameter = TRUE])
     \/ /\ toDevice # <<>> /\ Head(toDevice) = "three" /\ device.parameter
        /\ KeyboardAnswers("ack", [device EXCEPT !.parameter = FALSE, !.set = 3])
     \/ /\ toDevice # <<>> /\ Head(toDevice) = "three" /\ ~device.parameter
        /\ KeyboardAnswers("resend", device)
     \/ /\ toDevice # <<>> /\ Head(toDevice) = "enable_scanning"
        /\ KeyboardAnswers("ack", [device EXCEPT !.parameter = FALSE, !.scanning = TRUE])
  /\ UNCHANGED garbled

KeyboardAsksAgain ==
  /\ garbled < MaxGarbled
  /\ toDevice # <<>> /\ Head(toDevice) \in Garbled
  /\ garbled' = garbled + 1
  /\ KeyboardAnswers("resend", device)

(* A key that is down may repeat if it is a letter.                        *)
Press(key) ==
  /\ device.scanning /\ Len(toHost) < WireSize
  /\ key \notin held \/ key \in Letters
  /\ key \in Letters => Len(typed) < MaxLetters
  /\ held' = held \cup {key}
  /\ toHost' = Append(toHost, key)
  /\ typed' = IF key \in Letters THEN Append(typed, <<key, held \cap Shifts # {}>>) ELSE typed
  /\ UNCHANGED <<driver, file, toDevice, device, delivered, silentReleased, garbled>>

(* Some keys send no release in set 3; the shift keys do.                  *)
Release(key) ==
  /\ key \in held
  /\ held' = held \ {key}
  /\ \/ /\ key \notin Shifts
        /\ UNCHANGED <<toHost, silentReleased>>
     \/ /\ Len(toHost) + 1 < WireSize
        /\ key \in Silent => silentReleased < MaxSilent
        /\ toHost' = toHost \o <<"release", key>>
        /\ silentReleased' = silentReleased + (IF key \in Silent THEN 1 ELSE 0)
  /\ UNCHANGED <<driver, file, toDevice, device, typed, delivered, garbled>>

Next ==
  \/ handle_message
  \/ \E pid \in Pids : OpenStart(pid) \/ CloseStart(pid)
  \/ \E length \in 1..BufferSize : ReadStart(length)
  \/ OpenEnd \/ CloseEnd \/ ReadEnd
  \/ KeyboardObeys \/ KeyboardAsksAgain
  \/ \E key \in Keys : Press(key) \/ Release(key)

Spec == Init /\ [][Next]_vars

-----------------------------------------------------------------------------

(* The assertion of ps2_keyboard.cpp:84, in an interrupt handler: as long  *)
(* as the driver awaits an acknowledgement no scancode reaches it, however *)
(* answers, repetitions and key presses follow each other.                 *)
OnlyAnswersAwaited ==
  m_state = "ExpectingAck" /\ toHost # <<>> => Head(toHost) \in {"ack", "resend"}

(* ps2_keyboard.cpp:80 says that no other set is supported and asserts it  *)
(* of the driver's own copy: once the driver awaits scancodes and nothing  *)
(* is on its way, the keyboard is in set 3 and scans.                      *)
SpeaksSet3 ==
  m_state # "ExpectingAck" /\ toDevice = <<>> /\ toHost = <<>>
    => device.set = 3 /\ device.scanning

(* Until a key without a character is released, every letter reaches the   *)
(* file once, in order, with the case that the shift keys had when it was  *)
(* pressed (feed_scancode).                                                *)
KeysAreDecoded ==
  silentReleased = 0 =>
    /\ Prefix(delivered, typed)
    /\ toHost = <<>> => delivered = typed

(* What a process reads, and will read, was typed after it opened the file *)
(* and comes in order, each key once, though the handler types into the    *)
(* file whether or not somebody owns it (keyboardfile.cpp:17).             *)
OwnKeysInOrder ==
  m_owning_pid # 0 /\ call.op # "open" =>
    LET seen == got \o m_buffer IN
    /\ \A i \in 1..Len(seen) : seen[i] > openedAt
    /\ \A i, j \in 1..Len(seen) : i < j => seen[i] < seen[j]

=============================================================================
