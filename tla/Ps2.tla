-------------------------------- MODULE Ps2 --------------------------------
(***************************************************************************)
(* The initialisation of the PS/2 controller (kernel/x86/ps2.cpp) up to    *)
(* the point where Keyboard begins.  It runs once, with interrupts off,    *)
(* and talks to the controller and to the device on each of its ports by   *)
(* writing a byte and reading the answer from the data port.  The only     *)
(* thing that happens beside it is that somebody presses a key.            *)
(*                                                                         *)
(* The waits before a read test another port (0x64 & flag), where nothing  *)
(* is set: the driver reads at once, and if nothing is there it gets the   *)
(* byte it read last.  A loop that does not wait is not in the model.      *)
(***************************************************************************)
EXTENDS Integers, Sequences, FiniteSets

CONSTANTS
  Kinds,          (* what may be plugged into a port                       *)
  ScanCodes,      (* what a pressed key sends                              *)
  MaxKeys,        (* bound: keys pressed meanwhile                         *)
  LateAnswers     (* whether a read may come before the answer             *)

Ports == {"first", "second"}
Configurations == [irq : SUBSET Ports, disabled : SUBSET Ports, translate : BOOLEAN]

(* A kind of device: whether it is there at all, what it sends after its   *)
(* self test and when it is asked to identify itself, the commands that it *)
(* refuses, and whether it has keys.                                       *)
ASSUME Ps2Assumption ==
  /\ MaxKeys \in Nat /\ LateAnswers \in BOOLEAN
  /\ \A k \in Kinds : DOMAIN k = {"there", "extra", "ident", "refuses", "keys"}

(* The devices there are: at most one byte follows the self test, and an   *)
(* identification has two bytes if it begins with AB and at most one if    *)
(* not; none is what the controller would make of another one.             *)
KnownKind(k) ==
  /\ k.there \in BOOLEAN
  /\ k.refuses \subseteq {"reset", "disable_scanning", "identify"}
  /\ k.extra = <<>> \/ (k.extra = <<k.extra[1]>> /\ k.extra[1] \notin {"ok", "AB"})
  /\ \/ k.ident = <<>>
     \/ k.ident = <<k.ident[1]>> /\ k.ident[1] \notin {"ok", "AB"}
     \/ k.ident = <<"AB", k.ident[2]>> /\ k.ident[2] \notin {"ok", "AB", "41", "C1"}
KnownKinds == \A k \in Kinds : KnownKind(k)

(* No key sends what ends a test or begins an identification: the keys are *)
(* in a scancode set that a keyboard itself uses.                          *)
PlainKeys == ScanCodes \cap {"ok", "passed", "AB"} = {}

VARIABLES
  pc,                (* the driver's next step                             *)
  ports,             (* what is on each port, and whether its test passes  *)
  channels,          (* the ports that the controller has                  *)
  config,            (* the controller's configuration                     *)
  output,            (* the bytes that wait at the data port               *)
  last,              (* the byte read last                                 *)
  late,              (* whether an answer came after its read              *)
  scanning,          (* the ports whose device reports keys                *)
  waiting,           (* the keys pressed on a port that is off             *)
  is_double_channel,
  toCheck,           (* the devices that are available, not yet checked    *)
  found,             (* keyboard_device and keyboard_type, if one is found *)
  s_keyboard,        (* the keyboard that has a driver                     *)
  keys               (* how many keys were pressed                         *)

hardware == <<ports, channels>>
results  == <<is_double_channel, toCheck, found, s_keyboard>>
vars == <<pc, hardware, config, output, last, late, scanning, waiting, results, keys>>

None == [port |-> "none", type |-> "none"]
dev  == Head(toCheck)

(* A byte, and what made whom send it.                                     *)
Byte(value, port, cause) == [value |-> value, port |-> port, cause |-> cause]
Answer(values, port, cause) == [i \in 1..Len(values) |-> Byte(values[i], port, cause)]

Init ==
  /\ pc = "disable"
  /\ channels \in {{"first"}, Ports}
  /\ ports \in [channels -> [kind : Kinds, passes : BOOLEAN]]
  /\ config \in [irq : {{}, channels}, disabled : {{}}, translate : BOOLEAN]
  /\ output = <<>> /\ last = Byte("none", "none", "none") /\ late = FALSE
  /\ scanning = {p \in channels : ports[p].kind.keys}
  /\ waiting = [p \in Ports |-> <<>>]
  /\ is_double_channel = FALSE /\ toCheck = <<>>
  /\ found = None /\ s_keyboard = None
  /\ keys = 0

-----------------------------------------------------------------------------
(* Reading and writing.  "bytes" is what waits at the data port when the   *)
(* driver reads it.                                                        *)

Readable(bytes) ==
  (IF bytes = <<>> THEN {} ELSE {Head(bytes)}) \cup
  (IF bytes = <<>> \/ LateAnswers THEN {last} ELSE {})

Taken(bytes, byte) ==
  IF bytes # <<>> /\ byte = Head(bytes) THEN Tail(bytes) ELSE bytes

(* read_response and read_input_response return byte.                      *)
ReadResponse(bytes, byte) ==
  /\ byte \in Readable(bytes)
  /\ output' = Taken(bytes, byte)
  /\ last' = byte
  /\ late' = (late \/ (bytes # <<>> /\ byte # Head(bytes)))

(* The data port after a command to the controller.                        *)
Asked(value, cause) == Append(output, Byte(value, "controller", cause))

(* A configuration byte; if it is some other byte, whatever that one says. *)
ReadAs(byte, c) == IF byte.cause = "configuration" THEN c = config ELSE c \in Configurations

Reply(port, command) ==
  LET kind == ports[port].kind
  IN  CASE ~kind.there -> <<>>
        [] kind.there /\ command \in kind.refuses -> <<"resend">>
        [] OTHER ->
             CASE command = "reset" -> <<"ack", "ok">> \o kind.extra
               [] command = "disable_scanning" -> <<"ack">>
               [] command = "identify" ->
                    <<"ack">> \o IF config.translate /\ kind.ident = <<"AB", "83">>
                                 THEN <<"AB", "41">> ELSE kind.ident

(* The data port after ps2::write.                                         *)
Written(port, command) == output \o Answer(Reply(port, command), port, command)

-----------------------------------------------------------------------------
(* The controller.                                                         *)

(* Steps 3 and 4: both devices off; the data port is read once.            *)
DisableDevices ==
  /\ pc = "disable" /\ pc' = "configure"
  /\ config' = [config EXCEPT !.disabled = channels]
  /\ \E byte \in Readable(output) : ReadResponse(output, byte)
  /\ UNCHANGED <<hardware, scanning, waiting, results, keys>>

(* The configuration & ~0x43.                                              *)
Cleared(c) == [c EXCEPT !.irq = {}, !.translate = FALSE]

(* Step 5.                                                                 *)
Configure ==
  /\ pc = "configure" /\ pc' = "self_test"
  /\ LET bytes == Asked("configuration", "configuration") IN
     \E byte \in Readable(bytes), c \in Configurations :
       /\ ReadResponse(bytes, byte) /\ ReadAs(byte, c)
       /\ is_double_channel' = ("second" \in c.disabled)
       /\ config' = Cleared(c)
  /\ UNCHANGED <<hardware, scanning, waiting, toCheck, found, s_keyboard, keys>>

(* Step 6.  Some controllers lose their configuration in the test.         *)
SelfTest ==
  /\ pc = "self_test"
  /\ \E answer \in {"passed", "failed"} :
     LET bytes == Asked(answer, "self_test") IN
     \E byte \in Readable(bytes) :
       /\ ReadResponse(bytes, byte)
       /\ pc' = IF byte.value = "passed" THEN "test_first" ELSE "panic"
  /\ config' \in {config, [config EXCEPT !.translate = TRUE]}
  /\ UNCHANGED <<hardware, scanning, waiting, results, keys>>

(* Step 8, for one channel.                                                *)
TestChannel(port) ==
  LET bytes == Asked(IF port \in channels /\ ports[port].passes THEN "00" ELSE "bad", "test_channel") IN
  \E byte \in Readable(bytes) :
    /\ ReadResponse(bytes, byte)
    /\ toCheck' = IF byte.value = "00" THEN Append(toCheck, port) ELSE toCheck
    /\ UNCHANGED <<hardware, config, scanning, waiting, is_double_channel, found, s_keyboard, keys>>

CheckNext(devices) == IF devices = <<>> THEN "enable_interrupt" ELSE "reset"

TestFirst ==
  /\ pc = "test_first" /\ TestChannel("first")
  /\ pc' = IF is_double_channel THEN "test_second" ELSE CheckNext(toCheck')

TestSecond ==
  /\ pc = "test_second" /\ TestChannel("second")
  /\ pc' = CheckNext(toCheck')

-----------------------------------------------------------------------------
(* check_device.                                                           *)

(* The channel is enabled, which lets a waiting key through, and the       *)
(* device is reset; the acknowledgement is read.                           *)
Reset ==
  /\ pc = "reset"
  /\ LET bytes == output \o waiting[dev] \o Answer(Reply(dev, "reset"), dev, "reset") IN
     \E byte \in Readable(bytes) :
       /\ ReadResponse(bytes, byte)
       /\ pc' = IF byte.value = "ack" THEN "reset_test" ELSE "panic"
  /\ config' = [config EXCEPT !.disabled = @ \ {dev}]
  /\ waiting' = [waiting EXCEPT ![dev] = <<>>]
  /\ scanning' = IF ports[dev].kind.keys THEN scanning \cup {dev} ELSE scanning \ {dev}
  /\ UNCHANGED <<hardware, results, keys>>

ResetTest ==
  /\ pc = "reset_test"
  /\ \E byte \in Readable(output) :
       /\ ReadResponse(output, byte)
       /\ pc' = IF byte.value = "ok" THEN "extra_read" ELSE "panic"
  /\ UNCHANGED <<hardware, config, scanning, waiting, results, keys>>

(* Mutant: no extra read.                                                  *)
ExtraReadLeftOut ==
  /\ pc = "extra_read" /\ pc' = "disable_scanning"
  /\ UNCHANGED <<hardware, config, output, last, late, scanning, waiting, results, keys>>

(* The read that "fixes it": a mouse sends its number after the self test. *)
ExtraRead ==
  /\ pc = "extra_read" /\ pc' = "disable_scanning"
  /\ \E byte \in Readable(output) : ReadResponse(output, byte)
  /\ UNCHANGED <<hardware, config, scanning, waiting, results, keys>>

(* Mutant: whatever is found last counts, a mouse too.                     *)
FoundAnything(type) == IF type # "none" THEN [port |-> dev, type |-> type] ELSE found

(* What check_device makes of the type, "none" if there is no answer.      *)
Found(type) ==
  IF type \in {"keyboard", "translated"} THEN [port |-> dev, type |-> type] ELSE found

(* The end of check_device.                                                *)
Checked(type) ==
  /\ found' = Found(type)
  /\ toCheck' = Tail(toCheck)
  /\ pc' = CheckNext(toCheck')
  /\ UNCHANGED <<is_double_channel, s_keyboard>>

(* A command of detect_device_type; if it is not acknowledged the device   *)
(* is left alone.                                                          *)
DetectCommand(command, next) ==
  LET bytes == Written(dev, command) IN
  \E byte \in Readable(bytes) :
    /\ ReadResponse(bytes, byte)
    /\ IF byte.value = "ack" THEN pc' = next /\ UNCHANGED results ELSE Checked("none")

DisableScanning ==
  /\ pc = "disable_scanning"
  /\ DetectCommand("disable_scanning", "identify")
  /\ scanning' =
       IF "disable_scanning" \in ports[dev].kind.refuses THEN scanning ELSE scanning \ {dev}
  /\ UNCHANGED <<hardware, config, waiting, keys>>

Identify ==
  /\ pc = "identify"
  /\ DetectCommand("identify", "first_byte")
  /\ UNCHANGED <<hardware, config, scanning, waiting, keys>>

FirstByte ==
  /\ pc = "first_byte"
  /\ \E byte \in Readable(output) :
       /\ ReadResponse(output, byte)
       /\ IF byte.value = "AB" THEN pc' = "second_byte" /\ UNCHANGED results
          ELSE Checked(IF byte.value \in {"00", "03", "04"} THEN "mouse" ELSE "none")
  /\ UNCHANGED <<hardware, config, scanning, waiting, keys>>

(* Mutant: every second byte stands for a keyboard.                        *)
AnyKeyboard(value) == "keyboard"

KeyboardType(value) ==
  CASE value \in {"41", "C1"} -> "translated" [] value = "83" -> "keyboard" [] OTHER -> "none"

SecondByte ==
  /\ pc = "second_byte"
  /\ \E byte \in Readable(output) :
       ReadResponse(output, byte) /\ Checked(KeyboardType(byte.value))
  /\ UNCHANGED <<hardware, config, scanning, waiting, keys>>

-----------------------------------------------------------------------------
(* The keyboard's driver.                                                  *)

NoKeyboard ==
  /\ pc = "enable_interrupt" /\ found = None /\ pc' = "done"
  /\ UNCHANGED <<hardware, config, output, last, late, scanning, waiting, results, keys>>

EnableInterrupt ==
  /\ pc = "enable_interrupt" /\ found # None /\ pc' = "construct"
  /\ LET bytes == Asked("configuration", "configuration") IN
     \E byte \in Readable(bytes), c \in Configurations :
       /\ ReadResponse(bytes, byte) /\ ReadAs(byte, c)
       /\ config' = [c EXCEPT !.irq = @ \cup {found.port}]
  /\ UNCHANGED <<hardware, scanning, waiting, results, keys>>

(* The constructor asserts that the keyboard does not translate.           *)
Construct ==
  /\ pc = "construct"
  /\ IF found.type = "keyboard" THEN s_keyboard' = found /\ pc' = "done"
     ELSE s_keyboard' = s_keyboard /\ pc' = "panic"
  /\ UNCHANGED <<hardware, config, output, last, late, scanning, waiting, is_double_channel, toCheck,
                 found, keys>>

-----------------------------------------------------------------------------
(* Keys.  While the port is off the keyboard keeps its bytes, and also     *)
(* while the data port is full before the driver begins.                   *)
Press(port) ==
  /\ pc \notin {"done", "panic"} /\ keys < MaxKeys /\ keys' = keys + 1
  /\ port \in scanning
  /\ \E code \in ScanCodes :
       LET byte == Byte(code, port, "key") IN
       IF port \in config.disabled \/ (pc = "disable" /\ output # <<>>)
       THEN /\ waiting' = [waiting EXCEPT ![port] = Append(@, byte)]
            /\ UNCHANGED output
       ELSE output' = Append(output, byte) /\ UNCHANGED waiting
  /\ UNCHANGED <<pc, hardware, config, last, late, scanning, results>>

init_ps2_controller ==
  \/ DisableDevices \/ Configure \/ SelfTest \/ TestFirst \/ TestSecond
  \/ Reset \/ ResetTest \/ ExtraRead \/ DisableScanning \/ Identify \/ FirstByte \/ SecondByte
  \/ NoKeyboard \/ EnableInterrupt \/ Construct

Next == init_ps2_controller \/ \E port \in Ports : Press(port)

Spec == Init /\ [][Next]_vars

-----------------------------------------------------------------------------
(* Properties.                                                             *)

(* Nobody pressed a key, and every answer was there when it was read.      *)
Quiet == keys = 0 /\ ~late

(* The port of the keyboard that the driver should find: the last one that *)
(* is available and has a keyboard.                                        *)
Usable(port) ==
  /\ port \in channels /\ ports[port].passes
  /\ ports[port].kind.ident = <<"AB", "83">> /\ ports[port].kind.refuses = {}
Keyboards == {p \in Ports : Usable(p)}
Expected == IF Keyboards = {} THEN "none" ELSE IF "second" \in Keyboards THEN "second" ELSE "first"

(* A keyboard is never taken for another kind of device nor a device for a *)
(* keyboard, whatever is pressed and however late answers come: bytes get  *)
(* out of step, but not so that others read as an identification.          *)
TypeIsRight ==
  found # None => ports[found.port].kind.ident = <<"AB", "83">>

(* If all was quiet, the driver that is set up is the one of the keyboard  *)
(* that there is, whatever is on the other port, and what Keyboard's Init  *)
(* presumes holds: all that the devices sent has been read, the keyboard   *)
(* does not scan, and its interrupt is the only one that is enabled.  That *)
(* is what the unexplained read at ps2.cpp:225 is for.                     *)
KeyboardBeginsClean ==
  pc = "done" /\ Quiet =>
    /\ s_keyboard.port = Expected
    /\ s_keyboard # None =>
         /\ output = <<>> /\ s_keyboard.port \notin scanning
         /\ config.irq = {s_keyboard.port}

(* The kernel stops only if the controller fails its test or loses its     *)
(* configuration, if a port whose test passes is empty or its device       *)
(* refuses the reset, or if it was not quiet.                              *)
StopsForAReason ==
  pc = "panic" /\ Quiet =>
    \/ last.value = "failed"
    \/ config.translate
    \/ \E p \in channels :
         ports[p].passes /\ (~ports[p].kind.there \/ "reset" \in ports[p].kind.refuses)

=============================================================================
