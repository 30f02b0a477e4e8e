-------------------------------- MODULE Trace --------------------------------
(***************************************************************************)
(* What a panic shows: the symbols that load_debug_symbols reads from the  *)
(* output of nm, the names that function_name_from_pc finds, the stack     *)
(* that StackWalker follows, and the lines that printf makes of it on the  *)
(* screen.  Numbers and their text are those of module Text.               *)
(***************************************************************************)
EXTENDS Text, Vga

CONSTANTS
  SymbolFiles,   (* what /boot/kernel.sym may hold: the symbols nm lists   *)
  Stacks,        (* where a panic may happen, and the return addresses on  *)
                 (* the stack, innermost first                             *)
  Characters,    (* all characters of the texts                            *)
  Messages,      (* what the kernel prints before: lists of arguments by   *)
                 (* format                                                 *)
  MaxMessages    (* bound: those it prints                                 *)

VARIABLES
  phase,         (* "boot", "loaded", "panic", "walk", "dump" or "halted"  *)
  file,          (* the symbol file, NoFile until it is read               *)
  s_symbols,
  stack,         (* where the panic happened, and its stack                *)
  m_current_frame, (* the walker's frame, 0 behind the last                *)
  printed        (* history: the texts that were printed, with their calls *)

symbols == <<file, s_symbols>>
walker  == <<stack, m_current_frame>>
allVars == <<vgaVars, phase, symbols, walker, printed>>

Undefined == -1    (* nm shows no address for an undefined symbol          *)
NoFile == <<>>
NoStack == [eip |-> 0, returns |-> <<>>]

Init ==
  /\ InitVga
  /\ phase = "boot"
  /\ file = NoFile /\ s_symbols = <<>>
  /\ stack = NoStack /\ m_current_frame = 0
  /\ printed = <<>>

(* printf, when nothing is being printed.                                  *)
printf(format, args) ==
  LET result == sprintf_impl(format, args)
  IN /\ text = <<>>
     /\ text' = result.text
     /\ printed' = Append(printed, [format |-> format, args |-> args, text |-> result.text])
     /\ UNCHANGED screen

PutCharacter == Write /\ UNCHANGED <<phase, symbols, walker, printed>>

PrintMessage ==
  /\ phase = "boot"
  /\ Len(printed) < MaxMessages
  /\ \E format \in DOMAIN Messages : \E args \in Messages[format] : printf(format, args)
  /\ UNCHANGED <<phase, symbols, walker>>

-----------------------------------------------------------------------------
(* load_debug_symbols                                                      *)

(* nm -n: one line per symbol; c++filt puts spaces into names.             *)
Line(symbol) ==
  (IF symbol.offset = Undefined THEN [k \in 1..NibbleCount |-> " "]
   ELSE to_string_hex(symbol.offset, NibbleCount, FALSE))
  \o <<" ", "T", " ">> \o symbol.name \o <<"\n">>
Contents(listed) == FoldLeft(LAMBDA t, symbol : t \o Line(symbol), <<>>, listed)

ReadingNothing ==
  [state |-> "ReadingAddress", address |-> <<>>, symbol |-> <<>>, offset |-> 0,
   symbols |-> <<>>, ok |-> TRUE]

(* The offset is the low word of the number.                               *)
EndOfAddress(p) ==
  LET value == strtoll(p.address, 16)
  IN [p EXCEPT !.state = "ReadingType", !.ok = value # <<>>, !.address = <<>>,
               !.offset = IF value = <<>> THEN 0 ELSE (value[1] % Word)]

EndOfLine(p) ==
  IF p.state # "ReadingSymbol" THEN [p EXCEPT !.ok = FALSE]
  ELSE [p EXCEPT !.state = "ReadingAddress", !.symbol = <<>>,
                 !.symbols = Append(@, [name |-> p.symbol, offset |-> p.offset])]

(* One character; nothing is read any more after an assertion failed.      *)
Read(p, c) ==
  CASE ~p.ok -> p
    [] p.ok /\ c = "\n" -> EndOfLine(p)
    [] p.ok /\ c # "\n" /\ p.state = "ReadingSymbol" -> [p EXCEPT !.symbol = Append(@, c)]
    [] p.ok /\ c = " " /\ p.state = "ReadingAddress" -> EndOfAddress(p)
    [] p.ok /\ c = " " /\ p.state = "ReadingType" -> [p EXCEPT !.state = "ReadingSymbol"]
    [] p.ok /\ c \notin {" ", "\n"} /\ p.state = "ReadingAddress" ->
         [p EXCEPT !.address = Append(@, c)]
    [] p.ok /\ c \notin {" ", "\n"} /\ p.state = "ReadingType" -> p

Loaded == <<"L", " ", "%", "u", "\n">>

load_debug_symbols ==
  /\ phase = "boot" /\ text = <<>>
  /\ file' \in SymbolFiles
  /\ LET p == FoldLeft(Read, ReadingNothing, Contents(file'))
     IN /\ s_symbols' = p.symbols
        /\ IF p.ok THEN phase' = "loaded" /\ printf(Loaded, <<Len(p.symbols)>>)
                   ELSE phase' = "panic" /\ UNCHANGED <<vgaVars, printed>>
  /\ UNCHANGED walker

-----------------------------------------------------------------------------
(* function_name_from_pc and the panic                                     *)

Missing == <<"m">>    (* "<missing debug symbols>"                          *)
Unknown == <<"u">>    (* "<unknown>"                                        *)

(* Mutant: a function's first instruction belongs to the one before.       *)
NameFromPcExclusive(pc) ==
  LET above == {k \in DOMAIN s_symbols : pc <= s_symbols[k].offset}
      end == IF above = {} THEN Len(s_symbols)
             ELSE (CHOOSE k \in above : \A j \in above : k <= j) - 1
  IN IF s_symbols = <<>> THEN Missing
     ELSE IF end = 0 THEN Unknown ELSE s_symbols[end].name

(* The symbol in front of the first one that lies behind pc.               *)
function_name_from_pc(pc) ==
  LET above == {k \in DOMAIN s_symbols : pc < s_symbols[k].offset}
      end == IF above = {} THEN Len(s_symbols)
             ELSE (CHOOSE k \in above : \A j \in above : k <= j) - 1
  IN IF s_symbols = <<>> THEN Missing
     ELSE IF end = 0 THEN Unknown ELSE s_symbols[end].name

(* panic_from_interrupt begins with where it happened, panic_in_code with  *)
(* a line of the source.  The walker starts at the interrupted frame, or   *)
(* at the function that panicked, which has one.                           *)
PanicAt == <<"P", ":", " ", "%", "p", " ", "%", "s", "\n">>
panic_from_interrupt ==
  /\ phase \in {"boot", "loaded"}
  /\ \E interrupted \in Stacks :
       /\ stack' = interrupted
       /\ printf(PanicAt, <<interrupted.eip, function_name_from_pc(interrupted.eip)>>)
  /\ m_current_frame' = 1
  /\ phase' = "walk"
  /\ UNCHANGED symbols

Location == <<"%", "s", ":", "%", "u", "\n">>
panic_in_code ==
  /\ phase \in {"boot", "loaded", "panic"}
  /\ \E panicking \in Stacks :
       /\ panicking.returns # <<>>
       /\ stack' = panicking
  /\ printf(Location, <<<<"f">>, 7>>)
  /\ m_current_frame' = 1
  /\ phase' = "walk"
  /\ UNCHANGED symbols

(* The constructor asserts that there is a frame; where there is none, the *)
(* panic that follows is a nested one, which halts after it printed why.   *)
Nested == <<"N", "\n">>
StackWalker ==
  /\ phase = "walk" /\ text = <<>>
  /\ IF stack.returns = <<>>
     THEN phase' = "halted" /\ printf(Nested, <<>>)
     ELSE phase' = "dump" /\ UNCHANGED <<vgaVars, printed>>
  /\ UNCHANGED <<symbols, walker>>

FrameFormat == <<"%", "s", ":", " ", "%", "p", " ", "%", "s", "\n">>

(* One turn of dump: the prefix, the address and its name, then up.        *)
dump ==
  /\ phase = "dump"
  /\ m_current_frame # 0
  /\ LET pc == stack.returns[m_current_frame]
     IN printf(FrameFormat, <<<<"p">>, pc, function_name_from_pc(pc)>>)
  /\ m_current_frame' = IF m_current_frame < Len(stack.returns)
                        THEN m_current_frame + 1 ELSE 0
  /\ UNCHANGED <<phase, symbols, stack>>

panic_notrace ==
  /\ phase = "dump" /\ text = <<>>
  /\ m_current_frame = 0
  /\ phase' = "halted"
  /\ UNCHANGED <<vgaVars, symbols, walker, printed>>

Halted == phase = "halted" /\ text = <<>> /\ UNCHANGED allVars

Next ==
  \/ PutCharacter
  \/ PrintMessage
  \/ load_debug_symbols
  \/ panic_from_interrupt
  \/ panic_in_code
  \/ StackWalker
  \/ dump
  \/ panic_notrace
  \/ Halted

Spec == Init /\ [][Next]_allVars

-----------------------------------------------------------------------------
(* What must hold.                                                         *)

(* The screen shows the last lines of what was written, wherever lines are *)
(* wrapped, scrolled or taken back (vga.cpp:53).                           *)
Roll == INSTANCE Paper
  WITH Width <- TEXT_WIDTH, Height <- TEXT_HEIGHT, Chars <- Characters,
       paper <- gone \o m_termbuffer,
       place <- Len(gone) + m_row * TEXT_WIDTH + m_column
ImplementsPaper == Roll!Spec

(* A number that was printed is read back by strtoll as the same word, in  *)
(* every notation, and has no more zeros in front than were asked for      *)
(* (stdio.cpp:57, stdlib.cpp:140).                                         *)
BaseOf(specifier) == CASE specifier \in {"x", "X"} -> 16
                       [] specifier \in {"d", "i", "u"} -> 10
                       [] specifier = "p" -> 0
NumbersReadBack ==
  \A k \in DOMAIN printed :
    LET call == printed[k]
        specifier == Last(call.format)
    IN specifier \in {"x", "X", "d", "i", "u", "p"} =>
         LET value == strtoll(call.text, BaseOf(specifier))
         IN /\ value # <<>> /\ (value[1] - call.args[1]) % Word = 0
            /\ specifier # "p" /\ call.text[1] = "0" =>
                 Len(call.text) = IF Len(call.format) = 2 THEN 1
                                  ELSE DigitValue(call.format[3])

(* A trace names every frame from the innermost out, each by its address   *)
(* and by the symbol that nm listed last at or below it; if the symbols    *)
(* were not read, it says so (debugsymbols.cpp:75, stackwalker.cpp:33).    *)
Listed == SelectSeq(file, LAMBDA symbol : symbol.offset # Undefined)
NameOf(pc) ==
  LET below == {k \in DOMAIN Listed : Listed[k].offset <= pc}
      Nearest(k) == \A j \in below : \/ Listed[j].offset < Listed[k].offset
                                     \/ Listed[j].offset = Listed[k].offset /\ j <= k
  IN IF Listed # file \/ file = NoFile THEN Missing
     ELSE IF below = {} THEN Unknown ELSE Listed[CHOOSE k \in below : Nearest(k)].name
Address(pc) ==
  [k \in 1..NibbleCount |-> (Digits \o Upper)[((pc \div 16 ^ (NibbleCount - k)) % 16) + 1]]
TraceLine(prefix, pc) ==
  <<prefix, ":", " ", "0", "x">> \o Address(pc) \o <<" ">> \o NameOf(pc) \o <<"\n">>

TraceIsTrue ==
  phase = "halted" =>
    LET n == Len(stack.returns)
        begin == Len(printed) - (IF n = 0 THEN 1 ELSE n)
    IN /\ \A k \in 1..n : printed[begin + k].text = TraceLine("p", stack.returns[k])
       /\ printed[begin].format = PanicAt =>
            printed[begin].text = TraceLine("P", stack.eip)
=============================================================================
