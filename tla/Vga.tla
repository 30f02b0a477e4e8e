--------------------------------- MODULE Vga ---------------------------------
(***************************************************************************)
(* kernel/x86/tty/vga.cpp: the text screen.  Colours are left out.  A call *)
(* of write puts one character per step; nothing else touches the screen   *)
(* meanwhile, as module Console shows.                                     *)
(***************************************************************************)
EXTENDS Integers, Sequences

CONSTANTS
  TEXT_WIDTH,
  TEXT_HEIGHT

ASSUME VgaAssumption == TEXT_WIDTH \in Nat \ {0} /\ TEXT_HEIGHT \in Nat \ {0}

VARIABLES
  m_termbuffer,  (* the cells, row after row                               *)
  m_row,
  m_column,
  cursor,        (* the place the hardware shows the cursor at             *)
  text,          (* what write has not put yet                             *)
  gone           (* history: the cells of the rows that were scrolled off  *)

screen  == <<m_termbuffer, m_row, m_column, cursor, gone>>
vgaVars == <<screen, text>>

Blank == " "   (* "BS" stands for the character backspace *)
Blanks(n) == [k \in 1..n |-> Blank]

(* clear().                                                                *)
InitVga ==
  /\ m_termbuffer = Blanks(TEXT_WIDTH * TEXT_HEIGHT)
  /\ m_row = 0 /\ m_column = 0
  /\ cursor = 0
  /\ text = <<>>
  /\ gone = <<>>

(* The cells, column and row before a line is wrapped or scrolled.         *)
write_char_at(c, column, row) ==
  [m_termbuffer EXCEPT ![row * TEXT_WIDTH + column + 1] = c]

Placed(c) ==
  CASE c = "\n" -> [cells |-> m_termbuffer, column |-> 0, row |-> m_row + 1]
    [] c = "\r" -> [cells |-> m_termbuffer, column |-> 0, row |-> m_row]
    [] c = "BS" ->
         IF m_column > 0
         THEN [cells |-> write_char_at(Blank, m_column - 1, m_row),
               column |-> m_column - 1, row |-> m_row]
         ELSE [cells |-> m_termbuffer, column |-> 0, row |-> m_row]
    [] OTHER -> [cells |-> write_char_at(c, m_column, m_row),
                 column |-> m_column + 1, row |-> m_row]

Wrapped(s) == IF s.column = TEXT_WIDTH THEN [s EXCEPT !.column = 0, !.row = @ + 1] ELSE s

(* Mutant: the last row keeps what it held.                                *)
ScrolledKeepingLast(cells) ==
  SubSeq(cells, TEXT_WIDTH + 1, Len(cells))
    \o SubSeq(cells, Len(cells) - TEXT_WIDTH + 1, Len(cells))

Scrolled(cells) == SubSeq(cells, TEXT_WIDTH + 1, Len(cells)) \o Blanks(TEXT_WIDTH)

putchar(c) ==
  LET s == Wrapped(Placed(c))
  IN IF s.row = TEXT_HEIGHT
     THEN /\ m_termbuffer' = Scrolled(s.cells)
          /\ m_column' = 0 /\ m_row' = TEXT_HEIGHT - 1
          /\ gone' = gone \o SubSeq(s.cells, 1, TEXT_WIDTH)
     ELSE /\ m_termbuffer' = s.cells
          /\ m_column' = s.column /\ m_row' = s.row
          /\ UNCHANGED gone

(* One turn of write's loop; the last one moves the cursor.                *)
Write ==
  /\ text # <<>>
  /\ putchar(Head(text))
  /\ text' = Tail(text)
  /\ cursor' = IF Len(text) = 1 THEN m_row' * TEXT_WIDTH + m_column' ELSE cursor
=============================================================================
