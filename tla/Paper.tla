-------------------------------- MODULE Paper --------------------------------
(***************************************************************************)
(* What a screen promises: characters are written one after the other on   *)
(* an endless roll of paper of a certain width.                            *)
(***************************************************************************)
EXTENDS Integers, Sequences

CONSTANTS
  Width,    (* characters of a line                                        *)
  Height,   (* lines there are at the beginning                            *)
  Chars,    (* what can be written                                         *)
  Blank     (* where nothing was written                                   *)

VARIABLES
  paper,    (* all places, line after line                                 *)
  place     (* where the next character goes, from 0                       *)

vars == <<paper, place>>

Blanks(n) == [k \in 1..n |-> Blank]
LineStart == place - (place % Width)

Init ==
  /\ paper = Blanks(Width * Height)
  /\ place = 0

(* Paper is unrolled, a line at a time, until place is on it.              *)
Unrolled(written, at) == IF at < Len(written) THEN written ELSE written \o Blanks(Width)

Put(c) ==
  /\ c \notin {"\n", "\r", "BS"}
  /\ place' = place + 1
  /\ paper' = Unrolled([paper EXCEPT ![place + 1] = c], place + 1)

NewLine ==
  /\ place' = LineStart + Width
  /\ paper' = Unrolled(paper, LineStart + Width)

CarriageReturn == place' = LineStart /\ UNCHANGED paper

Backspace ==
  /\ place > LineStart
  /\ place' = place - 1
  /\ paper' = [paper EXCEPT ![place] = Blank]

Next == NewLine \/ CarriageReturn \/ Backspace \/ \E c \in Chars : Put(c)

Spec == Init /\ [][Next]_vars
=============================================================================
