------------------------------ MODULE OutputLog ------------------------------
(***************************************************************************)
(* What the kernel's output promises: the screen shows a text that only    *)
(* grows at its end, and the serial line carries the same text, no byte    *)
(* twice, none left out and none out of order, some time later.            *)
(***************************************************************************)
EXTENDS Integers, Sequences

VARIABLES
  shown,     (* all that the screen was given                              *)
  carried    (* all that the serial line was given                         *)

vars == <<shown, carried>>

Prefix(s, t) == Len(s) <= Len(t) /\ SubSeq(t, 1, Len(s)) = s

Init == shown = <<>> /\ carried = <<>>

Show ==
  /\ Prefix(shown, shown')
  /\ carried' = carried

Carry ==
  /\ Prefix(carried, carried')
  /\ Prefix(carried', shown)
  /\ shown' = shown

Next == Show \/ Carry

Spec == Init /\ [][Next]_vars

=============================================================================
