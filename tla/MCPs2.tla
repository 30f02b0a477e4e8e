------------------------------- MODULE MCPs2 -------------------------------
(* Keyboards and mice, a keyboard so old that it cannot identify itself,   *)
(* one that refuses to, a device nobody knows, and nothing.                *)
EXTENDS Ps2

Device(extra, ident, refuses, hasKeys) ==
  [there |-> TRUE, extra |-> extra, ident |-> ident, refuses |-> refuses, keys |-> hasKeys]

KeyboardKind == Device(<<>>, <<"AB", "83">>, {}, TRUE)
MouseKind    == Device(<<"00">>, <<"00">>, {}, FALSE)
OldKeyboard  == Device(<<>>, <<>>, {}, TRUE)
Stubborn     == Device(<<>>, <<"AB", "83">>, {"disable_scanning"}, TRUE)
Unknown      == Device(<<>>, <<"AB", "84">>, {}, TRUE)
NoDevice     == [Device(<<>>, <<>>, {}, FALSE) EXCEPT !.there = FALSE]

MCKinds == {KeyboardKind, MouseKind, OldKeyboard, Stubborn, Unknown, NoDevice}
(* F7's code is the second byte of a keyboard's identification.            *)
MCScanCodes == {"1C", "83"}

(* The devices and keys are of the kinds that the theorems are about.      *)
ASSUME KnownKinds /\ PlainKeys
=============================================================================
