----------------------------- MODULE MCKeyboard -----------------------------
(* One letter, both shift keys, one key without a character.               *)
EXTENDS Keyboard

MCLetters == {"a"}
MCShifts  == {"left shift", "right shift"}
MCSilent  == {"control"}
MCPids    == {1}

FirstByte == {"set_scancode_set"}
=============================================================================
