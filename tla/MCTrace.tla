------------------------------- MODULE MCTrace -------------------------------
(* Words of eight bits and a screen of three rows.  Symbols share an       *)
(* address, have a space in their name, lie at both ends and where the     *)
(* sign changes; one file lists an undefined symbol, one is empty.         *)
EXTENDS Trace

Symbol(offset, name) == [offset |-> offset, name |-> name]
Undef == Symbol(Undefined, <<"w">>)
Boot == Symbol(16, <<"b">>)
Start == Symbol(192, <<"s">>)
Alias == Symbol(192, <<"a">>)
Run == Symbol(202, <<"r", "(", " ", ")">>)
End == Symbol(255, <<"e">>)
MCSymbolFiles ==
  {<<Boot, Start, Alias, Run, End>>, <<Start, End>>, <<Undef, Boot>>, <<>>}

MCStacks ==
  {[eip |-> 202, returns |-> <<192, 255>>], [eip |-> 201, returns |-> <<16, 15, 254>>],
   [eip |-> 0, returns |-> <<>>], [eip |-> 191, returns |-> <<193>>]}

Words == {0, 1, 9, 10, 15, 16, 99, 100, 127, 128, 160, 255}
Ints == {-128, -100, -1, 0, 7, 10, 127}
NumberFormats ==
  {<<"%", "u">>, <<"%", "x">>, <<"%", "X">>, <<"%", "p">>,
   <<"%", ".", "2", "x">>, <<"%", ".", "3", "u">>}
MCMessages ==
  [format \in NumberFormats |-> {<<v>> : v \in Words}]
  @@ <<"%", "d">> :> {<<v>> : v \in Ints}
  @@ <<"a", "BS", "BS", "%", "c", "\r", "%", "%", "\n">> :> {<<"b">>}
  @@ <<"%", "s">> :>
       {<<<<"a", "b", "c", "d", "e", "BS", "f", "g", "\n", "h", "\r", "i">>>>}
  @@ <<"a", "%", "f">> :> {<<"b">>}
  @@ <<"a", "%">> :> {<<>>}

MCCharacters ==
  Range(Digits \o Upper \o Lower)
  \cup {"P", "L", "N", "p", "x", ":", " ", "-", "%", "b", "s", "r", "(", ")", "m", "u",
        "w", "g", "h", "i", "!"}
=============================================================================
