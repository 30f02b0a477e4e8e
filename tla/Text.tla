-------------------------------- MODULE Text --------------------------------
(***************************************************************************)
(* Numbers and text: sprintf (libc/stdio.cpp) and strtoll                  *)
(* (libc/stdlib.cpp).  A text is a sequence of characters; what follows    *)
(* the end of a C string is no part of it.                                 *)
(***************************************************************************)
EXTENDS Integers, SequencesExt

CONSTANTS
  NibbleCount,   (* nibble_count: hexadecimal digits of a size_t           *)
  DigitsInMax    (* digits_in_max: decimal digits of the largest size_t    *)

Word == 16 ^ NibbleCount

ASSUME TextAssumption ==
  /\ NibbleCount \in Nat \ {0} /\ DigitsInMax \in Nat
  /\ Word <= 10 ^ DigitsInMax

Digits == <<"0", "1", "2", "3", "4", "5", "6", "7", "8", "9">>
Upper  == <<"A", "B", "C", "D", "E", "F">>
Lower  == <<"a", "b", "c", "d", "e", "f">>

(* ctype.cpp, for the letters that are digits of some base here.           *)
isdigit(c) == Contains(Digits, c)
isalpha(c) == Contains(Upper, c) \/ Contains(Lower, c)
isspace(c) == c \in {"\r", "\t", " "}

DigitValue(c) == IndexFirstSubSeq(<<c>>, Digits) - 1
LetterIndex(c) == IF Contains(Upper, c) THEN IndexFirstSubSeq(<<c>>, Upper) - 1
                                        ELSE IndexFirstSubSeq(<<c>>, Lower) - 1

(* What a register of this width makes of a number, read as signed.        *)
Signed(n) == ((n + Word \div 2) % Word) - Word \div 2

-----------------------------------------------------------------------------
(* sprintf                                                                 *)

(* Mutant: a zero behind the first digit is left out, too.                 *)
NumeralDroppingZeros(base, count, v, padding) ==
  LET digit(i) == (v \div base ^ (count - i)) % base
      shown == {i \in 1..count : digit(i) # 0 \/ padding > count - i}
  IN [k \in 1..Cardinality(shown) |->
       digit(CHOOSE i \in shown : Cardinality({j \in shown : j < i}) = k - 1)]

(* The loop of to_string_hex and of to_string_unsigned: zeros in front are *)
(* left out except in the last padding places.                             *)
Numeral(base, count, v, padding) ==
  LET digit(i) == (v \div base ^ (count - i)) % base
      shown == {i \in 1..count : \/ padding > count - i
                                 \/ \E j \in 1..i : digit(j) # 0}
  IN [k \in 1..Cardinality(shown) |-> digit(count - Cardinality(shown) + k)]

to_string_hex(v, padding, uppercase) ==
  LET Character == Digits \o (IF uppercase THEN Upper ELSE Lower)
      nibbles == Numeral(16, NibbleCount, v, padding)
  IN [k \in DOMAIN nibbles |-> Character[nibbles[k] + 1]]

to_string_unsigned(v, padding) ==
  LET digits == Numeral(10, DigitsInMax, v, padding)
  IN [k \in DOMAIN digits |-> Digits[digits[k] + 1]]

to_string_signed(v, padding) ==
  IF v < 0 THEN <<"-">> \o to_string_unsigned(-v, padding)
           ELSE to_string_unsigned(v, padding)

(* handle_integer and handle_other: what one specifier makes of its        *)
(* argument.                                                               *)
Specifiers == {"x", "X", "i", "d", "u", "p", "s", "c", "%"}
Converted(specifier, padding, arg) ==
  CASE specifier = "x" -> to_string_hex(arg, padding, FALSE)
    [] specifier = "X" -> to_string_hex(arg, padding, TRUE)
    [] specifier \in {"i", "d"} -> to_string_signed(arg, padding)
    [] specifier = "u" -> to_string_unsigned(arg, padding)
    [] specifier = "p" -> <<"0", "x">> \o to_string_hex(arg, NibbleCount, TRUE)
    [] specifier = "s" -> arg
    [] specifier = "c" -> <<arg>>

string_to_padding(digits) == FoldLeft(LAMBDA n, c : 10 * n + DigitValue(c), 0, digits)

(* The digits of format from index i on.                                   *)
DigitsFrom(format, i) ==
  LET end == CHOOSE j \in i..(Len(format) + 1) :
               /\ \A k \in i..(j - 1) : isdigit(format[k])
               /\ j <= Len(format) => ~isdigit(format[j])
  IN SubSeq(format, i, end - 1)

Failure(warning) == [ok |-> FALSE, text |-> warning]
Following(prefix, result) == IF result.ok THEN [result EXCEPT !.text = prefix \o @]
                                          ELSE result

(* The loop over the format from its index i and argument a on.  It fails  *)
(* where the format ends before a specifier, and with a warning that shows *)
(* it where the specifier is unknown.                                      *)
sprintf_impl(format, args) ==
  LET At(i) == IF i <= Len(format) THEN format[i] ELSE "NUL"
      padded(i) == At(i + 1) = "."
      digits(i) == IF padded(i) THEN DigitsFrom(format, i + 2) ELSE <<>>
      padding(i) == IF padded(i) THEN string_to_padding(digits(i)) ELSE 1
      specifier(i) == IF padded(i) THEN i + 2 + Len(digits(i)) ELSE i + 1
      from[i \in 1..(Len(format) + 1), a \in 1..(Len(args) + 1)] ==
        CASE i > Len(format) -> [ok |-> TRUE, text |-> <<>>]
          [] i <= Len(format) /\ format[i] # "%" ->
               Following(<<format[i]>>, from[i + 1, a])
          [] OTHER ->
               LET s == specifier(i)
               IN IF At(s) \notin Specifiers
                  THEN Failure(IF s > Len(format) /\ digits(i) = <<>> THEN <<>> ELSE <<"!", At(s), "\n">>)
                  ELSE IF At(s) = "%" THEN Following(<<"%">>, from[s + 1, a])
                  ELSE Following(Converted(At(s), padding(i), args[a]), from[s + 1, a + 1])
  IN from[1, 1]

-----------------------------------------------------------------------------
(* strtoll                                                                 *)

(* How much of text belongs to the number.  The base itself is let through *)
(* as a digit, and a letter counts from the base on as if there were no    *)
(* decimal digits.                                                         *)
Accepted(c, base) == \/ isalpha(c) /\ LetterIndex(c) <= base
                     \/ isdigit(c) /\ DigitValue(c) <= base
NumberLength(text, base) ==
  CHOOSE n \in 0..Len(text) :
    /\ \A k \in 1..n : Accepted(text[k], base)
    /\ n < Len(text) => ~Accepted(text[n + 1], base)

ValueOf(c) == IF isdigit(c) THEN DigitValue(c) ELSE LetterIndex(c) + 10

(* Powers and products are ints, whose sum is a long long.                 *)
SumOfDigits(number, base) ==
  LET Term(k) == Signed(Signed(base ^ (Len(number) - k)) * ValueOf(number[k]))
  IN FoldLeft(LAMBDA sum, k : sum + Term(k), 0, [k \in 1..Len(number) |-> k])

(* Without a digit the loop runs over what lies before the string, until   *)
(* an assertion fails: there is no result.                                 *)
Number(text, base, negative) ==
  LET n == NumberLength(text, base)
      value == SumOfDigits(SubSeq(text, 1, n), base)
  IN IF n = 0 THEN <<>> ELSE <<IF negative THEN -value ELSE value>>

strtoll(string, base) ==
  LET start == CHOOSE n \in 0..Len(string) :
                 /\ \A k \in 1..n : isspace(string[k])
                 /\ n < Len(string) => ~isspace(string[n + 1])
      unspaced == SubSeq(string, start + 1, Len(string))
      Begins(prefix) == IsPrefix(prefix, unspaced)
      signed == Begins(<<"-">>) \/ Begins(<<"+">>)
      text == IF signed THEN Tail(unspaced) ELSE unspaced
      hex == base = 0 /\ Len(text) > 2 /\ IsPrefix(<<"0", "x">>, text)
      octal == base = 0 /\ ~hex /\ IsPrefix(<<"0">>, text)
  IN IF (base # 0 /\ base < 2) \/ base >= 36 THEN <<0>>
     ELSE Number(IF hex THEN SubSeq(text, 3, Len(text)) ELSE text,
                 IF hex THEN 16 ELSE IF octal THEN 8 ELSE base, Begins(<<"-">>))
=============================================================================
