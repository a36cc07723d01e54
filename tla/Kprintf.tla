------------------------------ MODULE Kprintf -------------------------------
(***************************************************************************)
(* The formats of kprintf in src/common.c: what the scanner does with the  *)
(* characters of a format, and, written another way, what a format means.  *)
(*                                                                         *)
(* A character is a string of length one, a C string a sequence of them    *)
(* that ends in NUL.  An argument is a word: for %s it is an index into    *)
(* Strings, 0 being the null pointer.                                      *)
(***************************************************************************)
EXTENDS Integers, SequencesExt

CONSTANTS
  Base,              (* of print_int_serial (10)                           *)
  Nibble, HexDigits, (* values of a nibble, nibbles of a word (16, 16)     *)
  INT_MOD,           (* an int is a number modulo this (2^32) ...          *)
  LONG_MOD,          (* ... and an int64_t modulo this (2^64)              *)
  Ints, Words,       (* arguments of %d and %x                             *)
  Characters,        (* characters of formats, strings and output          *)
  Strings            (* the strings that arguments of %s point to          *)

Signed(n, mod) == ((n + mod \div 2) % mod) - mod \div 2

(* How far k nibbles shift a word.                                         *)
Power[k \in 0 .. HexDigits] == IF k = 0 THEN 1 ELSE Nibble * Power[k - 1]

hex_chars == <<"0", "1", "2", "3", "4", "5", "6", "7",
               "8", "9", "A", "B", "C", "D", "E", "F">>

ASSUME KprintfAssumption ==
  /\ Base \in 2 .. 16 /\ Nibble \in 2 .. 16 /\ HexDigits \in Nat \ {0}
  /\ INT_MOD \in Nat \ {0} /\ LONG_MOD \in Nat /\ INT_MOD < LONG_MOD
  /\ Ints \subseteq Int /\ \A n \in Ints : Signed(n, INT_MOD) = n
  /\ Words \subseteq 0 .. (Power[HexDigits] - 1)
  /\ {"a", "c", "d", "q", "s", "x", "z", "%", "-", "\n", "(null)", "NUL"} \subseteq Characters
  /\ Range(hex_chars) \subseteq Characters
  /\ Strings \in Seq(Seq(Characters))

Char(digit) == hex_chars[digit + 1]

-----------------------------------------------------------------------------
(* What the code prints *)

(* -n, for an int held in 64 bits.                                         *)
Negate(n) == Signed(-n, LONG_MOD)

(* The digits go into a buffer from the last to the first; a number that   *)
(* is not positive has none.                                               *)
Buffer[n \in Int] ==
  IF n <= 0 THEN <<>> ELSE <<Char(n % Base)>> \o Buffer[n \div Base]

print_int_serial(n) ==
  IF n = 0 THEN <<"0">>
  ELSE IF n < 0 THEN <<"-">> \o Reverse(Buffer[Negate(n)])
  ELSE Reverse(Buffer[n])

print_hex_serial(w) ==
  <<"0", "x">> \o [k \in 1 .. HexDigits |-> Char((w \div Power[HexDigits - k]) % Nibble)]

StringAt(s) == IF s = 0 THEN <<"(null)">> ELSE Strings[s]

(* The character after a % and the arguments left: what is printed, and    *)
(* how many arguments are taken.                                           *)
Convert(c, args) ==
  CASE c = "s" -> [out |-> StringAt(args[1]), taken |-> 1]
    [] c = "d" -> [out |-> print_int_serial(args[1]), taken |-> 1]
    [] c = "c" -> [out |-> <<Char(args[1])>>, taken |-> 1]
    [] c = "x" -> [out |-> print_hex_serial(args[1]), taken |-> 1]
    [] c = "%" -> [out |-> <<"%">>, taken |-> 0]
    [] OTHER -> [out |-> <<"%", c>>, taken |-> 0]

-----------------------------------------------------------------------------
(* What a format means: a sequence of directives, each with its text, the  *)
(* arguments it needs and the output it stands for.  A number is the       *)
(* numeral whose value it is.                                              *)
Value(digits, base) ==
  LET value[k \in 0 .. Len(digits)] == IF k = 0 THEN 0 ELSE value[k - 1] * base + digits[k]
  IN  value[Len(digits)]

DigitsOf(n, len, base) == {ds \in [1 .. len -> 0 .. base - 1] : Value(ds, base) = n}

Numeral(n, len, base) ==
  LET digits == CHOOSE ds \in DigitsOf(n, len, base) : TRUE
  IN  [k \in 1 .. len |-> Char(digits[k])]

(* A decimal does not begin with a zero.                                   *)
Length(n) == CHOOSE len \in 1 .. n : \E ds \in DigitsOf(n, len, Base) : ds[1] # 0
Decimal(n) ==
  CASE n = 0 -> <<"0">>
    [] n > 0 -> Numeral(n, Length(n), Base)
    [] n < 0 -> <<"-">> \o Numeral(-n, Length(-n), Base)

Directive(text, args, output) == [text |-> text, args |-> args, output |-> output]

(* A % at the end of the format, which means nothing.                      *)
LonePercent == Directive(<<"%">>, <<>>, <<>>)

Directives ==
  {LonePercent,
   Directive(<<"a">>, <<>>, <<"a">>),
   Directive(<<"%", "%">>, <<>>, <<"%">>),
   Directive(<<"%", "q">>, <<>>, <<"%", "q">>),
   Directive(<<"%", "c">>, <<3>>, <<Char(3)>>),
   Directive(<<"%", "s">>, <<0>>, <<"(null)">>)}
  \cup {Directive(<<"%", "s">>, <<s>>, Strings[s]) : s \in DOMAIN Strings}
  \cup {Directive(<<"%", "d">>, <<n>>, Decimal(n)) : n \in Ints}
  \cup {Directive(<<"%", "x">>, <<w>>, <<"0", "x">> \o Numeral(w, HexDigits, Nibble)) : w \in Words}

Texts(ds) == FlattenSeq([k \in DOMAIN ds |-> ds[k].text])
Arguments(ds) == FlattenSeq([k \in DOMAIN ds |-> ds[k].args])
Outputs(ds) == FlattenSeq([k \in DOMAIN ds |-> ds[k].output])
=============================================================================
