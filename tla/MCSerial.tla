------------------------------ MODULE MCSerial ------------------------------
(***************************************************************************)
(* Formats of up to two directives, with ints of four bits in words of     *)
(* eight, so that the smallest int, whose negation is none, is among them. *)
(***************************************************************************)
EXTENDS Serial

MCInts == {-8, -1, 0, 3}
MCStrings == <<<<"s">>, <<>>>>
MCCharacters ==
  {"a", "c", "d", "q", "s", "x", "z", "%", "-", "\n", "(null)", "NUL"} \cup Range(hex_chars)
MCBanner == <<"D">>

MCLeftBehind ==
  {[dll |-> 1, dlm |-> 0, lcr |-> 3, fcr |-> 0], [dll |-> 1, dlm |-> 1, lcr |-> 131, fcr |-> 0]}

(* Every directive alone, pairs in which each kind comes after each, and a *)
(* lone % at the end.                                                      *)
Mixed == {d \in Directives : d.text \in {<<"a">>, <<"%", "d">>, <<"%", "s">>, <<"%", "%">>}
                             /\ d.args \in {<<>>, <<-8>>, <<1>>}}
MCFormats ==
  {<<>>, <<Directive(<<"a">>, <<>>, <<"a">>), LonePercent>>}
    \cup {<<d>> : d \in Directives} \cup {<<d, e>> : d, e \in Mixed}
=============================================================================
