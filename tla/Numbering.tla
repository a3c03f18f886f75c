------------------------------- MODULE Numbering -------------------------------
(***************************************************************************)
(* Outline labels (services/numbering.py).  A counter is a positive number *)
(* and a label a sequence of digits, letters and marks: two labels are     *)
(* equal when they print alike.                                            *)
(***************************************************************************)
EXTENDS Naturals, Sequences

CONSTANT Alphabet   (* the letters a to z                                  *)

Letters == {Alphabet[n] : n \in DOMAIN Alphabet}

\* What counters are written with.
Sign == Letters \union {"0", "1", "2", "3", "4", "5", "6", "7", "8", "9"}
                \union {"i", "v", "x", "l", "c", "d", "m"}

ASSUME NumberingAssumption ==
  /\ Alphabet \in Seq(Letters) /\ Alphabet # <<>> /\ "." \notin Letters
  /\ \A i, j \in DOMAIN Alphabet : Alphabet[i] = Alphabet[j] => i = j

\* A style is a kind of counter and whether a parenthesis closes it; upper and
\* lower case tell no two labels of a document apart.
Style == [kind : {"decimal", "alpha", "roman"}, paren : BOOLEAN]

Decimal == [kind |-> "decimal", paren |-> FALSE]

DefaultStyles(scheme) ==
  IF scheme = "legal" THEN <<Decimal>>
  ELSE <<Decimal, [kind |-> "alpha", paren |-> FALSE], [kind |-> "decimal", paren |-> TRUE],
         [kind |-> "alpha", paren |-> TRUE], [kind |-> "roman", paren |-> TRUE]>>

Digits == <<"0", "1", "2", "3", "4", "5", "6", "7", "8", "9">>

ToDecimal[n \in Nat] ==
  IF n < 10 THEN <<Digits[n + 1]>> ELSE Append(ToDecimal[n \div 10], Digits[(n % 10) + 1])

\* 1 is a, one more than the letters is aa: a numeral system without a zero.
ToAlpha[n \in Nat] ==
  IF n = 0 THEN <<>>
  ELSE Append(ToAlpha[(n - 1) \div Len(Alphabet)], Alphabet[((n - 1) % Len(Alphabet)) + 1])

Amounts == {1, 4, 5, 9, 10, 40, 50, 90, 100, 400, 500, 900, 1000}

Numeral(amount) ==
  CASE amount = 1    -> <<"i">> [] amount = 4   -> <<"i", "v">> [] amount = 5   -> <<"v">>
    [] amount = 9    -> <<"i", "x">> [] amount = 10  -> <<"x">> [] amount = 40  -> <<"x", "l">>
    [] amount = 50   -> <<"l">> [] amount = 90  -> <<"x", "c">> [] amount = 100 -> <<"c">>
    [] amount = 400  -> <<"c", "d">> [] amount = 500 -> <<"d">> [] amount = 900 -> <<"c", "m">>
    [] amount = 1000 -> <<"m">>

Largest(n) == CHOOSE a \in Amounts : a <= n /\ \A b \in Amounts : b <= n => b <= a

\* The amounts are taken off greedily, the largest first.
ToRoman[n \in Nat] ==
  IF n = 0 THEN <<>> ELSE Numeral(Largest(n)) \o ToRoman[n - Largest(n)]

FormatCounter(n, style) ==
  CASE style.kind = "decimal" -> ToDecimal[n]
    [] style.kind = "alpha"   -> ToAlpha[n]
    [] style.kind = "roman"   -> ToRoman[n]

\* Deeper than the styles reach, the last one serves.
StyleFor(styles, depth) ==
  styles[IF depth <= Len(styles) THEN depth ELSE Len(styles)]

\* The parts with the separator between them.
Dotted(parts) ==
  LET upTo[d \in DOMAIN parts] ==
        IF d = 1 THEN parts[1] ELSE upTo[d - 1] \o <<".">> \o parts[d]
  IN upTo[Len(parts)]

Label(scheme, chosen, counters) ==
  LET styles == IF chosen = <<>> THEN DefaultStyles(scheme) ELSE chosen
      depth == Len(counters)
      parts == [d \in DOMAIN counters |-> FormatCounter(counters[d], StyleFor(styles, d))]
  IN IF scheme = "outline"
     THEN Append(parts[depth], IF StyleFor(styles, depth).paren THEN ")" ELSE ".")
     ELSE IF depth = 1 THEN Append(parts[1], ".") ELSE Dotted(parts)
=============================================================================
