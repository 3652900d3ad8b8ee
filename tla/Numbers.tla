------------------------------ MODULE Numbers ------------------------------
(***************************************************************************)
(* mConvertInt of src/util/mPrint.cpp: the digits of an int in a base, the *)
(* last one first.  In base 10 the code divides by a multiplication: with  *)
(* FACTOR_32 = (2^32 + 4) / 10 the upper half of FACTOR_32 * x is the      *)
(* tenth of x or one more, and the loop on r takes the one back.  The      *)
(* width of the numbers is a parameter here, so that TLC can use a small   *)
(* one with a factor of the same form.                                     *)
(*                                                                         *)
(* A digit is its value, the character '-' is Minus.                       *)
(***************************************************************************)
EXTENDS Integers, Sequences

CONSTANTS FACTOR_32,  \* (2^width + 4) / 10
          Patterns    \* the words that are printed

Word == 10 * FACTOR_32 - 4  \* 2^width

ASSUME FactorAssumption == FACTOR_32 \in Nat \ {0}
ASSUME PatternsAssumption == Patterns \subseteq 0 .. Word - 1

Minus == 16

\* A word as an int, and an int as a uint.
int(w)   == IF 2 * w >= Word THEN w - Word ELSE w
uint(xx) == xx % Word

\* Mutant of tenth: the upper half is taken for the tenth.
tenthUncorrected(x) ==
  LET q == (FACTOR_32 * x) \div Word
      r == x - 10 * q
  IN  [q |-> q, r |-> IF r < 0 THEN 0 ELSE r]

\* One round of the loop for base 10; up is how often "while (r < 0)" runs.
tenth(x) ==
  LET q  == (FACTOR_32 * x) \div Word
      r  == x - 10 * q
      up == IF r < 0 THEN (9 - r) \div 10 ELSE 0
  IN  [q |-> q - up, r |-> r + 10 * up]

\* The loops of the other bases: masks and shifts where the base is a power
\* of 2.
round(x, base) ==
  IF base = 10 THEN tenth(x) ELSE [q |-> x \div base, r |-> x % base]

digits(base) ==
  LET from[x \in 0 .. Word - 1] ==
        LET d == round(x, base)
        IN  <<d.r>> \o (IF d.q = 0 THEN <<>> ELSE from[d.q])
  IN  from

\* With sgn set -xx is taken in the width of an int: the least int stays
\* what it is, and is the right uint.
mConvertInt(xx, base, sgn) ==
  LET neg == sgn /\ xx < 0
      x   == IF neg THEN uint(-xx) ELSE uint(xx)
  IN  IF base \notin 2 .. 16 THEN <<>>
      ELSE digits(base)[x] \o (IF neg THEN <<Minus>> ELSE <<>>)

\* The calls of mPrintInt: as a signed or an unsigned number in base 10, and
\* for a pointer in base 16.
Lines ==
  [xx : {int(w) : w \in Patterns}, base : {10}, sgn : BOOLEAN]
  \cup [xx : {int(w) : w \in Patterns}, base : {16}, sgn : {FALSE}]

-----------------------------------------------------------------------------
\* The number a text of digits stands for, the first digit first.
Value(text, base) ==
  LET upTo[i \in 0 .. Len(text)] ==
        IF i = 0 THEN 0 ELSE base * upTo[i - 1] + text[i]
  IN  upTo[Len(text)]

\* The text is the way to write the number, without leading zeros.
Writes(text, l) ==
  LET neg  == l.sgn /\ l.xx < 0
      body == IF neg THEN Tail(text) ELSE text
  IN  /\ neg => text[1] = Minus
      /\ \A i \in DOMAIN body : body[i] \in 0 .. l.base - 1
      /\ Len(body) > 1 => body[1] # 0
      /\ Value(body, l.base) = IF neg THEN -l.xx ELSE uint(l.xx)
=============================================================================
