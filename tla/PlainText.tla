-------------------------------- MODULE PlainText --------------------------------
(***************************************************************************)
(* Integers as plain text (wakaama/utils.c): what a read of one resource   *)
(* returns and a write of one carries.                                     *)
(*                                                                         *)
(* A text is a sequence of digits and of the characters below.  An int64_t *)
(* is one of INT64_SPACE numbers, 2^64 of which all that matters is that   *)
(* it is even, ends in a 6 and leaves room for a few digits: 2^8 does.     *)
(***************************************************************************)
EXTENDS Integers, Sequences

CONSTANT INT64_SPACE   \* 2^64

ASSUME TextAssumption ==
  INT64_SPACE \in Nat /\ INT64_SPACE % 2 = 0 /\ INT64_SPACE % 10 = 6 /\ INT64_SPACE > 16

Digit == 0 .. 9
Minus == -1   \* '-'
Dot == -2     \* '.'
Junk == -3    \* any other character
Character == Digit \cup {Minus, Dot, Junk}

NoNumber == INT64_SPACE   \* the value 0 of a conversion: no number
UINT64_MAX == INT64_SPACE - 1
INT64_MAX == (INT64_SPACE \div 2) - 1
INT64_MIN == -(INT64_SPACE \div 2)
Int64 == INT64_MIN .. INT64_MAX
ToInt64(n) == IF n % INT64_SPACE <= INT64_MAX THEN n % INT64_SPACE
                                              ELSE (n % INT64_SPACE) - INT64_SPACE

Negative(text) == text # <<>> /\ text[1] = Minus
Unsigned(text) == IF Negative(text) THEN Tail(text) ELSE text
WithSign(text, n) == IF Negative(text) THEN -n ELSE n

\* One more digit of lwm2m_PlainTextToInt64, in a uint64_t: the product fits, the
\* sum may not.
MoreDigits(result, c) ==
  IF result = NoNumber \/ c \notin Digit \/ result > UINT64_MAX \div 10 THEN NoNumber
  ELSE (result * 10 + c) % INT64_SPACE

lwm2m_PlainTextToInt64(text) ==
  LET body == Unsigned(text)
      result[i \in 0 .. Len(body)] == IF i = 0 THEN 0 ELSE MoreDigits(result[i - 1], body[i])
      n == result[Len(body)]
  IN  IF text = <<>> \/ n = NoNumber \/ n > INT64_MAX THEN NoNumber ELSE WithSign(text, n)

\* The digits of a number, the last one first in the code.  The lowest int64_t is
\* its own opposite: one character below '0' comes of it and the loop ends.
digits[n \in 0 .. INT64_MAX] ==
  IF n < 10 THEN <<n>> ELSE Append(digits[n \div 10], n % 10)
prv_intToText(data) ==
  LET n == ToInt64(0 - data)
  IN  IF data >= 0 THEN digits[data]
      ELSE IF n < 0 THEN <<Minus, Junk>> ELSE <<Minus>> \o digits[n]

-----------------------------------------------------------------------------
(* What the texts should be. *)

\* The numbers the beginnings of a sequence of digits say, however large: the loop of
\* lwm2m_PlainTextToFloat64 up to the dot too (see Text).
Said(body) ==
  LET said[i \in 0 .. Len(body)] == IF i = 0 THEN 0 ELSE 10 * said[i - 1] + body[i]
  IN  said
Says(text) == WithSign(text, Said(Unsigned(text))[Len(Unsigned(text))])

OnlyDigits(body) == \A k \in DOMAIN body : body[k] \in Digit

\* The one way to get past the limit: digits that say one of the four numbers after
\* the largest uint64_t, whatever follows them.
WrapsAround(text) ==
  \E k \in DOMAIN Unsigned(text) :
    Said(Unsigned(text))[k] \in INT64_SPACE .. INT64_SPACE + 3

\* A written number is read as what it says, and refused if it is too large for an
\* int64_t, unless it wraps around; a lone '-' is 0, the lowest int64_t is refused.
ReadForWhatItSays(text) ==
  LET n == lwm2m_PlainTextToInt64(text)
  IN  IF text = <<>> \/ ~OnlyDigits(Unsigned(text)) THEN n = NoNumber
      ELSE \/ WrapsAround(text)
           \/ n = IF Says(text) \in Int64 \ {INT64_MIN} THEN Says(text) ELSE NoNumber

\* What is read of an integer is what it holds; the lowest one is read as no number
\* rather than as another one.
IntegerReadsBack ==
  \A n \in Int64 :
    lwm2m_PlainTextToInt64(prv_intToText(n)) = IF n = INT64_MIN THEN NoNumber ELSE n
=============================================================================
