---------------------------------- MODULE Text ----------------------------------
(***************************************************************************)
(* Numbers as plain text (wakaama/utils.c): floats, and what should be     *)
(* true of texts of numbers.  A double is counted in eighths, the          *)
(* resolution of the temperature sensor, and what the digits of such a     *)
(* number add up to is exact.                                              *)
(***************************************************************************)
EXTENDS PlainText, FiniteSetsExt

CONSTANTS
  Texts,        \* texts a server may write
  Temperatures  \* what the sensor may measure, in eighths

(* Doubles, in eighths. *)

\* The division of C, which truncates towards zero.
Truncated(a, b) == IF a >= 0 THEN a \div b ELSE -((-a) \div b)

\* Texts are made of characters; the whole part of a temperature fits into an int64_t.
ASSUME FloatAssumption ==
  /\ Texts \subseteq Seq(Character)
  /\ \A n \in Temperatures : n \in Int /\ Truncated(n, 8) \in Int64 \ {INT64_MIN}

\* The digits of k eighths behind the dot, up to the last that is not 0.
decimals[k \in 0 .. 7] == IF k = 0 THEN <<>> ELSE
  LET Ten(j) == 10 * j   \* decPart *= 10, without its whole part
  IN  IF Ten(k) % 8 = 0 THEN <<Ten(k) \div 8>>
      ELSE IF Ten(Ten(k)) % 8 = 0 THEN <<Ten(k) \div 8, Ten(Ten(k)) \div 8 % 10>>
      ELSE <<Ten(k) \div 8, Ten(Ten(k)) \div 8 % 10, Ten(Ten(Ten(k))) \div 8 % 10>>

\* The sign is written with the whole part, which has none when it is 0.
lwm2m_float64ToPlainText(data) ==
  LET fraction == IF data >= 0 THEN data % 8 ELSE (-data) % 8
  IN  prv_intToText(Truncated(data, 8))
        \o IF fraction = 0 THEN <<>> ELSE <<Dot>> \o decimals[fraction]

\* The text behind the dot, in thousandths.
Thousandths(text) ==
  LET at(k) == IF k <= Len(text) THEN text[k] ELSE 0
  IN  100 * at(1) + 10 * at(2) + at(3)

\* lwm2m_PlainTextToFloat64 of at most three digits behind the dot, in thousandths;
\* the character after the last one, which it looks at too, is not a dot.
lwm2m_PlainTextToFloat64(text) ==
  LET body == Unsigned(text)
      dots == {k \in DOMAIN body : body[k] = Dot}
      whole == IF dots = {} THEN body ELSE SubSeq(body, 1, Min(dots) - 1)
      rest == IF dots = {} THEN <<>> ELSE SubSeq(body, Min(dots) + 1, Len(body))
  IN  IF \/ text = <<>> \/ (dots # {} /\ rest = <<>>)
         \/ \E k \in DOMAIN whole : whole[k] \notin Digit
         \/ \E k \in DOMAIN rest : rest[k] \notin Digit
        THEN NoNumber * 1000
        ELSE WithSign(text, 1000 * Said(whole)[Len(whole)] + Thousandths(rest))

-----------------------------------------------------------------------------
(* Properties. *)

\* Every text is read for what it says (see PlainText).
TextReadAsWritten == \A text \in Texts : ReadForWhatItSays(text)

\* What is read of a temperature is the temperature, but for its sign between -1
\* and 0 degrees, which is lost.
TemperatureReadsBack ==
  \A n \in Temperatures :
    lwm2m_PlainTextToFloat64(lwm2m_float64ToPlainText(n)) = 125 * IF n \in -7 .. -1 THEN -n ELSE n
=============================================================================
