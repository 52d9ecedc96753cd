------------------------------- MODULE CoapOption -------------------------------
(***************************************************************************)
(* One option of a CoAP message as bytes (er-coap-13.c): the header with   *)
(* its number, counted from the option before, and its length, and the     *)
(* number an option may hold.                                              *)
(***************************************************************************)
EXTENDS Integers, Sequences

coap_option_nibble(n) == IF n < 13 THEN n ELSE IF n <= 268 THEN 13 ELSE 14

Extension(n) == IF n > 268 THEN <<((n - 269) \div 256) % 256, (n - 269) % 256>>
                ELSE IF n > 12 THEN <<n - 13>> ELSE <<>>
coap_set_option_header(delta, length) ==
  <<16 * coap_option_nibble(delta) + coap_option_nibble(length)>>
    \o Extension(delta) \o Extension(length)

\* The value of a nibble, and where what follows it begins.
Extended(bytes, nibble, at) ==
  IF nibble = 13 THEN [value |-> 13 + bytes[at], next |-> at + 1]
  ELSE IF nibble = 14 THEN [value |-> 269 + 256 * bytes[at] + bytes[at + 1], next |-> at + 2]
  ELSE [value |-> nibble, next |-> at]
OptionHeader(bytes, at) ==
  LET delta == Extended(bytes, bytes[at] \div 16, at + 1)
      length == Extended(bytes, bytes[at] % 16, delta.next)
  IN  [delta |-> delta.value, length |-> length.value, next |-> length.next]

-----------------------------------------------------------------------------
\* A number without its leading zero bytes: none at all for 0.
coap_serialize_int(n) ==
  LET bytes == <<n \div 16777216, (n \div 65536) % 256, (n \div 256) % 256, n % 256>>
      skip == IF n >= 16777216 THEN 0 ELSE IF n >= 65536 THEN 1 ELSE IF n >= 256 THEN 2
              ELSE IF n > 0 THEN 3 ELSE 4
  IN  SubSeq(bytes, skip + 1, 4)

coap_parse_int_option(bytes) ==
  LET var[i \in 0 .. Len(bytes)] == IF i = 0 THEN 0 ELSE 256 * var[i - 1] + bytes[i]
  IN  var[Len(bytes)]
=============================================================================
