--------------------------------- MODULE Codec ---------------------------------
(***************************************************************************)
(* CoAP messages as bytes (er-coap-13.c): how the options that this client *)
(* sets and reads are measured and written one behind the other (see       *)
(* CoapOption for one by itself), how a datagram is taken apart again, and *)
(* how a Location-Path becomes the text registration.c keeps and the       *)
(* Uri-Path it makes of it.                                                *)
(*                                                                         *)
(* A message has a value for each option that is set: a number, the strings*)
(* of a list, or a block.  Options the client never reads are skipped.     *)
(***************************************************************************)
EXTENDS CoapOption, FiniteSetsExt

CONSTANTS
  Messages,  \* messages to be written
  Locations  \* the segments of Location-Paths

OBSERVE == 6
LOCATION_PATH == 8
URI_PATH == 11
URI_QUERY == 15
BLOCK2 == 23
BLOCK1 == 27
PROXY_URI == 35
Slash == 47
Mark == 63   \* "?"
And == 38    \* "&"
Multis == {LOCATION_PATH, URI_PATH, URI_QUERY}
BlockOptions == {BLOCK2, BLOCK1}
\* In the order of their numbers.
Order == <<OBSERVE, LOCATION_PATH, URI_PATH, URI_QUERY, BLOCK2, BLOCK1>>
Skipped == {1, 3, 4, 5, 7, 12, 14, 17, 20, 28}   \* known, and read by nobody

COAP_TOKEN_LEN == 8
COAP_MAX_HEADER_SIZE == 70

NoOptions == <<>>

Byte == 0 .. 255
Below(n) == {k \in Nat : k < n}
ShortString == {s \in Seq(Byte) : Len(s) <= 255}
BlockSizes == {16, 32, 64, 128, 256, 512, 1024, 2048}
ObserveValue == Below(16777216)
BlockValue == [num : Below(1048576), more : BOOLEAN, size : BlockSizes]

\* The values an option may have, none of them longer than its length can say.
OptionValue(number) ==
  CASE number = OBSERVE -> ObserveValue
    [] number \in BlockOptions -> BlockValue
    [] OTHER -> Seq(ShortString) \ {<<>>}

\* A message as the setters below leave it, if the sizes of its blocks are powers of two.
coap_packet_t(m) ==
  /\ m = [type |-> m.type, code |-> m.code, mid |-> m.mid, token |-> m.token,
          options |-> m.options, payload |-> m.payload]
  /\ m.type \in 0 .. 3 /\ m.code \in Byte /\ m.mid \in Below(65536)
  /\ m.token \in Seq(Byte) /\ Len(m.token) <= COAP_TOKEN_LEN
  /\ m.payload \in Seq(Byte)
  /\ m.options = [n \in DOMAIN m.options |-> m.options[n]]
  /\ \A n \in DOMAIN m.options :
       n \in Multis \cup BlockOptions \cup {OBSERVE} /\ m.options[n] \in OptionValue(n)

ASSUME CodecAssumption ==
  /\ \A m \in Messages : coap_packet_t(m)
  /\ Locations \subseteq Seq(Seq(Byte))

-----------------------------------------------------------------------------
(* Building a message. *)

coap_init_message(type, code, mid) ==
  [type |-> type, code |-> code, mid |-> mid, token |-> <<>>, options |-> NoOptions, payload |-> <<>>]

\* An option is set, or set anew.
SET_OPTION(m, number, v) ==
  [m EXCEPT !.options = [n \in DOMAIN @ \cup {number} |-> IF n = number THEN v ELSE @[n]]]

coap_set_header_token(m, token) ==
  [m EXCEPT !.token = SubSeq(token, 1, IF Len(token) < COAP_TOKEN_LEN THEN Len(token) ELSE COAP_TOKEN_LEN)]
coap_set_header_observe(m, n) == SET_OPTION(m, OBSERVE, n % 16777216)
coap_set_payload(m, payload) == [m EXCEPT !.payload = payload]

\* A block that the option cannot say is refused, and the message left as it was.
coap_set_header_block(m, number, num, more, size) ==
  IF size \notin 16 .. 2048 \/ num > 1048575 THEN m
  ELSE SET_OPTION(m, number, [num |-> num, more |-> more, size |-> size])

\* A text up to the 0 that ends it.
CString(text) ==
  LET zeros == {i \in DOMAIN text : text[i] = 0}
  IN  IF zeros = {} THEN text ELSE SubSeq(text, 1, Min(zeros) - 1)

\* The next segment of a text, if there is one: up to a separator or the end.
NextSegment(text, split, out) ==
  IF out.segments # <<>> /\ out.at > Len(text) THEN out ELSE
  LET i == Min({k \in out.at .. Len(text) : text[k] = split} \cup {Len(text) + 1})
  IN  [segments |-> Append(out.segments, SubSeq(text, out.at, i - 1)), at |-> i + 1]

\* A text cut at each separator: into one segment at least, but one at the very end
\* begins none.
Cut(text, split) ==
  LET out[k \in 0 .. Len(text) + 1] ==
        IF k = 0 THEN [segments |-> <<>>, at |-> 1]
        ELSE NextSegment(text, split, out[k - 1])
  IN  out[Len(text) + 1].segments

\* A mark may precede it.
Segmented(text, mark, split) ==
  LET string == CString(text)
  IN  Cut(IF string # <<>> /\ string[1] = mark THEN Tail(string) ELSE string, split)
coap_set_header_path(m, number, text) == SET_OPTION(m, number, Segmented(text, Slash, Slash))
coap_set_header_uri_query(m, text) == SET_OPTION(m, URI_QUERY, Segmented(text, Mark, And))

\* Sequences one behind the other.
Flat(pieces) ==
  LET out[k \in 0 .. Len(pieces)] == IF k = 0 THEN <<>> ELSE out[k - 1] \o pieces[k]
  IN  out[Len(pieces)]

coap_get_multi_option_as_string(segments) ==
  Flat([k \in DOMAIN segments |-> <<Slash>> \o segments[k]])

-----------------------------------------------------------------------------
(* Writing. *)

Bit[k \in 0 .. 15] == IF k = 0 THEN 1 ELSE 2 * Bit[k - 1]   \* 1 << k

\* The position of the highest bit.
coap_log_2(n) == IF n = 0 THEN 0 ELSE Max({k \in 0 .. 15 : Bit[k] <= n})

Block_MoreBesideSize(b) == 16 * b.num + (IF b.more THEN 4 ELSE 0) + coap_log_2(b.size \div 16)
Block(b) == 16 * b.num + (IF b.more THEN 8 ELSE 0) + coap_log_2(b.size \div 16)

\* The strings an option writes; a string of a list has a length of one byte.
Strings(number, v) ==
  CASE number \in Multis -> [k \in DOMAIN v |-> SubSeq(v[k], 1, Len(v[k]) % 256)]
    [] number \in BlockOptions -> <<coap_serialize_int(Block(v))>>
    [] OTHER -> <<coap_serialize_int(v)>>

\* The strings of one option, the first under its number, the others under delta 0.
coap_serialize_option(number, current, strings) ==
  Flat([k \in DOMAIN strings |->
          coap_set_option_header(IF k = 1 THEN number - current ELSE 0, Len(strings[k]))
            \o strings[k]])

\* Each option that is set counts as the last one written.
WithOption(options, number, out) ==
  IF number \notin DOMAIN options THEN out
  ELSE [bytes |-> out.bytes \o coap_serialize_option(number, out.current,
                                                     Strings(number, options[number])),
        current |-> number]
coap_serialize_options(options) ==
  LET out[k \in 0 .. Len(Order)] ==
        IF k = 0 THEN [bytes |-> <<>>, current |-> 0]
        ELSE WithOption(options, Order[k], out[k - 1])
  IN  out[Len(Order)].bytes

\* The bytes of a message, none if its header is too long.
coap_serialize_message(m) ==
  LET header == <<64 + 16 * m.type + Len(m.token), m.code, m.mid \div 256, m.mid % 256>>
                  \o m.token \o coap_serialize_options(m.options)
  IN  IF Len(header) > COAP_MAX_HEADER_SIZE THEN <<>>
      ELSE header \o (IF m.payload = <<>> THEN <<>> ELSE <<255>> \o m.payload)

-----------------------------------------------------------------------------
(* Reading. *)

\* An option that has been read; a list grows, anything else is replaced.
Taken(m, number, s) ==
  CASE number = OBSERVE -> SET_OPTION(m, number, coap_parse_int_option(s))
    [] number \in BlockOptions ->
         LET n == coap_parse_int_option(s)
         IN  SET_OPTION(m, number, [num |-> n \div 16, more |-> (n \div 8) % 2 = 1,
                                    size |-> 16 * Bit[n % 8]])
    [] number \in Multis ->
         SET_OPTION(m, number, (IF number \in DOMAIN m.options THEN m.options[number] ELSE <<>>)
                                 \o <<SubSeq(s, 1, Len(s) % 256)>>)
    [] OTHER -> m

Parsed(status, m) == [status |-> status, message |-> m]

\* Known to the switch, or not critical.
Understood(number) == number \in Skipped \cup {Order[k] : k \in DOMAIN Order} \/ number % 2 = 0

\* Where the loop stands.
Reading(status, m, at, current) ==
  [status |-> status, message |-> m, at |-> at, current |-> current]

\* One round of the loop, if there is one: the option at out.at, or the payload.
NextOption(bytes, out) ==
  IF out.status # "NO_ERROR" \/ out.at > Len(bytes) THEN out
  ELSE IF bytes[out.at] >= 240
    THEN Reading(out.status,
                 coap_set_payload(out.message, SubSeq(bytes, out.at + 1, Len(bytes))),
                 Len(bytes) + 1, out.current)
  ELSE LET header == OptionHeader(bytes, out.at)
           number == out.current + header.delta
           end == header.next + header.length
       IN  IF number = PROXY_URI THEN Reading("5.05", out.message, out.at, out.current)
           ELSE IF ~Understood(number) THEN Reading("4.02", out.message, out.at, out.current)
           ELSE Reading(out.status, Taken(out.message, number, SubSeq(bytes, header.next, end - 1)),
                        end, number)

coap_parse_options(m, bytes, at) ==
  LET out[k \in 0 .. Len(bytes)] ==
        IF k = 0 THEN Reading("NO_ERROR", m, at, 0) ELSE NextOption(bytes, out[k - 1])
  IN  Parsed(out[Len(bytes)].status, out[Len(bytes)].message)

\* coap_parse_message, on datagrams that are whole.
coap_parse(bytes) ==
  LET m == coap_init_message((bytes[1] \div 16) % 4, bytes[2], 256 * bytes[3] + bytes[4])
      length == IF bytes[1] % 16 < COAP_TOKEN_LEN THEN bytes[1] % 16 ELSE COAP_TOKEN_LEN
  IN  IF bytes[1] \div 64 # 1 THEN Parsed("4.00", m)
      ELSE coap_parse_options(coap_set_header_token(m, SubSeq(bytes, 5, 4 + length)),
                              bytes, 5 + length)

-----------------------------------------------------------------------------
(* Properties. *)

\* Where a delta or a length needs a byte more, and the last that can be written.
Limits == {0, 1, 12, 13, 14, 255, 256, 267, 268, 269, 270, 524, 525, 65803, 65804}

\* The delta and the length of an option are read as they were written, at every
\* length a number takes, and what follows the header is found where it begins.
HeaderReadsBack ==
  \A delta, length \in Limits :
    LET bytes == coap_set_option_header(delta, length)
    IN  OptionHeader(bytes, 1) = [delta |-> delta, length |-> length, next |-> Len(bytes) + 1]

\* A message is read as it was written, whichever options are set, wherever the
\* numbers of two that follow each other lie, and whatever a number or a length
\* needs; or it is not written at all.
MessageReadsBack ==
  \A m \in Messages :
    LET bytes == coap_serialize_message(m)
    IN  bytes # <<>> => coap_parse(bytes) = Parsed("NO_ERROR", m)

\* The text registration.c keeps of a Location-Path becomes the Uri-Path of every
\* update: it is the path the server gave, unless there was none, a segment of it
\* holds a slash or a 0, or the last one of several is empty.
LocationReadsBack ==
  \A location \in Locations :
    (Segmented(coap_get_multi_option_as_string(location), Slash, Slash) = location)
      <=> /\ location # <<>>
          /\ \A k \in DOMAIN location : \A i \in DOMAIN location[k] :
                location[k][i] \notin {Slash, 0}
          /\ Len(location) > 1 => location[Len(location)] # <<>>
=============================================================================
