-------------------------------- MODULE MCPacket --------------------------------
(* Instances of Packet for TLC. *)
EXTENDS Packet

\* A resource whose content may be empty.
TheResource == DM(3, 0, 2)
TwoBlocks == [v \in Values |-> IF v = "empty" THEN 0 ELSE 2]
Paths == {<<3, 0, 2>>, <<3, 0, Slashed(2)>>, <<3>>, <<3, 0>>, <<3, 0, 2, 1>>, <<Bs>>, <<>>}

Plainly == [mid : {7}, path : Paths, value : {"off"}, block1 : {FALSE}, block2 : {None}]
Blockwise == [mid : {7}, path : {<<3, 0, 2>>}, value : {"off", "bad"}, block1 : BOOLEAN,
              block2 : {0, 1, 2}]

With(d, type, code, fault) ==
  [type |-> type, code |-> code, fault |-> fault, mid |-> d.mid, path |-> d.path,
   value |-> d.value, block1 |-> d.block1, block2 |-> d.block2]

\* Requests on every path, requests for blocks, messages that do not parse, and
\* what answers the client's own messages.
AllDatagrams ==
  {With(d, t, c, "none") : d \in Plainly \cup Blockwise, t \in {"CON", "NON"}, c \in Methods}
    \cup {With(d, t, "GET", f) : d \in Plainly, t \in {"CON", "NON"}, f \in {"header", "option"}}
    \cup {With(d, t, "response", f) : d \in {e \in Plainly : e.path = <<>>}, t \in Types, f \in Faults}

-----------------------------------------------------------------------------
(* The messages on the wire. *)

Segment(n) == [k \in 1 .. n |-> 97]

\* Each option unset, or set to what needs no byte, one byte or more; the longest
\* do not fit together.
Observed(m) == {m} \cup {coap_set_header_observe(m, n) : n \in {0, 5, 256, 16777215}}
Located(m) == {m, coap_set_header_path(m, LOCATION_PATH, <<47>> \o Segment(2) \o <<47>> \o Segment(1))}
Addressed(m) == {m} \cup {coap_set_header_path(m, URI_PATH, t) :
                           t \in {<<47>> \o Segment(2), <<47>> \o Segment(13) \o <<47, 47>> \o Segment(12)}}
Queried(m) == {m, coap_set_header_uri_query(m, <<63>> \o Segment(14) \o <<38>> \o Segment(3))}
Blocked(m, number) ==
  {m} \cup {coap_set_header_block(m, number, b[1], b[2], b[3]) :
              b \in {<<0, FALSE, 16>>, <<15, TRUE, 128>>, <<70000, FALSE, 2048>>, <<0, TRUE, 8>>}}
Tokened(m) == {coap_set_header_token(m, t) : t \in {<<>>, <<0>>, [k \in 1 .. 9 |-> k]}}
Loaded(m) == {m, coap_set_payload(m, <<255, 0>>)}

Many(Make(_), set) == UNION {Make(m) : m \in set}
AllMessages ==
  LET first == {coap_init_message(2, 69, 258)}
      paths == Many(Queried, Many(Addressed, Many(Located, Many(Observed, first))))
      blocks == UNION {Blocked(m, BLOCK1) : m \in UNION {Blocked(n, BLOCK2) : n \in paths}}
  IN  Many(Loaded, Many(Tokened, blocks)) \cup {coap_init_message(t, 1, 65535) : t \in 0 .. 3}
AllLocations == UNION {[1 .. n -> {Segment(0), Segment(1), Segment(2), <<47, 97>>, <<97, 0>>}] : n \in 0 .. 4}
=============================================================================
