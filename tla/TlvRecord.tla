------------------------------- MODULE TlvRecord -------------------------------
(***************************************************************************)
(* Records of the TLV format (wakaama/tlv.c): the header that is written   *)
(* in front of a value, how the record a buffer begins with is taken from  *)
(* it, and records one behind the other.  A buffer is a sequence of bytes. *)
(***************************************************************************)
EXTENDS Integers, Sequences

Byte == 0 .. 255

Resource == 192 \* 0xC0
MultipleResource == 128
ResourceInstance == 64
ObjectInstance == 0

Bytes(n, k) == CASE k = 1 -> <<n>>
                 [] k = 2 -> <<n \div 256, n % 256>>
                 [] k = 3 -> <<n \div 65536, n \div 256 % 256, n % 256>>

-----------------------------------------------------------------------------
\* How many bytes the length takes behind the first one.
LengthBytes(length) == IF length <= 7 THEN 0 ELSE IF length <= 255 THEN 1
                       ELSE IF length <= 65535 THEN 2 ELSE 3
LengthBytes_Eight(length) == IF length <= 8 THEN 0 ELSE LengthBytes(length)

IdBytes(id) == IF id > 255 THEN 2 ELSE 1

prv_create_header_Eight(type, id, length) ==
  LET k == LengthBytes_Eight(length)
  IN  <<type + (IF id > 255 THEN 32 ELSE 0) + 8 * k + (IF k = 0 THEN length ELSE 0)>>
        \o Bytes(id, IdBytes(id)) \o (IF k = 0 THEN <<>> ELSE Bytes(length, k))
prv_create_header(type, id, length) ==
  LET k == LengthBytes(length)
  IN  <<type + (IF id > 255 THEN 32 ELSE 0) + 8 * k + (IF k = 0 THEN length ELSE 0)>>
        \o Bytes(id, IdBytes(id)) \o (IF k = 0 THEN <<>> ELSE Bytes(length, k))

\* What is written of a record whose value is a buffer.
Record(type, id, value) == prv_create_header(type, id, Len(value)) \o value

\* The number in the k bytes of a buffer behind the first n.
Number(buffer, n, k) == CASE k = 1 -> buffer[n + 1]
                          [] k = 2 -> 256 * buffer[n + 1] + buffer[n + 2]
                          [] k = 3 -> 65536 * buffer[n + 1] + 256 * buffer[n + 2] + buffer[n + 3]
Nothing == [size |-> 0]

\* The record a buffer begins with, Nothing if it is cut short.
lwm2m_decodeTLV(buffer) ==
  IF buffer = <<>> THEN Nothing ELSE
  LET idBytes == IF buffer[1] \div 32 % 2 = 1 THEN 2 ELSE 1
      k == buffer[1] \div 8 % 4
      dataIndex == 1 + idBytes + k
      length == IF k = 0 THEN buffer[1] % 8 ELSE Number(buffer, 1 + idBytes, k)
  IN  IF Len(buffer) < dataIndex THEN Nothing
      ELSE IF dataIndex + length > Len(buffer) THEN Nothing
      ELSE [size |-> dataIndex + length, type |-> 64 * (buffer[1] \div 64),
            id |-> Number(buffer, 1, idBytes),
            data |-> SubSeq(buffer, dataIndex + 1, dataIndex + length)]

-----------------------------------------------------------------------------
\* Records whose value is a sequence of records, too.
Nested == {ObjectInstance, MultipleResource}

\* What is written of the first records, one behind the other: the loop of
\* lwm2m_tlv_serialize, for the buffers their values come to.
Serialized(records, values) ==
  LET w[i \in 0 .. Len(records)] ==
        IF i = 0 THEN <<>>
        ELSE w[i - 1] \o Record(records[i].type, records[i].id, values[i])
  IN  w

\* Records are taken until one is cut short, which ends the parse without an error;
\* one without records in it where there should be some makes the whole parse fail.
lwm2m_tlv_parse[buffer \in Seq(Byte)] ==
  LET first == lwm2m_decodeTLV(buffer)
  IN  IF first.size = 0 THEN <<>>
      ELSE LET value == IF first.type \in Nested THEN lwm2m_tlv_parse[first.data] ELSE first.data
               tail == SubSeq(buffer, first.size + 1, Len(buffer))
               more == lwm2m_tlv_parse[tail]
           IN  IF \/ first.type \in Nested /\ value = <<>>
                  \/ more = <<>> /\ lwm2m_decodeTLV(tail).size # 0
                 THEN <<>>
                 ELSE <<[type |-> first.type, id |-> first.id, value |-> value]>> \o more
=============================================================================
