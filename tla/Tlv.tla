---------------------------------- MODULE Tlv -----------------------------------
(***************************************************************************)
(* The TLV format (wakaama/tlv.c): what a read of an instance returns and  *)
(* a write of several resources carries.                                   *)
(*                                                                         *)
(* A record is [type, id, value] behind a header (see TlvRecord); the value*)
(* of a resource is a buffer, that of an object instance or of a multiple  *)
(* resource a sequence of records.  An integer is sent as a sign and a     *)
(* magnitude in bytes of base BASE, so that all of them fit in TLC.        *)
(***************************************************************************)
EXTENDS TlvRecord, SequencesExt

CONSTANTS
  BASE,      \* 256: values of a byte of an integer
  Depth,     \* levels of records in records
  Trees,     \* sequences of records to be written
  CutTrees   \* and to be cut short on their way

\* What a record may be that holds records on depth levels at most.
lwm2m_tlv_t[depth \in 0 .. Depth] ==
  [type : {Resource, ResourceInstance}, id : 0 .. 65535, value : Seq(Byte)]
    \cup IF depth = 0 THEN {}
         ELSE [type : Nested, id : 0 .. 65535, value : Seq(lwm2m_tlv_t[depth - 1])]

ASSUME TlvAssumption ==
  /\ BASE \in Nat \ {0} /\ BASE % 2 = 0
  /\ Depth \in Nat
  /\ Trees \cup CutTrees \subseteq Seq(lwm2m_tlv_t[Depth])

-----------------------------------------------------------------------------
(* Records in records. *)

\* lwm2m_tlv_serialize; nothing at all comes of records one of which is to hold
\* records and holds none.
lwm2m_tlv_serialize[depth \in 0 .. Depth] ==
  [records \in Seq(lwm2m_tlv_t[depth]) |->
     LET values == [k \in DOMAIN records |->
                      IF records[k].type \in Nested
                        THEN lwm2m_tlv_serialize[depth - 1][records[k].value]
                        ELSE records[k].value]
     IN  IF \E k \in DOMAIN records : records[k].type \in Nested /\ values[k] = <<>> THEN <<>>
         ELSE Serialized(records, values)[Len(records)]]

-----------------------------------------------------------------------------
(* Integers. *)

Power[k \in 0 .. 8] == IF k = 0 THEN 1 ELSE BASE * Power[k - 1]   \* 1 << 8 * k

Overrun == <<>>   \* a ninth byte before the beginning of the buffer
Magnitude(k) == Power[k] \div 2   \* what k bytes with a sign leave room for

prv_encodeInt(data) ==
  LET value == IF data < 0 THEN -data ELSE data
      k == Min({n \in 1 .. 8 : value < Magnitude(n)} \cup {9})
      length == CASE k = 3 -> 4 [] k \in 5 .. 7 -> 8 [] OTHER -> k
      byte(n) == value \div Power[length - n] % BASE
  IN  IF k = 9 THEN Overrun
      ELSE [n \in 1 .. length |-> IF n = 1 /\ data < 0 THEN byte(1) + BASE \div 2 ELSE byte(n)]

NoInt == Magnitude(8)   \* the value 0 of lwm2m_opaqueToInt

\* The first bit is the sign.
lwm2m_opaqueToInt(buffer) ==
  LET data[i \in 0 .. Len(buffer) - 1] ==
        IF i = 0 THEN buffer[1] % (BASE \div 2) ELSE BASE * data[i - 1] + buffer[i + 1]
      n == data[Len(buffer) - 1]
  IN  IF Len(buffer) \notin {1, 2, 4, 8} THEN NoInt
      ELSE IF buffer[1] >= BASE \div 2 THEN -n ELSE n

-----------------------------------------------------------------------------
(* Properties. *)

\* What comes of records, if anything does, and its length can be said.
Sendable(buffer) == buffer # <<>> /\ Len(buffer) < 16777216

\* What one end writes the other end reads.
RecordsReadBack ==
  \A t \in Trees :
    LET buffer == lwm2m_tlv_serialize[Depth][t]
    IN  Sendable(buffer) => lwm2m_tlv_parse[buffer] = t

\* Of a payload that was cut short the records before the cut are taken, and none is
\* taken for another one; nothing tells that there should have been more.
CutKeepsBeginning ==
  \A t \in CutTrees :
    LET buffer == lwm2m_tlv_serialize[Depth][t]
    IN  Sendable(buffer) =>
          \A k \in 0 .. Len(buffer) : IsPrefix(lwm2m_tlv_parse[SubSeq(buffer, 1, k)], t)

\* An integer is read as the one that was written, whatever its length; the lowest
\* one, whose opposite it is itself, overruns the buffer.
OpaqueReadsBack ==
  \A n \in -Magnitude(8) .. Magnitude(8) - 1 :
    IF n = -Magnitude(8) THEN prv_encodeInt(n) = Overrun
                         ELSE lwm2m_opaqueToInt(prv_encodeInt(n)) = n
=============================================================================
