-------------------------------- MODULE Payloads --------------------------------
(* Objects, and the payloads of its requests: numbers as text, records as TLV.     *)
(* The conversions depend on no state.                                             *)
EXTENDS Objects, Text, Tlv

\* A payload means the same at both ends.  Text: what a server writes is read as what
\* it says, and an integer or a temperature is read back, up to a lost sign (see Text).
\* Records: they are read as they were sent, whatever they nest and hold, and those
\* that were cut short are read up to the cut (see Tlv).  The first state is enough to
\* look at.
PayloadsMeanTheSame ==
  Init => /\ TextReadAsWritten /\ IntegerReadsBack /\ TemperatureReadsBack
          /\ RecordsReadBack /\ CutKeepsBeginning /\ OpaqueReadsBack
=============================================================================
