---------------------------- MODULE MCTransaction ----------------------------
(* Instances of Transaction for TLC. *)
EXTENDS Transaction

\* er-coap-13.h.
ResponseTimeout == 2
MaxRetransmit == 4

\* A response, and the one that makes the client send its request again.
ResponseCodes == {"2.05", "4.01"}
=============================================================================
