----------------------------- MODULE MCMainLoop -----------------------------
(* Instances of MainLoop for TLC. *)
EXTENDS MainLoop

Leshan == [host |-> "5.39.83.206", port |-> 5683]
OtherHost == [host |-> "192.0.2.1", port |-> 5683]

OneServer == {Leshan}
WithStranger == {Leshan, OtherHost}

\* The datagrams of both hosts, and one of the first that carries nothing.
Hollow == [Leshan EXCEPT !.port = 7]
Hollows == {Hollow}
FromAnyone == WithStranger \cup Hollows
=============================================================================
