---------------------------- MODULE MCRegistration ----------------------------
(* Instances of Registration for TLC. *)
EXTENDS Registration

\* get_server_object(123, "U", 40, false) in main.cpp.
BoardLifetime == [s \in Servers |-> 40]
=============================================================================
