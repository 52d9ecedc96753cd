------------------------- MODULE MCRegistrationSystem -------------------------
(* Instances of RegistrationSystem for TLC. *)
EXTENDS RegistrationSystem

\* get_server_object(123, "U", 40, false) in main.cpp.
BoardLifetime == [s \in Servers |-> 40]
=============================================================================
