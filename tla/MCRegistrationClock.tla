-------------------------- MODULE MCRegistrationClock --------------------------
(* Instances of RegistrationClock for TLC. *)
EXTENDS RegistrationClock

\* Lifetimes scaled down together with UPDATE_FLOOR and UPDATE_MARGIN.
ShortLifetime == [s \in Servers |-> 1]
\* The last jump is longer than everything the instance waits for.
FewSeconds == {-1, 2, 10}
=============================================================================
