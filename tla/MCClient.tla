-------------------------------- MODULE MCClient --------------------------------
(* Instances of Client for TLC. *)
EXTENDS Client

Leshan == [host |-> "5.39.83.206", port |-> 5683]
Leshans == {Leshan}

Light == [type |-> "DM", objectId |-> 3, instanceId |-> 0, resourceId |-> 2]

Question(type, code, v) ==
  [type |-> type, code |-> code, mid |-> 1, path |-> <<3, 0, 2>>, value |-> v,
   block1 |-> FALSE, block2 |-> None, fault |-> "none"]

\* Reads and writes of the light; the clearest value is refused.
ReadsAndWrites ==
  {Question("CON", "GET", None), Question("CON", "PUT", "on"), Question("NON", "PUT", "off"),
   Question("CON", "PUT", "bad"), [Question("NON", "GET", None) EXCEPT !.fault = "option"]}

OneBlock == [v \in Values |-> 1]

Mail == {From(r) : r \in Requests}
=============================================================================
