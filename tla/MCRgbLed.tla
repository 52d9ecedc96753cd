------------------------------ MODULE MCRgbLed ------------------------------
(* Instances of RgbLed for TLC. *)
EXTENDS RgbLed

Blue == [c \in Channels |-> IF c = "b" THEN 2 ELSE 0]
Yellow == [c \in Channels |-> IF c = "b" THEN 0 ELSE 1]
Grey == [c \in Channels |-> 1]

TwoColours == [yellow |-> Yellow, grey |-> Grey]
=============================================================================
