------------------------------ MODULE MCObserve ------------------------------
(* Instances of Observe for TLC. *)
EXTENDS Observe

\* The URIs main.cpp fires: accelerometer, temperature, time, light.
BoardFired == {<<3313>>, <<3303, 0, 5700>>, <<3, 0, 13>>, <<3311, 0, 5850>>}

\* The accelerometer object, which the main loop fires by its object.
Accelerometer == {<<3313, 0>>}

\* An instance fired by one of its resources, and that resource.
DeviceAndTime == {<<3, 0>>, <<3, 0, 13>>}
=============================================================================
