--------------------------- MODULE MCAudioDevice ---------------------------
(***************************************************************************)
(* A bounded instance of AudioDevice.  The ring of s1 grows from one unit  *)
(* to two when s1 is bound.  The guest writes three units to s1, so that a *)
(* put waits in every position of the ring, and two packets are captured,  *)
(* so that a capture ring overflows and its counters wrap.  s2 is the other*)
(* stream of the device.                                                   *)
(***************************************************************************)
EXTENDS AudioDevice

CONSTANTS s1, s2

Streams == {s1, s2}
Rings   == [s \in Streams |-> IF s = s1 THEN 1 ELSE 2]
Units   == [s \in Streams |-> IF s = s1 THEN 3 ELSE 0]
=============================================================================
