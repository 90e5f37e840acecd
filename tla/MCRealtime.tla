----------------------------- MODULE MCRealtime -----------------------------
(* Instances of Realtime for TLC.                                          *)
EXTENDS Realtime

CONSTANTS realtime, noCursor

OneConsumer == {realtime}
ThreeEvents == 1 .. 3
=============================================================================
