------------------------------ MODULE MCOutbox ------------------------------
(***************************************************************************)
(* An instance of Outbox for TLC.                                          *)
(***************************************************************************)
EXTENDS Outbox

CONSTANTS projection, h1, h2, w1, w2, noHost

OneConsumer == {projection}
TwoHosts == {h1, h2}
TwoWriters == {w1, w2}
=============================================================================
