------------------------------ MODULE MCUciLoop ------------------------------
(* Instances of UciLoop for TLC: which commands the reader may read.       *)
EXTENDS UciLoop

\* One command of every kind and outcome.
EveryKind ==
  {[kind |-> "line", value |-> None], [kind |-> "setoption", value |-> "hash16"],
   [kind |-> "setoption", value |-> Illegal],
   [kind |-> "position", value |-> "e2e4"],
   [kind |-> "position", value |-> Illegal],
   [kind |-> "ucinewgame", value |-> None],
   [kind |-> "go", value |-> "infinite"], [kind |-> "go", value |-> "timed"],
   [kind |-> "go", value |-> "clockless"],
   [kind |-> "go", value |-> "fixed"], [kind |-> "stop", value |-> None],
   [kind |-> "quit", value |-> None], [kind |-> "eof", value |-> None],
   [kind |-> "error", value |-> None]}
=============================================================================
