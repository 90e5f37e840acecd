---------------------------- MODULE MCCommandTx ----------------------------
(***************************************************************************)
(* Instances of CommandTx for TLC: one creation, and decisions and planning *)
(* commands on the project it makes, among them a reused key with another  *)
(* body and a command of two events.                                       *)
(***************************************************************************)
EXTENDS CommandTx

CONSTANTS p1, p2, c1, c2, noProject, noResult

TwoProjects == {p1, p2}
TwoCalls == {c1, c2}

Request(op, key, project, expected, events, body) ==
  [op |-> op, key |-> key, project |-> project, expected |-> expected,
   events |-> events, body |-> body]

Create  == Request("createProject", "A", noProject, 0, 1, "x")
Create2 == Request("createProject", "A", noProject, 0, 1, "y")
Decide  == Request("recordDecision", "B", p1, 1, 1, "x")
Decide2 == Request("recordDecision", "B", p1, 1, 1, "y")
Promote == Request("promoteProject", "C", p1, 1, 2, "x")
Target  == Request("setTarget", "D", p1, 2, 1, "x")

AllRequests == {Create, Create2, Decide, Decide2, Promote, Target}
FewRequests == {Create, Decide, Promote}
=============================================================================
