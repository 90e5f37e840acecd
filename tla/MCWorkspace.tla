----------------------------- MODULE MCWorkspace -----------------------------
(***************************************************************************)
(* Instances of Workspace for TLC: alice, her agent bot, and carol.        *)
(***************************************************************************)
EXTENDS Workspace, TLC

CONSTANTS alice, bot, carol

Everyone == {alice, bot, carol}
People == {alice, carol}
ActsFor == [a \in {bot} |-> alice]

Rights(editors, planners, producers, submitters, reviewers) ==
  [p \in {"deliverable.edit"} |-> editors]
  @@ [p \in {"decision.record", "project.promote", "deliverable.waive",
              "gate.soft_waive"} |-> planners]
  @@ [p \in {"evidence.create"} |-> producers]
  @@ [p \in {"deliverable.submit"} |-> submitters]
  @@ [p \in {"review.verdict"} |-> reviewers]

\* bot works, carol reviews.
Divided == Rights({alice}, {alice}, {bot}, {bot}, {carol})

Contract1(h, i) == [hard |-> h, independent |-> i, claims |-> Claims]
HardOrSoft == {Contract1(TRUE, TRUE), Contract1(FALSE, FALSE)}

Bounds == [decisions |-> 2, forecasts |-> 3, dates |-> 2]

\* Planning alone; evidence and its corrections; promotion and two gates;
\* promotion and one gate, with enough commands to bounce, resubmit and
\* approve.
PlanThenReview ==
  {[planning |-> 7, review |-> 0, deliverables |-> 2, gates |-> 0,
    evidence |-> 0],
   [planning |-> 2, review |-> 4, deliverables |-> 1, gates |-> 0,
    evidence |-> 4],
   [planning |-> 4, review |-> 2, deliverables |-> 2, gates |-> 2,
    evidence |-> 2],
   [planning |-> 3, review |-> 8, deliverables |-> 1, gates |-> 2,
    evidence |-> 2],
   [planning |-> 3, review |-> 9, deliverables |-> 1, gates |-> 1,
    evidence |-> 2]}
=============================================================================
