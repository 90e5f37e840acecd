------------------------------ MODULE Workspace ------------------------------
(***************************************************************************)
(* The planning and review commands of one Workplane project (in           *)
(* internal/app: RecordDecision of handlers.go, planning.go, review.go):   *)
(* one action per command, with what it checks in its transaction, the     *)
(* rows it writes and the events it appends.  The transaction itself       *)
(* (versions, idempotency, conflicts) is in CommandTx, which shows that    *)
(* commands on one project take effect one after the other.                *)
(*                                                                         *)
(* live is what the commands wrote; rebuilt is what a replay of their      *)
(* events up to now computes.                                              *)
(***************************************************************************)
EXTENDS Projection

CONSTANTS
  May,       \* May[p]: the actors that hold permission p
  Contracts, \* gates that can be asked for: hard, independent, claims
  Limit,     \* bound: Limit[x] rows in table x
  Budgets    \* bound: how many planning commands, review commands,
             \* deliverables, gates and evidence records a behaviour has

ASSUME WorkspaceConstants ==
  /\ Humans \subseteq Actors
  /\ Principal \in [Actors \ Humans -> Humans]
  /\ MaxDeliverables \in Nat
  /\ Contracts \subseteq [hard : BOOLEAN, independent : BOOLEAN,
                          claims : (SUBSET Claims) \ {{}}]
  /\ Budgets \subseteq [planning : Nat, review : Nat,
                        deliverables : 0 .. MaxDeliverables,
                        gates : Nat, evidence : Nat]

VARIABLES live, rebuilt, budget

vars == <<live, rebuilt, budget>>

-----------------------------------------------------------------------------
(* executeProjectMutation as the commands of a family use it: the rows are *)
(* written and each event takes the project's next version.                *)

Written(family, tables, events) ==
  /\ budget[family] > 0
  /\ budget' = [budget EXCEPT ![family] = @ - 1]
  /\ live' = [tables EXCEPT !.project.version =
                              live.project.version + events]

Deliverable(d) == live.deliverables[d]
InState(d, states) == Deliverable(d).state \in states
Moved(d, state) == [Deliverable(d) EXCEPT !.state = state, !.version = @ + 1]

Exploitation == live.project.mode = "exploitation"

Room(table) == Len(live[table]) < Limit[table]

-----------------------------------------------------------------------------
(* Planning.                                                               *)

\* A decision outside a waiver or promotion; only humans may record one.
RecordDecision(a) ==
  /\ a \in Humans \cap May["decision.record"] /\ Room("decisions")
  /\ live.project.mode = "exploration"
  /\ live.project.state \in {"proposed", "active"}
  /\ LET decision == [kind |-> "continue", evidence |-> {}, by |-> a]
     IN  /\ Written("planning",
                    [live EXCEPT !.decisions = Append(@, decision)], 1)
         /\ rebuilt' = ReplayDecision(rebuilt, [decision |-> decision])

\* validLifecycleTransition
ValidTransition(command) ==
  \/ /\ command = "activated" /\ live.project.state = "proposed"
     /\ live.forecastHead[0] # 0
     /\ Exploitation => RequiredDeliverables(live) # {}
  \/ command = "held" /\ live.project.state = "active"
  \/ command = "resumed" /\ live.project.state = "held"

\* ActivateProject, HoldProject, ResumeProject
Lifecycle(command) ==
  /\ ValidTransition(command)
  /\ LET project == [live.project EXCEPT
           !.state = IF command = "held" THEN "held" ELSE "active",
           !.version = @ + 1]
     IN  /\ Written("planning", [live EXCEPT !.project = project], 1)
         /\ rebuilt' = ReplayProject(rebuilt,
              [type |-> IF command = "activated" THEN "project.activated"
                        ELSE IF command = "held" THEN "project.held"
                        ELSE "project.resumed",
               project |-> project])

NewDeliverable(a, required, state) ==
  [required |-> required, state |-> state, version |-> 1, creator |-> a,
   waiver |-> 0]

\* Promotion with one deliverable, which must be required.
PromoteProject(a, state) ==
  /\ a \in May["project.promote"]
  /\ Room("decisions") /\ Len(live.deliverables) < budget.deliverables
  /\ live.project.mode = "exploration" /\ live.project.state = "active"
  /\ live.forecastHead[0] # 0
  /\ LET decision == [kind |-> "promote", evidence |-> {}, by |-> a]
         item == NewDeliverable(a, TRUE, state)
         project == [live.project EXCEPT !.mode = "exploitation",
                                         !.version = @ + 3]
     IN  /\ Written("planning",
              [live EXCEPT !.decisions = Append(@, decision),
                           !.deliverables = Append(@, item),
                           !.project = project], 3)
         /\ rebuilt' =
              ReplayProject(
                ReplayCreated(
                  ReplayDecision(rebuilt, [decision |-> decision]),
                  [deliverable |-> item, by |-> a]),
                [type |-> "project.promoted", project |-> project])

CreateDeliverable(a, required, state) ==
  /\ a \in May["deliverable.edit"]
  /\ Len(live.deliverables) < budget.deliverables
  /\ Exploitation
  /\ LET item == NewDeliverable(a, required, state)
     IN  /\ Written("planning",
                    [live EXCEPT !.deliverables = Append(@, item)], 1)
         /\ rebuilt' = ReplayCreated(rebuilt,
                                     [deliverable |-> item, by |-> a])

ReviseDeliverable(d, required, state) ==
  /\ Exploitation
  /\ InState(d, {"draft", "ready"})
  /\ state = "ready" \/ InState(d, {state})
  /\ LET item == [Moved(d, state) EXCEPT !.required = required]
     IN  /\ Written("planning", [live EXCEPT !.deliverables[d] = item], 1)
         /\ rebuilt' = ReplayRevised(rebuilt, [id |-> d,
                                               deliverable |-> item])

CancelDeliverable(d) ==
  /\ Exploitation
  /\ ~Deliverable(d).required /\ InState(d, {"draft", "ready"})
  /\ LET item == Moved(d, "cancelled")
     IN  /\ Written("planning", [live EXCEPT !.deliverables[d] = item], 1)
         /\ rebuilt' = ReplayCancelled(rebuilt, [id |-> d,
                                                 deliverable |-> item])

\* ReforecastProject (scope 0) and ReforecastDeliverable
Reforecast(scope) ==
  /\ Room("forecasts")
  /\ scope # 0 => ~InState(scope, {"accepted", "waived", "cancelled"})
  /\ LET old == live.forecastHead[scope]
         item == [scope |-> scope, supersedes |-> old]
         created(r) == ReplayForecastCreated(r, [forecast |-> item])
         announced == ReplayForecastSuperseded(rebuilt,
                        [scope |-> scope, superseded |-> old])
     IN  /\ Written("planning",
              [live EXCEPT !.forecasts = Append(@, item),
                           !.forecastHead[scope] = Len(live.forecasts) + 1],
              IF old = 0 THEN 1 ELSE 2)
         /\ rebuilt' = created(IF old = 0 THEN rebuilt ELSE announced)

\* SetProjectTarget, SetProjectDeadline
SetDate(kind) ==
  /\ Room("dates")
  /\ LET item == [kind |-> kind, supersedes |-> live.dateHead[kind]]
     IN  /\ Written("planning",
              [live EXCEPT !.dates = Append(@, item),
                           !.dateHead[kind] = Len(live.dates) + 1], 1)
         /\ rebuilt' = ReplayDateChanged(rebuilt, [date |-> item])

-----------------------------------------------------------------------------
(* Review.                                                                 *)

\* Faulty variant: an already corrected record may be corrected again.
MayCorrectAgain(old) == old \in DOMAIN live.evidence

MayCorrect(old) == old \in DOMAIN live.evidence /\ ~Superseded(live, old)

\* CreateEvidence (old = 0), SupersedeEvidence
CreateEvidence(a, claim, supports, old) ==
  /\ a \in May["evidence.create"] /\ Len(live.evidence) < budget.evidence
  /\ supports # {} /\ \A x \in supports : TargetExists(live, x)
  /\ old # 0 => MayCorrect(old)
  /\ LET item == [claim |-> claim, by |-> a, supports |-> supports,
                  supersedes |-> old]
     IN  /\ Written("review", [live EXCEPT !.evidence = Append(@, item)], 1)
         /\ rebuilt' = ReplayEvidence(rebuilt, [evidence |-> item, by |-> a])

\* Faulty variant: a gate may be added as long as the deliverable is open.
BeforeReviewLax(d) == ~InState(d, {"accepted", "waived", "cancelled"})

BeforeReview(d) == InState(d, {"draft", "ready"})

CreateGate(d, contract) ==
  /\ Len(live.gates) < budget.gates
  /\ Exploitation /\ BeforeReview(d)
  /\ LET item == [deliverable |-> d, hard |-> contract.hard,
                  independent |-> contract.independent,
                  claims |-> contract.claims,
                  state |-> "pending", version |-> 1, waiver |-> 0]
     IN  /\ Written("review", [live EXCEPT !.gates = Append(@, item)], 1)
         /\ rebuilt' = ReplayGateCreated(rebuilt, [gate |-> item])

\* loadCurrentEvidence
CurrentEvidence(ids) ==
  /\ ids # {} /\ ids \subseteq DOMAIN live.evidence
  /\ \A e \in ids : ~Superseded(live, e)

AcceptsVerdict(g, result) ==
  \/ live.gates[g].state = "pending"
  \/ live.gates[g].state = "failed" /\ result = "pass"

\* A verdict of "fail" comes with one open finding, blocking or not.
RecordVerdict(a, g, result, ids, blocking) ==
  LET d == live.gates[g].deliverable
      gate == [live.gates[g] EXCEPT
                 !.state = IF result = "pass" THEN "passed" ELSE "failed",
                 !.version = @ + 1]
      verdict == [gate |-> g, result |-> result, evidence |-> ids,
                  reviewer |-> a, supersedes |-> LastVerdict(live, g)]
      finding == [deliverable |-> d, gate |-> g,
                  verdict |-> Len(live.verdicts) + 1, blocking |-> blocking,
                  state |-> "open", version |-> 1]
      decided == [live EXCEPT !.gates[g] = gate,
                              !.verdicts = Append(@, verdict)]
      replayed == ReplayVerdict(rebuilt, [gate |-> gate, verdict |-> verdict,
                                          by |-> a])
  IN  /\ a \in May["review.verdict"]
      /\ InState(d, {"submitted"}) /\ AcceptsVerdict(g, result)
      /\ CurrentEvidence(ids) /\ EvidenceMeetsGate(live, ids, g)
      /\ live.submissionHead[d] # 0
      /\ live.gates[g].independent => IndependentReviewer(live, a, d, ids)
      /\ \/ /\ result = "pass"
            /\ Written("review", decided, 1)
            /\ rebuilt' = replayed
         \/ /\ result = "fail"
            /\ Written("review",
                       [decided EXCEPT !.findings = Append(@, finding)], 2)
            /\ rebuilt' = ReplayFindingCreated(replayed,
                                               [finding |-> finding])

\* ResolveFinding, WithdrawFinding
DisposeFinding(f, action, ids) ==
  /\ live.findings[f].state = "open"
  /\ CurrentEvidence(ids) /\ EvidenceLinked(live, ids, f)
  /\ LET finding == [live.findings[f] EXCEPT
           !.state = IF action = "resolve" THEN "resolved" ELSE "withdrawn",
           !.version = @ + 1]
         item == [finding |-> f, deliverable |-> finding.deliverable,
                  action |-> action, evidence |-> ids]
     IN  /\ Written("review", [live EXCEPT !.findings[f] = finding,
                                           !.actions = Append(@, item)], 1)
         /\ rebuilt' = ReplayDisposition(rebuilt, [finding |-> finding,
                                                   action |-> item])

\* SubmitDeliverable, ResubmitDeliverable
Submit(a, d, kind, ids) ==
  /\ a \in May["deliverable.submit"]
  /\ Exploitation
  /\ CurrentEvidence(ids) /\ EvidenceMeetsContract(live, ids, d)
  /\ \/ kind = "submit" /\ InState(d, {"ready"})
     \/ /\ kind = "resubmit" /\ InState(d, {"bounced"})
        /\ OpenFindings(live, d) = {} /\ ResolutionLinked(live, ids, d)
  /\ LET item == [deliverable |-> d, kind |-> kind, evidence |-> ids,
                  by |-> a]
     IN  /\ Written("review",
              [live EXCEPT !.deliverables[d] = Moved(d, "submitted"),
                           !.submissions = Append(@, item),
                           !.submissionHead[d] = Len(live.submissions) + 1],
              1)
         /\ rebuilt' = ReplaySubmission(rebuilt,
              [deliverable |-> Moved(d, "submitted"), submission |-> item,
               by |-> a])

BounceDeliverable(d, f) ==
  /\ InState(d, {"submitted"}) /\ f \in OpenFindings(live, d)
  /\ LET item == Moved(d, "bounced")
     IN  /\ Written("review", [live EXCEPT !.deliverables[d] = item], 1)
         /\ rebuilt' = ReplayReview(rebuilt, [id |-> d, deliverable |-> item,
                                              finding |-> f])

\* Faulty variant: only blocking findings hold an approval up.
ApprovableUnblocked(d) ==
  /\ GatesOf(live, d) # {} /\ IncompleteHard(live, d) = {}
  /\ BlockingFindings(live, d) = {}

Approvable(d) ==
  /\ GatesOf(live, d) # {} /\ IncompleteHard(live, d) = {}
  /\ OpenFindings(live, d) = {}

ApproveDeliverable(d) ==
  /\ InState(d, {"submitted"}) /\ Approvable(d)
  /\ LET item == Moved(d, "accepted")
     IN  /\ Written("review", [live EXCEPT !.deliverables[d] = item], 1)
         /\ rebuilt' = ReplayReview(rebuilt, [id |-> d, deliverable |-> item,
                                              finding |-> 0])

WaiverPreconditions(d) ==
  IncompleteHard(live, d) = {} /\ BlockingFindings(live, d) = {}

Waiver(a, ids) == [kind |-> "waiver", evidence |-> ids, by |-> a]

WaiveDeliverable(a, d, ids) ==
  /\ a \in Humans \cap May["deliverable.waive"] /\ Room("decisions")
  /\ InState(d, {"ready", "submitted", "bounced"})
  /\ WaiverPreconditions(d)
  /\ CurrentEvidence(ids) /\ EvidenceMeetsContract(live, ids, d)
  /\ LET item == [Moved(d, "waived") EXCEPT
                    !.waiver = Len(live.decisions) + 1]
     IN  /\ Written("review",
              [live EXCEPT !.decisions = Append(@, Waiver(a, ids)),
                           !.deliverables[d] = item], 2)
         /\ rebuilt' = ReplayDeliverableWaived(
              ReplayDecision(rebuilt, [decision |-> Waiver(a, ids)]),
              [id |-> d, deliverable |-> item, by |-> a])

WaiveGate(a, g, ids) ==
  /\ a \in Humans \cap May["gate.soft_waive"] /\ Room("decisions")
  /\ ~live.gates[g].hard /\ live.gates[g].state \in {"pending", "failed"}
  /\ WaiverPreconditions(live.gates[g].deliverable)
  /\ CurrentEvidence(ids) /\ EvidenceMeetsGate(live, ids, g)
  /\ LET item == [live.gates[g] EXCEPT !.state = "waived",
                    !.version = @ + 1, !.waiver = Len(live.decisions) + 1]
     IN  /\ Written("review",
              [live EXCEPT !.decisions = Append(@, Waiver(a, ids)),
                           !.gates[g] = item], 2)
         /\ rebuilt' = ReplayGateWaived(
              ReplayDecision(rebuilt, [decision |-> Waiver(a, ids)]),
              [id |-> g, gate |-> item, by |-> a])

-----------------------------------------------------------------------------
Init ==
  /\ live = NewProject
  /\ rebuilt = NoReplay
  /\ budget \in Budgets

OpenStates == {"draft", "ready"}

PlanningNext ==
  \/ \E a \in Actors : RecordDecision(a)
  \/ \E command \in {"activated", "held", "resumed"} : Lifecycle(command)
  \/ \E a \in Actors, state \in OpenStates : PromoteProject(a, state)
  \/ \E a \in Actors, required \in BOOLEAN, state \in OpenStates :
       CreateDeliverable(a, required, state)
  \/ \E d \in DOMAIN live.deliverables :
       \/ \E required \in BOOLEAN, state \in OpenStates :
            ReviseDeliverable(d, required, state)
       \/ CancelDeliverable(d)
  \/ \E scope \in {0} \cup DOMAIN live.deliverables : Reforecast(scope)
  \/ \E kind \in DateKinds : SetDate(kind)

\* What evidence can support.
Targets ==
  ({"deliverable"} \X DOMAIN live.deliverables)
    \cup ({"gate"} \X DOMAIN live.gates)
    \cup ({"finding"} \X DOMAIN live.findings)
    \cup ({"decision"} \X DOMAIN live.decisions)

ReviewNext ==
  \/ \E a \in Actors, claim \in Claims, target \in Targets,
        old \in {0} \cup DOMAIN live.evidence :
       CreateEvidence(a, claim, {target}, old)
  \/ \E d \in DOMAIN live.deliverables, contract \in Contracts :
       CreateGate(d, contract)
  \/ \E ids \in SUBSET DOMAIN live.evidence :
       \/ \E a \in Actors, g \in DOMAIN live.gates, blocking \in BOOLEAN :
            RecordVerdict(a, g, "fail", ids, blocking)
       \/ \E a \in Actors, g \in DOMAIN live.gates :
            RecordVerdict(a, g, "pass", ids, FALSE) \/ WaiveGate(a, g, ids)
       \/ \E f \in DOMAIN live.findings, action \in {"resolve", "withdraw"} :
            DisposeFinding(f, action, ids)
       \/ \E a \in Actors, d \in DOMAIN live.deliverables :
            \/ \E kind \in {"submit", "resubmit"} : Submit(a, d, kind, ids)
            \/ WaiveDeliverable(a, d, ids)
  \/ \E d \in DOMAIN live.deliverables :
       \/ \E f \in DOMAIN live.findings : BounceDeliverable(d, f)
       \/ ApproveDeliverable(d)

Next == PlanningNext \/ ReviewNext

Spec == Init /\ [][Next]_vars
-----------------------------------------------------------------------------
(* Properties.                                                             *)

\* Replay (durable.go:693): the events of the commands, each checked again
\* against the tables rebuilt so far, rebuild exactly what the commands wrote.
RebuildMatchesLive == rebuilt = [ok |-> TRUE, tables |-> live]

\* An accepted deliverable was submitted, has gates and no open finding, and the
\* last verdict on every hard gate is a pass on evidence that meets the gate,
\* whatever was recorded after its approval.
AcceptedIsReviewed ==
  \A d \in DOMAIN live.deliverables :
    InState(d, {"accepted"}) =>
      /\ live.submissionHead[d] # 0
      /\ GatesOf(live, d) # {} /\ OpenFindings(live, d) = {}
      /\ \A g \in GatesOf(live, d) :
           LET last == LastVerdict(live, g)
           IN  live.gates[g].hard =>
                 /\ last # 0 /\ live.verdicts[last].result = "pass"
                 /\ EvidenceMeetsGate(live, live.verdicts[last].evidence, g)

\* An open finding holds its deliverable in review, unless it is not blocking
\* and the deliverable was waived.
FindingsHoldUp ==
  \A f \in DOMAIN live.findings :
    LET finding == live.findings[f] IN
    finding.state = "open" =>
      \/ InState(finding.deliverable, {"submitted", "bounced"})
      \/ ~finding.blocking /\ InState(finding.deliverable, {"waived"})

\* Corrections form chains: no evidence record is corrected twice, and in each
\* scope every forecast but the current one is superseded by the next.
Following(s, i, same(_, _)) ==
  {j \in DOMAIN s : s[j].supersedes = i /\ same(s[i], s[j])}
SameScope(f, g) == f.scope = g.scope
SameKind(f, g) == f.kind = g.kind
CorrectionsAreChains ==
  /\ \A e \in DOMAIN live.evidence :
       Cardinality({f \in DOMAIN live.evidence :
                      live.evidence[f].supersedes = e}) <= 1
  /\ \A f \in DOMAIN live.forecasts :
       Cardinality(Following(live.forecasts, f, SameScope)) =
         IF f = live.forecastHead[live.forecasts[f].scope] THEN 0 ELSE 1
  /\ \A f \in DOMAIN live.dates :
       Cardinality(Following(live.dates, f, SameKind)) =
         IF f = live.dateHead[live.dates[f].kind] THEN 0 ELSE 1

\* docs/evidence-review-m2d.md: what a deliverable is judged by is frozen when
\* it first enters review, and a terminal deliverable never changes again.
Contract(t, g) == <<t.gates[g].hard, t.gates[g].independent, t.gates[g].claims>>
FrozenInReview ==
  [][\A d \in DOMAIN live.deliverables :
       /\ ~InState(d, OpenStates) =>
            /\ GatesOf(live', d) = GatesOf(live, d)
            /\ \A g \in GatesOf(live, d) : Contract(live', g) =
                                            Contract(live, g)
            /\ live'.deliverables[d].required = Deliverable(d).required
       /\ InState(d, {"accepted", "waived", "cancelled"}) =>
            live'.deliverables[d] = Deliverable(d)]_vars
=============================================================================
