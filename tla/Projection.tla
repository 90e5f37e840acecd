----------------------------- MODULE Projection -----------------------------
(***************************************************************************)
(* The tables of one Workplane project, what its planning and review       *)
(* commands read from them, and rebuildSnapshot (internal/app/durable.go), *)
(* which computes the same tables from the project's events.               *)
(*                                                                         *)
(* A row is named by its place in its sequence, 0 names none.  A head      *)
(* table (forecast_heads, project_target_heads, project_deadline_heads,    *)
(* deliverable_submission_heads) is a function from scopes to rows.        *)
(* Targets and deadlines go through the same code and are both "dates".    *)
(* Texts, instants and digests are left out; an evidence kind and claim    *)
(* are one value.                                                          *)
(***************************************************************************)
EXTENDS Naturals, Sequences, FiniteSets

CONSTANTS
  Actors,           \* the principals that send commands
  Humans,           \* those that are human; the others are agents
  Principal,        \* Principal[a]: the human that agent a acts for
  Claims,           \* what evidence can claim and a gate can require
  MaxDeliverables   \* bound: deliverables of the project

Scopes == 0 .. MaxDeliverables   \* of forecasts: the project, a deliverable
DateKinds == {"target", "deadline"}

\* No forecast is announced and not yet created.
NoPending == [scope |-> 0, superseded |-> 0, superseding |-> 0]

\* project.created: an exploration project, at version 1.
NewProject ==
  [project |-> [mode |-> "exploration", state |-> "proposed", version |-> 1],
   decisions |-> <<>>, deliverables |-> <<>>,
   forecasts |-> <<>>, forecastHead |-> [s \in Scopes |-> 0],
   pending |-> NoPending,
   dates |-> <<>>, dateHead |-> [k \in DateKinds |-> 0],
   evidence |-> <<>>, gates |-> <<>>, verdicts |-> <<>>,
   findings |-> <<>>, actions |-> <<>>, submissions |-> <<>>,
   submissionHead |-> [s \in Scopes |-> 0]]

-----------------------------------------------------------------------------
(* Helpers that the handlers and the replay share.                         *)

EffectiveIDs(a) == IF a \in Humans THEN {a} ELSE {a, Principal[a]}

Supports(t, e, type, id) == <<type, id>> \in t.evidence[e].supports

Superseded(t, e) == \E f \in DOMAIN t.evidence : t.evidence[f].supersedes = e

EvidenceMeetsGate(t, ids, g) ==
  \A c \in t.gates[g].claims : \E e \in ids :
    /\ t.evidence[e].claim = c
    /\ \/ Supports(t, e, "gate", g)
       \/ Supports(t, e, "deliverable", t.gates[g].deliverable)

GatesOf(t, d) == {g \in DOMAIN t.gates : t.gates[g].deliverable = d}

OpenFindings(t, d) ==
  {f \in DOMAIN t.findings : /\ t.findings[f].deliverable = d
                             /\ t.findings[f].state = "open"}

BlockingFindings(t, d) == {f \in OpenFindings(t, d) : t.findings[f].blocking}

IncompleteHard(t, d) ==
  {g \in GatesOf(t, d) : t.gates[g].hard /\ t.gates[g].state # "passed"}

\* evidenceMeetsDeliverableContract
EvidenceMeetsContract(t, ids, d) ==
  /\ GatesOf(t, d) # {}
  /\ \A e \in ids : \/ Supports(t, e, "deliverable", d)
                    \/ \E g \in GatesOf(t, d) : Supports(t, e, "gate", g)
  /\ \A g \in GatesOf(t, d) : EvidenceMeetsGate(t, ids, g)

\* A disposition's evidence supports the finding or its deliverable.
EvidenceLinked(t, ids, f) ==
  \A e \in ids : \/ Supports(t, e, "finding", f)
                 \/ Supports(t, e, "deliverable", t.findings[f].deliverable)

\* Some resolution of d's findings shares evidence with ids.
ResolutionLinked(t, ids, d) ==
  \E i \in DOMAIN t.actions : /\ t.actions[i].deliverable = d
                              /\ t.actions[i].action = "resolve"
                              /\ t.actions[i].evidence \cap ids # {}

TargetExists(t, target) ==
  \/ target[1] = "deliverable" /\ target[2] \in DOMAIN t.deliverables
  \/ target[1] = "gate" /\ target[2] \in DOMAIN t.gates
  \/ target[1] = "finding" /\ target[2] \in DOMAIN t.findings
  \/ target[1] = "decision" /\ target[2] \in DOMAIN t.decisions

\* independentReviewer: the reviewer and its principal are not the creator,
\* nor the submitter or a producer of the evidence, nor one of these acts for
\* either of them.
IndependentReviewer(t, a, d, ids) ==
  LET s == t.submissions[t.submissionHead[d]]
      overlaps(other) == EffectiveIDs(a) \cap EffectiveIDs(other) # {}
  IN  /\ t.deliverables[d].creator \notin EffectiveIDs(a)
      /\ ~overlaps(s.by)
      /\ \A e \in s.evidence \cup ids : ~overlaps(t.evidence[e].by)

\* The last verdict of gate g: at most one precedes it (0: none).
LastVerdict(t, g) ==
  LET of == {v \in DOMAIN t.verdicts : t.verdicts[v].gate = g}
  IN  IF of = {} THEN 0 ELSE CHOOSE v \in of : \A w \in of : w <= v

RequiredDeliverables(t) ==
  {d \in DOMAIN t.deliverables : /\ t.deliverables[d].required
                                 /\ t.deliverables[d].state
                                      \notin {"cancelled", "waived"}}

-----------------------------------------------------------------------------
(* rebuildSnapshot.  A rebuild is a verdict and the tables so far; after   *)
(* an event that cannot be applied it has failed and stays as it was.  The *)
(* event's version is the project's next one.                              *)

NoReplay == [ok |-> TRUE, tables |-> NewProject]

Step(r, valid, tables) ==
  IF r.ok /\ valid
    THEN [ok |-> TRUE,
          tables |-> [tables EXCEPT !.project.version =
                                      r.tables.project.version + 1]]
    ELSE [ok |-> FALSE, tables |-> r.tables]

\* Faulty variant: refuses a correction instead of what it corrects.
ReplaySelectionOriginals(t, ids) ==
  /\ ids # {} /\ ids \subseteq DOMAIN t.evidence
  /\ \A e \in ids : t.evidence[e].supersedes = 0

\* replayEvidenceSelection
ReplaySelection(t, ids) ==
  /\ ids # {} /\ ids \subseteq DOMAIN t.evidence
  /\ \A e \in ids : ~Superseded(t, e)

ReplayDecision(r, ev) ==
  Step(r, TRUE, [r.tables EXCEPT !.decisions = Append(@, ev.decision)])

\* project.activated, project.held, project.resumed, project.promoted
ReplayProject(r, ev) ==
  LET t == r.tables
      from(state) == t.project.state = state
      to(state) == ev.project.state = state
      same == ev.project.mode = t.project.mode
  IN  Step(r,
        /\ ev.project.version = t.project.version + 1
        /\ \/ /\ ev.type = "project.activated" /\ same
              /\ from("proposed") /\ to("active") /\ t.forecastHead[0] # 0
           \/ ev.type = "project.held" /\ same /\ from("active") /\ to("held")
           \/ ev.type = "project.resumed" /\ same /\ from("held")
              /\ to("active")
           \/ /\ ev.type = "project.promoted"
              /\ t.project.mode = "exploration" /\ from("active")
              /\ t.forecastHead[0] # 0 /\ RequiredDeliverables(t) # {}
              /\ ev.project.mode = "exploitation" /\ to("active"),
        [t EXCEPT !.project = ev.project])

ReplayCreated(r, ev) ==
  Step(r, ev.deliverable.version = 1 /\ ev.deliverable.creator = ev.by,
       [r.tables EXCEPT !.deliverables = Append(@, ev.deliverable)])

ReplayRevised(r, ev) ==
  LET t == r.tables IN
  Step(r, /\ ev.id \in DOMAIN t.deliverables
          /\ ev.deliverable.version = t.deliverables[ev.id].version + 1
          /\ ev.deliverable.creator = t.deliverables[ev.id].creator,
       [t EXCEPT !.deliverables[ev.id] = ev.deliverable])

ReplayForecastSuperseded(r, ev) ==
  LET t == r.tables IN
  Step(r, /\ ev.superseded \in DOMAIN t.forecasts
          /\ t.forecasts[ev.superseded].scope = ev.scope
          /\ t.forecastHead[ev.scope] = ev.superseded
          /\ t.pending = NoPending,
       [t EXCEPT !.pending = [scope |-> ev.scope,
                              superseded |-> ev.superseded,
                              superseding |-> Len(t.forecasts) + 1]])

ReplayForecastCreated(r, ev) ==
  LET t == r.tables
      f == ev.forecast
      id == Len(t.forecasts) + 1
  IN  Step(r,
        /\ f.scope \in {0} \cup DOMAIN t.deliverables
        /\ IF f.supersedes = 0
             THEN t.pending = NoPending /\ t.forecastHead[f.scope] = 0
             ELSE t.pending = [scope |-> f.scope,
                               superseded |-> f.supersedes,
                               superseding |-> id],
        [t EXCEPT !.forecasts = Append(@, f), !.forecastHead[f.scope] = id,
                  !.pending = NoPending])

\* target.changed, deadline.changed
ReplayDateChanged(r, ev) ==
  LET t == r.tables IN
  Step(r, ev.date.supersedes = t.dateHead[ev.date.kind],
       [t EXCEPT !.dates = Append(@, ev.date),
                 !.dateHead[ev.date.kind] = Len(t.dates) + 1])

\* evidence.created, evidence.superseded
ReplayEvidence(r, ev) ==
  LET t == r.tables
      old == ev.evidence.supersedes
  IN  Step(r, /\ ev.evidence.by = ev.by /\ ev.evidence.supports # {}
              /\ \A x \in ev.evidence.supports : TargetExists(t, x)
              /\ old # 0 => old \in DOMAIN t.evidence /\ ~Superseded(t, old),
           [t EXCEPT !.evidence = Append(@, ev.evidence)])

ReplayGateCreated(r, ev) ==
  LET t == r.tables IN
  Step(r, /\ ev.gate.deliverable \in DOMAIN t.deliverables
          /\ ev.gate.state = "pending" /\ ev.gate.version = 1
          /\ ev.gate.claims # {},
       [t EXCEPT !.gates = Append(@, ev.gate)])

ReplayVerdict(r, ev) ==
  LET t == r.tables
      v == ev.verdict
      d == ev.gate.deliverable
      prior == t.gates[v.gate]
  IN  Step(r,
        /\ v.gate \in DOMAIN t.gates
        /\ ev.gate.version = prior.version + 1
        /\ \/ prior.state = "pending" /\ ev.gate.state \in {"passed", "failed"}
           \/ prior.state = "failed" /\ ev.gate.state = "passed"
        /\ v.result = IF ev.gate.state = "passed" THEN "pass" ELSE "fail"
        /\ v.supersedes = LastVerdict(t, v.gate)
        /\ v.reviewer = ev.by
        /\ t.deliverables[d].state = "submitted"
        /\ t.submissionHead[d] # 0
        /\ ReplaySelection(t, v.evidence)
        /\ EvidenceMeetsGate(t, v.evidence, v.gate)
        /\ prior.independent => IndependentReviewer(t, ev.by, d, v.evidence),
        [t EXCEPT !.gates[v.gate] = ev.gate, !.verdicts = Append(@, v)])

ReplayFindingCreated(r, ev) ==
  LET t == r.tables
      f == ev.finding
  IN  Step(r, /\ f.state = "open" /\ f.version = 1
              /\ f.verdict \in DOMAIN t.verdicts
              /\ t.verdicts[f.verdict].result = "fail"
              /\ t.verdicts[f.verdict].gate = f.gate
              /\ t.gates[f.gate].deliverable = f.deliverable,
           [t EXCEPT !.findings = Append(@, f)])

\* finding.resolved, finding.withdrawn
ReplayDisposition(r, ev) ==
  LET t == r.tables
      x == ev.action
  IN  Step(r, /\ x.finding \in DOMAIN t.findings
              /\ t.findings[x.finding].state = "open"
              /\ ev.finding.state = IF x.action = "resolve" THEN "resolved"
                                                            ELSE "withdrawn"
              /\ ev.finding.version = t.findings[x.finding].version + 1
              /\ x.deliverable = ev.finding.deliverable
              /\ ReplaySelection(t, x.evidence)
              /\ EvidenceLinked(t, x.evidence, x.finding),
           [t EXCEPT !.findings[x.finding] = ev.finding,
                     !.actions = Append(@, x)])

\* deliverable.submitted, deliverable.resubmitted
ReplaySubmission(r, ev) ==
  LET t == r.tables
      s == ev.submission
      d == s.deliverable
  IN  Step(r, /\ d \in DOMAIN t.deliverables
              /\ ev.deliverable.state = "submitted"
              /\ ev.deliverable.version = t.deliverables[d].version + 1
              /\ s.by = ev.by
              /\ ReplaySelection(t, s.evidence)
              /\ EvidenceMeetsContract(t, s.evidence, d)
              /\ \/ s.kind = "submit" /\ t.deliverables[d].state = "ready"
                 \/ /\ s.kind = "resubmit"
                    /\ t.deliverables[d].state = "bounced"
                    /\ OpenFindings(t, d) = {}
                    /\ ResolutionLinked(t, s.evidence, d),
           [t EXCEPT !.deliverables[d] = ev.deliverable,
                     !.submissions = Append(@, s),
                     !.submissionHead[d] = Len(t.submissions) + 1])

\* deliverable.bounced, deliverable.accepted
ReplayReview(r, ev) ==
  LET t == r.tables
      d == ev.id
  IN  Step(r, /\ d \in DOMAIN t.deliverables
              /\ t.deliverables[d].state = "submitted"
              /\ ev.deliverable.version = t.deliverables[d].version + 1
              /\ \/ /\ ev.deliverable.state = "bounced"
                    /\ ev.finding \in OpenFindings(t, d)
                 \/ /\ ev.deliverable.state = "accepted" /\ ev.finding = 0
                    /\ GatesOf(t, d) # {} /\ IncompleteHard(t, d) = {}
                    /\ OpenFindings(t, d) = {},
           [t EXCEPT !.deliverables[d] = ev.deliverable])

ReplayCancelled(r, ev) ==
  LET t == r.tables
      prior == t.deliverables[ev.id]
  IN  Step(r, /\ ev.id \in DOMAIN t.deliverables
              /\ prior.state \in {"draft", "ready"} /\ ~prior.required
              /\ ev.deliverable.state = "cancelled" /\ ~ev.deliverable.required
              /\ ev.deliverable.version = prior.version + 1,
           [t EXCEPT !.deliverables[ev.id] = ev.deliverable])

\* The waiver names a decision already replayed, taken by a human.
WaiverDecided(t, waiver, by) ==
  /\ waiver \in DOMAIN t.decisions
  /\ t.decisions[waiver].kind = "waiver"
  /\ t.decisions[waiver].by \in Humans
  /\ t.decisions[waiver].by = by

ReplayDeliverableWaived(r, ev) ==
  LET t == r.tables
      prior == t.deliverables[ev.id]
      ids == t.decisions[ev.deliverable.waiver].evidence
  IN  Step(r, /\ ev.id \in DOMAIN t.deliverables
              /\ prior.state \in {"ready", "submitted", "bounced"}
              /\ ev.deliverable.version = prior.version + 1
              /\ WaiverDecided(t, ev.deliverable.waiver, ev.by)
              /\ ReplaySelection(t, ids)
              /\ EvidenceMeetsContract(t, ids, ev.id)
              /\ IncompleteHard(t, ev.id) = {}
              /\ BlockingFindings(t, ev.id) = {},
           [t EXCEPT !.deliverables[ev.id] = ev.deliverable])

ReplayGateWaived(r, ev) ==
  LET t == r.tables
      prior == t.gates[ev.id]
      ids == t.decisions[ev.gate.waiver].evidence
  IN  Step(r, /\ ev.id \in DOMAIN t.gates
              /\ ~prior.hard /\ prior.state \in {"pending", "failed"}
              /\ ev.gate.version = prior.version + 1
              /\ WaiverDecided(t, ev.gate.waiver, ev.by)
              /\ ReplaySelection(t, ids)
              /\ EvidenceMeetsGate(t, ids, ev.id)
              /\ IncompleteHard(t, prior.deliverable) = {}
              /\ BlockingFindings(t, prior.deliverable) = {},
           [t EXCEPT !.gates[ev.id] = ev.gate])
=============================================================================
