--------------------------- MODULE WorkspaceProofs ---------------------------
(***************************************************************************)
(* The commands of a project: what they write (Workspace) and the          *)
(* transactions that carry them (CommandTx); the two share no variable.    *)
(*                                                                         *)
(* Workspace for every set of actors, claims and contracts, all budgets    *)
(* and any number of rows: the types of the tables, that a replay of the   *)
(* events rebuilds them, that an acceptance stays reviewed, that findings  *)
(* hold a deliverable up, that review freezes what it judges by, and that  *)
(* corrections form chains.                                                *)
(*                                                                         *)
(* For each command or family of commands a lemma named ...Effect says     *)
(* what it changes in the tables, one named ...Review that ReviewInv       *)
(* survives it, and one named ...Replay that the replay of its events      *)
(* accepts them and arrives at the same tables.  The ...Good lemmas put    *)
(* these together.                                                         *)
(*                                                                         *)
(* CommandTx for every set of projects, requests and concurrent calls:     *)
(* type correctness, that a caller told of success was told of the one     *)
(* effect of its key, that the transactions implement CommandLedger, and   *)
(* the version history of every project.                                   *)
(***************************************************************************)
EXTENDS Workspace, CommandTx, SequenceTheorems, FiniteSetTheorems,
        WellFoundedInduction, TLAPS

-----------------------------------------------------------------------------
(* The types of the rows.  Between commands no forecast is pending.        *)

ProjectRow == [mode : {"exploration", "exploitation"},
               state : {"proposed", "active", "held"}, version : Nat]
DecisionRow == [kind : {"continue", "promote", "waiver"},
                evidence : SUBSET Nat, by : Actors]
DeliverableRow ==
  [required : BOOLEAN,
   state : {"draft", "ready", "submitted", "bounced", "accepted", "waived",
            "cancelled"},
   version : Nat, creator : Actors, waiver : Nat]
ForecastRow == [scope : Scopes, supersedes : Nat]
DateRow == [kind : DateKinds, supersedes : Nat]
TargetRow == {"deliverable", "gate", "finding", "decision"} \X Nat
EvidenceRow == [claim : Claims, by : Actors, supports : SUBSET TargetRow,
                supersedes : Nat]
GateRow == [deliverable : Nat, hard : BOOLEAN, independent : BOOLEAN,
            claims : SUBSET Claims,
            state : {"pending", "passed", "failed", "waived"},
            version : Nat, waiver : Nat]
VerdictRow == [gate : Nat, result : {"pass", "fail"}, evidence : SUBSET Nat,
               reviewer : Actors, supersedes : Nat]
FindingRow == [deliverable : Nat, gate : Nat, verdict : Nat,
               blocking : BOOLEAN, state : {"open", "resolved", "withdrawn"},
               version : Nat]
ActionRow == [finding : Nat, deliverable : Nat,
              action : {"resolve", "withdraw"}, evidence : SUBSET Nat]
SubmissionRow == [deliverable : Nat, kind : {"submit", "resubmit"},
                  evidence : SUBSET Nat, by : Actors]

Tables ==
  [project : ProjectRow, decisions : Seq(DecisionRow),
   deliverables : Seq(DeliverableRow), forecasts : Seq(ForecastRow),
   forecastHead : [Scopes -> Nat], pending : {NoPending},
   dates : Seq(DateRow), dateHead : [DateKinds -> Nat],
   evidence : Seq(EvidenceRow), gates : Seq(GateRow),
   verdicts : Seq(VerdictRow), findings : Seq(FindingRow),
   actions : Seq(ActionRow), submissions : Seq(SubmissionRow),
   submissionHead : [Scopes -> Nat]]

LEMMA Put ==
  ASSUME NEW t \in Tables, NEW x
  PROVE  /\ x \in Seq(DecisionRow) => [t EXCEPT !.decisions = x] \in Tables
         /\ x \in Seq(DeliverableRow) =>
              [t EXCEPT !.deliverables = x] \in Tables
         /\ x \in Seq(ForecastRow) => [t EXCEPT !.forecasts = x] \in Tables
         /\ x \in [Scopes -> Nat] => [t EXCEPT !.forecastHead = x] \in Tables
         /\ x \in Seq(DateRow) => [t EXCEPT !.dates = x] \in Tables
         /\ x \in [DateKinds -> Nat] => [t EXCEPT !.dateHead = x] \in Tables
         /\ x \in Seq(EvidenceRow) => [t EXCEPT !.evidence = x] \in Tables
         /\ x \in Seq(GateRow) => [t EXCEPT !.gates = x] \in Tables
         /\ x \in Seq(VerdictRow) => [t EXCEPT !.verdicts = x] \in Tables
         /\ x \in Seq(FindingRow) => [t EXCEPT !.findings = x] \in Tables
         /\ x \in Seq(ActionRow) => [t EXCEPT !.actions = x] \in Tables
         /\ x \in Seq(SubmissionRow) => [t EXCEPT !.submissions = x] \in Tables
         /\ x \in [Scopes -> Nat] => [t EXCEPT !.submissionHead = x] \in Tables
         /\ x \in ProjectRow => [t EXCEPT !.project = x] \in Tables
BY DEF Tables

LEMMA PutVersion ==
  ASSUME NEW t \in Tables, NEW n \in Nat
  PROVE  [t EXCEPT !.project.version = n] \in Tables
<1>1. [t.project EXCEPT !.version = n] \in ProjectRow
  BY DEF Tables, ProjectRow
<1> QED
  BY <1>1 DEF Tables
-----------------------------------------------------------------------------
Budget == [planning : Nat, review : Nat, deliverables : 0 .. MaxDeliverables,
           gates : Nat, evidence : Nat]

Typed == live \in Tables /\ budget \in Budget

\* Rows refer to rows that exist.
Referring ==
  /\ Len(live.deliverables) <= MaxDeliverables
  /\ \A g \in DOMAIN live.gates :
       live.gates[g].deliverable \in DOMAIN live.deliverables
  /\ \A f \in DOMAIN live.findings :
       live.findings[f].deliverable \in DOMAIN live.deliverables
  /\ \A v \in DOMAIN live.verdicts :
       live.verdicts[v].evidence \subseteq DOMAIN live.evidence

\* The head of a scope is a forecast of that scope.
Heads ==
  \A s \in Scopes : live.forecastHead[s] # 0 =>
    /\ live.forecastHead[s] \in DOMAIN live.forecasts
    /\ live.forecasts[live.forecastHead[s]].scope = s

\* What reached review was submitted.
Submitted ==
  \A d \in DOMAIN live.deliverables :
    InState(d, {"submitted", "bounced", "accepted"}) =>
      live.submissionHead[d] # 0

\* No gate of an accepted deliverable is undone.
GatesStayPassed ==
  \A d \in DOMAIN live.deliverables :
    InState(d, {"accepted"}) =>
      /\ \E g \in DOMAIN live.gates : live.gates[g].deliverable = d
      /\ \A g \in DOMAIN live.gates :
           live.gates[g].deliverable = d /\ live.gates[g].hard =>
             live.gates[g].state = "passed"

\* A gate is passed by its last verdict.
PassedByVerdict ==
  \A g \in DOMAIN live.gates :
    LET last == LastVerdict(live, g)
    IN  live.gates[g].state = "passed" =>
          /\ last # 0 /\ live.verdicts[last].result = "pass"
          /\ EvidenceMeetsGate(live, live.verdicts[last].evidence, g)

ReviewInv ==
  Referring /\ Submitted /\ GatesStayPassed /\ PassedByVerdict /\ FindingsHoldUp

\* What executeProjectMutation does besides the rows of the command.
LEMMA WrittenEffect ==
  ASSUME Typed, NEW family \in {"planning", "review"}, NEW t \in Tables,
         NEW n \in Nat, Written(family, t, n)
  PROVE  /\ Typed'
         /\ live' = [t EXCEPT !.project.version = live.project.version + n]
         /\ live'.deliverables = t.deliverables /\ live'.gates = t.gates
         /\ live'.findings = t.findings /\ live'.verdicts = t.verdicts
         /\ live'.evidence = t.evidence /\ live'.decisions = t.decisions
         /\ live'.submissionHead = t.submissionHead
         /\ live'.forecasts = t.forecasts
         /\ live'.forecastHead = t.forecastHead
         /\ live'.project.mode = t.project.mode
         /\ live'.project.state = t.project.state
<1>0. live.project.version \in Nat
  BY DEF Typed, Tables, ProjectRow
<1>1. live.project.version + n \in Nat
  BY <1>0
<1>2. live' = [t EXCEPT !.project.version = live.project.version + n]
  BY DEF Written
<1>3. live' \in Tables
  BY <1>1, <1>2, PutVersion
<1>4. budget' \in Budget
  BY DEF Written, Typed, Budget
<1> QED
  BY <1>2, <1>3, <1>4 DEF Typed, Tables, ProjectRow


LEMMA Rows ==
  ASSUME Typed
  PROVE  /\ live \in Tables /\ live.project \in ProjectRow
         /\ live.decisions \in Seq(DecisionRow)
         /\ live.deliverables \in Seq(DeliverableRow)
         /\ live.forecasts \in Seq(ForecastRow)
         /\ live.forecastHead \in [Scopes -> Nat]
         /\ live.dates \in Seq(DateRow) /\ live.dateHead \in [DateKinds -> Nat]
         /\ live.evidence \in Seq(EvidenceRow) /\ live.gates \in Seq(GateRow)
         /\ live.verdicts \in Seq(VerdictRow)
         /\ live.findings \in Seq(FindingRow)
         /\ live.actions \in Seq(ActionRow)
         /\ live.submissions \in Seq(SubmissionRow)
         /\ live.submissionHead \in [Scopes -> Nat]
BY DEF Typed, Tables

LEMMA Appended ==
  ASSUME NEW T, NEW s \in Seq(T), NEW x \in T
  PROVE  /\ Append(s, x) \in Seq(T) /\ Len(s) \in Nat
         /\ Len(Append(s, x)) = Len(s) + 1
         /\ DOMAIN s = 1 .. Len(s) /\ DOMAIN Append(s, x) = 1 .. Len(s) + 1
         /\ \A i \in 1 .. Len(s) : Append(s, x)[i] = s[i]
         /\ Append(s, x)[Len(s) + 1] = x
OBVIOUS

LEMMA Replaced ==
  ASSUME NEW T, NEW s \in Seq(T), NEW x \in T, NEW d \in DOMAIN s
  PROVE  /\ [s EXCEPT ![d] = x] \in Seq(T)
         /\ Len([s EXCEPT ![d] = x]) = Len(s)
         /\ DOMAIN [s EXCEPT ![d] = x] = DOMAIN s
         /\ [s EXCEPT ![d] = x][d] = x
         /\ \A i \in DOMAIN s : i # d => [s EXCEPT ![d] = x][i] = s[i]
OBVIOUS

ReviewTables == <<live.deliverables, live.gates, live.findings, live.verdicts,
                  live.evidence, live.submissionHead>>
ForecastTables == <<live.forecasts, live.forecastHead>>

-----------------------------------------------------------------------------
(* What each command writes.                                               *)

LEMMA QuietEffect ==
  ASSUME Typed,
         \/ \E a \in Actors : RecordDecision(a)
         \/ \E command \in {"activated", "held", "resumed"} : Lifecycle(command)
         \/ \E kind \in DateKinds : SetDate(kind)
  PROVE  /\ Typed' /\ UNCHANGED ReviewTables /\ UNCHANGED ForecastTables
<1>1. ASSUME NEW a \in Actors, RecordDecision(a)
      PROVE  /\ Typed' /\ UNCHANGED ReviewTables /\ UNCHANGED ForecastTables
  <2> DEFINE item == [kind |-> "continue", evidence |-> {}, by |-> a]
             t == [live EXCEPT !.decisions = Append(@, item)]
  <2>1. item \in DecisionRow
    BY DEF DecisionRow
  <2>2. t \in Tables
    BY <2>1, Rows, Appended, Put
  <2>3. Written("planning", t, 1)
    BY <1>1 DEF RecordDecision
  <2>4. /\ t.deliverables = live.deliverables /\ t.gates = live.gates
        /\ t.findings = live.findings /\ t.verdicts = live.verdicts
        /\ t.evidence = live.evidence
        /\ t.submissionHead = live.submissionHead
        /\ t.forecasts = live.forecasts
        /\ t.forecastHead = live.forecastHead
    BY Rows DEF Tables
  <2> HIDE DEF t
  <2> QED
    BY <2>2, <2>3, <2>4, WrittenEffect DEF ReviewTables, ForecastTables
<1>2. ASSUME NEW command \in {"activated", "held", "resumed"},
             Lifecycle(command)
      PROVE  /\ Typed' /\ UNCHANGED ReviewTables /\ UNCHANGED ForecastTables
  <2> DEFINE p == [live.project EXCEPT
                     !.state = IF command = "held" THEN "held" ELSE "active",
                     !.version = @ + 1]
             t == [live EXCEPT !.project = p]
  <2>0. live.project \in ProjectRow /\ live.project.version + 1 \in Nat
    BY Rows DEF ProjectRow
  <2>1. p \in ProjectRow
    BY <2>0 DEF ProjectRow
  <2>2. t \in Tables
    BY <2>1, Rows, Put
  <2>3. Written("planning", t, 1)
    BY <1>2 DEF Lifecycle
  <2>4. /\ t.deliverables = live.deliverables /\ t.gates = live.gates
        /\ t.findings = live.findings /\ t.verdicts = live.verdicts
        /\ t.evidence = live.evidence
        /\ t.submissionHead = live.submissionHead
        /\ t.forecasts = live.forecasts
        /\ t.forecastHead = live.forecastHead
    BY Rows DEF Tables
  <2> HIDE DEF t
  <2> QED
    BY <2>2, <2>3, <2>4, WrittenEffect DEF ReviewTables, ForecastTables
<1>3. ASSUME NEW kind \in DateKinds, SetDate(kind)
      PROVE  /\ Typed' /\ UNCHANGED ReviewTables /\ UNCHANGED ForecastTables
  <2> DEFINE item == [kind |-> kind, supersedes |-> live.dateHead[kind]]
             u == [live EXCEPT !.dates = Append(@, item)]
             t == [live EXCEPT !.dates = Append(@, item),
                               !.dateHead[kind] = Len(live.dates) + 1]
  <2>1. item \in DateRow
    BY Rows DEF DateRow
  <2>2. u \in Tables
    BY <2>1, Rows, Appended, Put
  <2>3. /\ t = [u EXCEPT !.dateHead =
                       [live.dateHead EXCEPT ![kind] = Len(live.dates) + 1]]
        /\ [live.dateHead EXCEPT ![kind] = Len(live.dates) + 1]
             \in [DateKinds -> Nat]
    BY Rows DEF Tables
  <2>4. t \in Tables
    BY <2>2, <2>3, Put
  <2>5. Written("planning", t, 1)
    BY <1>3 DEF SetDate
  <2>6. /\ t.deliverables = live.deliverables /\ t.gates = live.gates
        /\ t.findings = live.findings /\ t.verdicts = live.verdicts
        /\ t.evidence = live.evidence
        /\ t.submissionHead = live.submissionHead
        /\ t.forecasts = live.forecasts
        /\ t.forecastHead = live.forecastHead
    BY Rows DEF Tables
  <2> HIDE DEF t
  <2> QED
    BY <2>4, <2>5, <2>6, WrittenEffect DEF ReviewTables, ForecastTables
<1> QED
  BY <1>1, <1>2, <1>3

LEMMA ReforecastEffect ==
  ASSUME Typed, NEW scope \in Scopes, Reforecast(scope)
  PROVE  /\ Typed' /\ UNCHANGED ReviewTables
         /\ live'.forecasts =
              Append(live.forecasts, [scope |-> scope,
                                      supersedes |-> live.forecastHead[scope]])
         /\ live'.forecastHead =
              [live.forecastHead EXCEPT ![scope] = Len(live.forecasts) + 1]
<1> DEFINE item == [scope |-> scope, supersedes |-> live.forecastHead[scope]]
           head == [live.forecastHead EXCEPT ![scope] = Len(live.forecasts) + 1]
           u == [live EXCEPT !.forecasts = Append(@, item)]
           t == [live EXCEPT !.forecasts = Append(@, item),
                             !.forecastHead[scope] = Len(live.forecasts) + 1]
           n == IF live.forecastHead[scope] = 0 THEN 1 ELSE 2
<1>1. item \in ForecastRow /\ head \in [Scopes -> Nat]
  BY Rows DEF ForecastRow
<1>2. u \in Tables
  BY <1>1, Rows, Appended, Put
<1>3. t = [u EXCEPT !.forecastHead = head]
  BY Rows DEF Tables
<1>4. t \in Tables
  BY <1>1, <1>2, <1>3, Put
<1>5. Written("planning", t, n) /\ n \in Nat
  BY DEF Reforecast
<1>6. /\ t.deliverables = live.deliverables /\ t.gates = live.gates
      /\ t.findings = live.findings /\ t.verdicts = live.verdicts
      /\ t.evidence = live.evidence
      /\ t.submissionHead = live.submissionHead
      /\ t.forecasts = Append(live.forecasts, item) /\ t.forecastHead = head
  BY Rows DEF Tables
<1> HIDE DEF t, n
<1> QED
  BY <1>4, <1>5, <1>6, WrittenEffect DEF ReviewTables

LEMMA AddDeliverableEffect ==
  ASSUME Typed, Referring, NEW a \in Actors, NEW state \in OpenStates,
         NEW required \in BOOLEAN,
         \/ required /\ PromoteProject(a, state)
         \/ CreateDeliverable(a, required, state)
  PROVE  /\ Typed'
         /\ NewDeliverable(a, required, state) \in DeliverableRow
         /\ live'.deliverables =
              Append(live.deliverables, NewDeliverable(a, required, state))
         /\ Len(live.deliverables) < MaxDeliverables
         /\ live'.gates = live.gates /\ live'.findings = live.findings
         /\ live'.verdicts = live.verdicts /\ live'.evidence = live.evidence
         /\ live'.submissionHead = live.submissionHead
         /\ UNCHANGED ForecastTables
<1> DEFINE item == NewDeliverable(a, required, state)
<1>1. item \in DeliverableRow
  BY DEF NewDeliverable, DeliverableRow, OpenStates
<1>2. Append(live.deliverables, item) \in Seq(DeliverableRow)
  BY <1>1, Rows, Appended
<1>3. Len(live.deliverables) < budget.deliverables
      /\ budget.deliverables \in 0 .. MaxDeliverables
  BY DEF PromoteProject, CreateDeliverable, Typed, Budget
<1>4. Len(live.deliverables) < MaxDeliverables
  BY <1>3, Rows, WorkspaceConstants
<1>5. CASE required /\ PromoteProject(a, state)
  <2> DEFINE decision == [kind |-> "promote", evidence |-> {}, by |-> a]
             p == [live.project EXCEPT !.mode = "exploitation",
                                       !.version = @ + 3]
             u == [live EXCEPT !.decisions = Append(@, decision)]
             v == [u EXCEPT !.deliverables = Append(live.deliverables, item)]
             t == [live EXCEPT !.decisions = Append(@, decision),
                               !.deliverables = Append(@, item),
                               !.project = p]
  <2>1. decision \in DecisionRow
    BY DEF DecisionRow
  <2>2. u \in Tables
    BY <2>1, Rows, Appended, Put
  <2>3. v \in Tables
    BY <1>2, <2>2, Put
  <2>4. live.project \in ProjectRow /\ live.project.version + 3 \in Nat
    BY Rows DEF ProjectRow
  <2>5. p \in ProjectRow
    BY <2>4 DEF ProjectRow
  <2>6. t = [v EXCEPT !.project = p]
    BY Rows DEF Tables
  <2>7. t \in Tables
    BY <2>3, <2>5, <2>6, Put
  <2>8. Written("planning", t, 3)
    BY <1>5 DEF PromoteProject
  <2>9. /\ t.deliverables = Append(live.deliverables, item)
        /\ t.gates = live.gates /\ t.findings = live.findings
        /\ t.verdicts = live.verdicts /\ t.evidence = live.evidence
        /\ t.submissionHead = live.submissionHead
        /\ t.forecasts = live.forecasts
        /\ t.forecastHead = live.forecastHead
    BY Rows DEF Tables
  <2> HIDE DEF t, item
  <2>10. /\ Typed' /\ live'.deliverables = Append(live.deliverables, item)
         /\ live'.gates = live.gates /\ live'.findings = live.findings
         /\ live'.verdicts = live.verdicts /\ live'.evidence = live.evidence
         /\ live'.submissionHead = live.submissionHead
         /\ UNCHANGED ForecastTables
    BY <2>7, <2>8, <2>9, WrittenEffect DEF ForecastTables
  <2> QED
    BY <1>1, <1>4, <2>10 DEF item
<1>6. CASE CreateDeliverable(a, required, state)
  <2> DEFINE t == [live EXCEPT !.deliverables = Append(@, item)]
  <2>1. t \in Tables
    BY <1>2, Rows, Put
  <2>2. Written("planning", t, 1)
    BY <1>6 DEF CreateDeliverable
  <2> QED
    BY <1>1, <1>4, <2>1, <2>2, Rows, WrittenEffect DEF Tables, ForecastTables
<1> QED
  BY <1>5, <1>6

LEMMA MovedTyped ==
  ASSUME Typed, NEW d \in DOMAIN live.deliverables,
         NEW state \in {"draft", "ready", "submitted", "bounced", "accepted",
                        "waived", "cancelled"}
  PROVE  /\ live.deliverables[d] \in DeliverableRow
         /\ Moved(d, state) \in DeliverableRow
         /\ Moved(d, state).state = state
         /\ Moved(d, state).required = live.deliverables[d].required
         /\ Moved(d, state).creator = live.deliverables[d].creator
         /\ Moved(d, state).waiver = live.deliverables[d].waiver
         /\ Moved(d, state).version = live.deliverables[d].version + 1
<1>1. live.deliverables[d] \in DeliverableRow
  BY Rows
<1>2. live.deliverables[d].version + 1 \in Nat
  BY <1>1 DEF DeliverableRow
<1> QED
  BY <1>1, <1>2 DEF Moved, Deliverable, DeliverableRow

\* The row a command writes over deliverable d.
LEMMA DeliverableWritten ==
  ASSUME Typed, NEW d \in DOMAIN live.deliverables, NEW item \in DeliverableRow,
         NEW family \in {"planning", "review"},
         Written(family, [live EXCEPT !.deliverables[d] = item], 1)
  PROVE  /\ Typed'
         /\ live'.deliverables = [live.deliverables EXCEPT ![d] = item]
         /\ live'.gates = live.gates /\ live'.findings = live.findings
         /\ live'.verdicts = live.verdicts /\ live'.evidence = live.evidence
         /\ live'.submissionHead = live.submissionHead
         /\ UNCHANGED ForecastTables
<1> DEFINE rows == [live.deliverables EXCEPT ![d] = item]
           t == [live EXCEPT !.deliverables[d] = item]
<1>1. rows \in Seq(DeliverableRow)
  BY Rows, Replaced
<1>2. t = [live EXCEPT !.deliverables = rows]
  BY Rows DEF Tables
<1>3. t \in Tables
  BY <1>1, <1>2, Rows, Put
<1>4. /\ t.deliverables = rows /\ t.gates = live.gates
      /\ t.findings = live.findings /\ t.verdicts = live.verdicts
      /\ t.evidence = live.evidence
      /\ t.submissionHead = live.submissionHead
      /\ t.forecasts = live.forecasts /\ t.forecastHead = live.forecastHead
  BY <1>2, Rows DEF Tables
<1>5. Written(family, t, 1)
  OBVIOUS
<1> HIDE DEF t
<1> QED
  BY <1>3, <1>4, <1>5, WrittenEffect DEF ForecastTables

LEMMA ChangeDeliverableEffect ==
  ASSUME Typed, NEW d \in DOMAIN live.deliverables,
         \/ \E required \in BOOLEAN, state \in OpenStates :
              ReviseDeliverable(d, required, state)
         \/ CancelDeliverable(d)
         \/ \E f \in DOMAIN live.findings : BounceDeliverable(d, f)
         \/ ApproveDeliverable(d)
  PROVE  /\ Typed'
         /\ \E item \in DeliverableRow :
              /\ live'.deliverables = [live.deliverables EXCEPT ![d] = item]
              /\ \/ InState(d, OpenStates) /\ item.state \in OpenStates
                 \/ /\ InState(d, OpenStates) /\ item.state = "cancelled"
                    /\ item.required = live.deliverables[d].required
                 \/ /\ InState(d, {"submitted"}) /\ item.state = "bounced"
                    /\ item.required = live.deliverables[d].required
                 \/ /\ InState(d, {"submitted"}) /\ item.state = "accepted"
                    /\ item.required = live.deliverables[d].required
                    /\ Approvable(d)
         /\ live'.gates = live.gates /\ live'.findings = live.findings
         /\ live'.verdicts = live.verdicts /\ live'.evidence = live.evidence
         /\ live'.submissionHead = live.submissionHead
         /\ UNCHANGED ForecastTables
<1> DEFINE
      Wrote(item) ==
        /\ live'.deliverables = [live.deliverables EXCEPT ![d] = item]
        /\ \/ InState(d, OpenStates) /\ item.state \in OpenStates
           \/ /\ InState(d, OpenStates) /\ item.state = "cancelled"
              /\ item.required = live.deliverables[d].required
           \/ /\ InState(d, {"submitted"}) /\ item.state = "bounced"
              /\ item.required = live.deliverables[d].required
           \/ /\ InState(d, {"submitted"}) /\ item.state = "accepted"
              /\ item.required = live.deliverables[d].required
              /\ Approvable(d)
      Goal == /\ Typed' /\ \E item \in DeliverableRow : Wrote(item)
              /\ live'.gates = live.gates /\ live'.findings = live.findings
              /\ live'.verdicts = live.verdicts
              /\ live'.evidence = live.evidence
              /\ live'.submissionHead = live.submissionHead
              /\ UNCHANGED ForecastTables
<1>1. ASSUME NEW required \in BOOLEAN, NEW state \in OpenStates,
             ReviseDeliverable(d, required, state)
      PROVE  Goal
  <2> DEFINE item == [Moved(d, state) EXCEPT !.required = required]
  <2>1. Moved(d, state) \in DeliverableRow /\ Moved(d, state).state = state
    BY MovedTyped DEF OpenStates
  <2>2. item \in DeliverableRow /\ item.state = state
    BY <2>1 DEF DeliverableRow
  <2>3. /\ InState(d, OpenStates)
        /\ Written("planning", [live EXCEPT !.deliverables[d] = item], 1)
    BY <1>1 DEF ReviseDeliverable, OpenStates
  <2> QED
    BY <2>2, <2>3, DeliverableWritten
<1>2. ASSUME CancelDeliverable(d) PROVE Goal
  <2> DEFINE item == Moved(d, "cancelled")
  <2>1. /\ InState(d, OpenStates)
        /\ Written("planning", [live EXCEPT !.deliverables[d] = item], 1)
    BY <1>2 DEF CancelDeliverable, OpenStates
  <2> QED
    BY <2>1, MovedTyped, DeliverableWritten
<1>3. ASSUME NEW f \in DOMAIN live.findings, BounceDeliverable(d, f)
      PROVE  Goal
  <2> DEFINE item == Moved(d, "bounced")
  <2>1. /\ InState(d, {"submitted"})
        /\ Written("review", [live EXCEPT !.deliverables[d] = item], 1)
    BY <1>3 DEF BounceDeliverable
  <2> QED
    BY <2>1, MovedTyped, DeliverableWritten
<1>4. ASSUME ApproveDeliverable(d) PROVE Goal
  <2> DEFINE item == Moved(d, "accepted")
  <2>1. /\ InState(d, {"submitted"}) /\ Approvable(d)
        /\ Written("review", [live EXCEPT !.deliverables[d] = item], 1)
    BY <1>4 DEF ApproveDeliverable
  <2> QED
    BY <2>1, MovedTyped, DeliverableWritten
<1> QED
  BY <1>1, <1>2, <1>3, <1>4

LEMMA TargetsTyped ==
  ASSUME Typed, NEW cited \in Targets
  PROVE  {cited} \in SUBSET TargetRow
<1>1. /\ DOMAIN live.deliverables \subseteq Nat
      /\ DOMAIN live.gates \subseteq Nat /\ DOMAIN live.findings \subseteq Nat
      /\ DOMAIN live.decisions \subseteq Nat
  <2>1. \A T : \A q \in Seq(T) : DOMAIN q \subseteq Nat
    OBVIOUS
  <2>2. /\ live.deliverables \in Seq(DeliverableRow)
        /\ live.gates \in Seq(GateRow) /\ live.findings \in Seq(FindingRow)
        /\ live.decisions \in Seq(DecisionRow)
    BY Rows
  <2> HIDE DEF DeliverableRow, GateRow, FindingRow, DecisionRow
  <2> QED
    BY <2>1, <2>2
<1>2. cited \in TargetRow
  BY <1>1 DEF Targets, TargetRow
<1> QED
  BY <1>2

LEMMA CreateEvidenceEffect ==
  ASSUME Typed, NEW a \in Actors, NEW claim \in Claims,
         NEW supports \in SUBSET TargetRow,
         NEW old \in {0} \cup DOMAIN live.evidence,
         CreateEvidence(a, claim, supports, old)
  PROVE  /\ Typed'
         /\ \E item \in EvidenceRow :
              /\ item.supersedes = old
              /\ live'.evidence = Append(live.evidence, item)
         /\ old # 0 => ~Superseded(live, old)
         /\ live'.deliverables = live.deliverables
         /\ live'.gates = live.gates /\ live'.findings = live.findings
         /\ live'.verdicts = live.verdicts
         /\ live'.submissionHead = live.submissionHead
         /\ UNCHANGED ForecastTables
<1> DEFINE item == [claim |-> claim, by |-> a, supports |-> supports,
                    supersedes |-> old]
           t == [live EXCEPT !.evidence = Append(@, item)]
<1>1. item \in EvidenceRow /\ item.supersedes = old
  BY Rows DEF EvidenceRow
<1>2. Append(live.evidence, item) \in Seq(EvidenceRow)
  BY <1>1, Rows, Appended
<1>3. t \in Tables /\ t = [live EXCEPT !.evidence = Append(live.evidence, item)]
  BY <1>2, Rows, Put
<1>4. Written("review", t, 1) /\ (old # 0 => ~Superseded(live, old))
  BY DEF CreateEvidence, MayCorrect
<1> QED
  BY <1>1, <1>3, <1>4, Rows, WrittenEffect DEF Tables, ForecastTables

LEMMA CreateGateEffect ==
  ASSUME Typed, NEW d \in DOMAIN live.deliverables, NEW contract \in Contracts,
         CreateGate(d, contract)
  PROVE  /\ Typed' /\ BeforeReview(d) /\ contract.claims # {}
         /\ \E item \in GateRow :
              /\ item.deliverable = d /\ item.state = "pending"
              /\ live'.gates = Append(live.gates, item)
         /\ live'.deliverables = live.deliverables
         /\ live'.findings = live.findings
         /\ live'.verdicts = live.verdicts /\ live'.evidence = live.evidence
         /\ live'.submissionHead = live.submissionHead
         /\ UNCHANGED ForecastTables
<1> DEFINE item == [deliverable |-> d, hard |-> contract.hard,
                    independent |-> contract.independent,
                    claims |-> contract.claims,
                    state |-> "pending", version |-> 1, waiver |-> 0]
           t == [live EXCEPT !.gates = Append(@, item)]
<1>0. contract \in [hard : BOOLEAN, independent : BOOLEAN,
                    claims : (SUBSET Claims) \ {{}}]
  BY WorkspaceConstants
<1>1. item \in GateRow /\ contract.claims # {}
  BY <1>0, Rows DEF GateRow
<1>2. Append(live.gates, item) \in Seq(GateRow)
  BY <1>1, Rows, Appended
<1>3. t \in Tables /\ t = [live EXCEPT !.gates = Append(live.gates, item)]
  BY <1>2, Rows, Put
<1>4. Written("review", t, 1) /\ BeforeReview(d)
  BY DEF CreateGate
<1> QED
  BY <1>1, <1>3, <1>4, Rows, WrittenEffect DEF Tables, ForecastTables

\* A set of indices has a largest one, since what is left of n has a least.
LEMMA LargestIndex ==
  ASSUME NEW n \in Nat, NEW S \in SUBSET (1 .. n), S # {}
  PROVE  \E v \in S : \A w \in S : w <= v
<1> DEFINE T == {n - v : v \in S}
<1>1. T \subseteq Nat /\ T # {}
  <2>1. PICK v \in S : TRUE
    OBVIOUS
  <2>2. n - v \in T
    OBVIOUS
  <2>3. T # {}
    BY <2>2
  <2>4. T \subseteq Nat
    OBVIOUS
  <2> QED
    BY <2>3, <2>4
<1>2. PICK x \in T : \A y \in T : ~ (<<y, x>> \in OpToRel(<, Nat))
  BY <1>1, WFMin, NatLessThanWellFounded
<1>3. \A y \in T : y < x => <<y, x>> \in OpToRel(<, Nat)
  BY <1>1 DEF OpToRel
<1>4. PICK v \in S : x = n - v
  OBVIOUS
<1>5. ASSUME NEW w \in S PROVE w <= v
  <2>1. ~ (n - w < x)
    BY <1>2, <1>3
  <2> QED
    BY <2>1, <1>4
<1> QED
  BY <1>5

\* LastVerdict is the last verdict of the gate, or none.
LEMMA LastVerdictIs ==
  ASSUME NEW t, t.verdicts \in Seq(VerdictRow), NEW g
  PROVE  /\ LastVerdict(t, g) \in Nat
         /\ LastVerdict(t, g) # 0 =>
              /\ LastVerdict(t, g) \in DOMAIN t.verdicts
              /\ t.verdicts[LastVerdict(t, g)].gate = g
         /\ \A v \in DOMAIN t.verdicts :
              t.verdicts[v].gate = g => v <= LastVerdict(t, g)
<1> DEFINE of == {v \in DOMAIN t.verdicts : t.verdicts[v].gate = g}
<1>1. CASE of = {}
  BY <1>1 DEF LastVerdict
<1>2. CASE of # {}
  <2>1. of \in SUBSET (1 .. Len(t.verdicts)) /\ Len(t.verdicts) \in Nat
    OBVIOUS
  <2>2. \E v \in of : \A w \in of : w <= v
    BY <1>2, <2>1, LargestIndex
  <2>3. LastVerdict(t, g) \in of /\ \A w \in of : w <= LastVerdict(t, g)
    BY <1>2, <2>2 DEF LastVerdict
  <2> QED
    BY <2>1, <2>3
<1> QED
  BY <1>1, <1>2

\* Gate g after a verdict.
Judged(g, outcome) ==
  [live.gates[g] EXCEPT
     !.state = IF outcome = "pass" THEN "passed" ELSE "failed",
     !.version = @ + 1]

\* What a verdict changes.
VerdictWritten(g, outcome, ids) ==
  /\ Typed' /\ InState(live.gates[g].deliverable, {"submitted"})
  /\ EvidenceMeetsGate(live, ids, g)
  /\ \E gate \in GateRow :
       /\ gate = Judged(g, outcome)
       /\ live'.gates = [live.gates EXCEPT ![g] = gate]
  /\ \E verdict \in VerdictRow :
       /\ verdict.gate = g /\ verdict.result = outcome
       /\ verdict.evidence = ids
       /\ live'.verdicts = Append(live.verdicts, verdict)
  /\ \/ outcome = "pass" /\ live'.findings = live.findings
     \/ \E finding \in FindingRow :
          /\ finding.deliverable = live.gates[g].deliverable
          /\ live'.findings = Append(live.findings, finding)
  /\ live'.deliverables = live.deliverables
  /\ live'.evidence = live.evidence
  /\ live'.submissionHead = live.submissionHead
  /\ UNCHANGED ForecastTables

LEMMA VerdictEffect ==
  ASSUME Typed, Referring, NEW a \in Actors, NEW g \in DOMAIN live.gates,
         NEW ids \in SUBSET DOMAIN live.evidence,
         NEW outcome \in {"pass", "fail"},
         \E blocking \in BOOLEAN : RecordVerdict(a, g, outcome, ids, blocking)
  PROVE  VerdictWritten(g, outcome, ids)
<1> PICK blocking \in BOOLEAN : RecordVerdict(a, g, outcome, ids, blocking)
  OBVIOUS
<1> DEFINE d == live.gates[g].deliverable
           gate == [live.gates[g] EXCEPT
                      !.state = IF outcome = "pass" THEN "passed" ELSE "failed",
                      !.version = @ + 1]
           verdict == [gate |-> g, result |-> outcome, evidence |-> ids,
                       reviewer |-> a, supersedes |-> LastVerdict(live, g)]
           finding == [deliverable |-> d, gate |-> g,
                       verdict |-> Len(live.verdicts) + 1,
                       blocking |-> blocking, state |-> "open", version |-> 1]
           gates == [live.gates EXCEPT ![g] = gate]
           verdicts == Append(live.verdicts, verdict)
           findings == Append(live.findings, finding)
           u == [live EXCEPT !.gates = gates]
           t == [u EXCEPT !.verdicts = verdicts]
           v == [t EXCEPT !.findings = findings]
<1>1. /\ live.gates[g] \in GateRow /\ g \in Nat
      /\ live.gates[g].version + 1 \in Nat
  <2>1. live.gates[g] \in GateRow /\ g \in Nat
    BY Rows
  <2> QED
    BY <2>1 DEF GateRow
<1>2. gate \in GateRow
  BY <1>1 DEF GateRow
<1>3. LastVerdict(live, g) \in Nat
  BY Rows, LastVerdictIs
<1>4. verdict \in VerdictRow
  BY <1>1, <1>3, Rows DEF VerdictRow
<1>5. finding \in FindingRow
  <2>1. Len(live.verdicts) + 1 \in Nat
    BY Rows
  <2> QED
    BY <1>1, <2>1 DEF FindingRow, GateRow
<1>6. gates \in Seq(GateRow) /\ verdicts \in Seq(VerdictRow)
      /\ findings \in Seq(FindingRow)
  BY <1>2, <1>4, <1>5, Rows, Replaced, Appended
<1>7. u \in Tables
  BY <1>6, Rows, Put
<1>8. t \in Tables
  BY <1>6, <1>7, Put
<1>9. v \in Tables
  BY <1>6, <1>8, Put
<1>10. /\ t.gates = gates /\ t.verdicts = verdicts
       /\ t.findings = live.findings
       /\ t.deliverables = live.deliverables /\ t.evidence = live.evidence
       /\ t.submissionHead = live.submissionHead
       /\ t.forecasts = live.forecasts /\ t.forecastHead = live.forecastHead
  BY Rows DEF Tables
<1>11. /\ v.gates = gates /\ v.verdicts = verdicts /\ v.findings = findings
       /\ v.deliverables = live.deliverables /\ v.evidence = live.evidence
       /\ v.submissionHead = live.submissionHead
       /\ v.forecasts = live.forecasts /\ v.forecastHead = live.forecastHead
  BY Rows DEF Tables
<1>12. /\ t = [live EXCEPT !.gates[g] = gate, !.verdicts = Append(@, verdict)]
       /\ v = [[live EXCEPT !.gates[g] = gate, !.verdicts = Append(@, verdict)]
                 EXCEPT !.findings = Append(@, finding)]
  BY Rows DEF Tables
<1>13. /\ InState(d, {"submitted"}) /\ EvidenceMeetsGate(live, ids, g)
       /\ \/ outcome = "pass" /\ Written("review", t, 1)
          \/ Written("review", v, 2)
  BY <1>12 DEF RecordVerdict
<1>14. verdict.gate = g /\ verdict.result = outcome /\ verdict.evidence = ids
  OBVIOUS
<1>15. finding.deliverable = d
  OBVIOUS
<1>16. CASE outcome = "pass" /\ Written("review", t, 1)
  <2> HIDE DEF t, v, u, verdict, finding, gate
  <2>1. /\ Typed' /\ live'.gates = gates /\ live'.verdicts = verdicts
        /\ live'.findings = live.findings
        /\ live'.deliverables = live.deliverables
        /\ live'.evidence = live.evidence
        /\ live'.submissionHead = live.submissionHead
        /\ live'.forecasts = live.forecasts
        /\ live'.forecastHead = live.forecastHead
    BY <1>8, <1>10, <1>16, WrittenEffect
  <2> QED
    BY <1>2, <1>4, <1>13, <1>14, <1>16, <2>1
       DEF VerdictWritten, ForecastTables, gate, Judged
<1>17. CASE Written("review", v, 2)
  <2> HIDE DEF t, v, u, verdict, finding, gate
  <2>1. /\ Typed' /\ live'.gates = gates /\ live'.verdicts = verdicts
        /\ live'.findings = findings
        /\ live'.deliverables = live.deliverables
        /\ live'.evidence = live.evidence
        /\ live'.submissionHead = live.submissionHead
        /\ live'.forecasts = live.forecasts
        /\ live'.forecastHead = live.forecastHead
    BY <1>9, <1>11, <1>17, WrittenEffect
  <2> QED
    BY <1>2, <1>4, <1>5, <1>13, <1>14, <1>15, <2>1
       DEF VerdictWritten, ForecastTables, gate, Judged
<1> QED
  BY <1>13, <1>16, <1>17

LEMMA DisposeEffect ==
  ASSUME Typed, Referring, NEW f \in DOMAIN live.findings,
         NEW action \in {"resolve", "withdraw"},
         NEW ids \in SUBSET DOMAIN live.evidence,
         DisposeFinding(f, action, ids)
  PROVE  /\ Typed'
         /\ \E finding \in FindingRow :
              /\ finding.deliverable = live.findings[f].deliverable
              /\ finding.blocking = live.findings[f].blocking
              /\ finding.state # "open"
              /\ live'.findings = [live.findings EXCEPT ![f] = finding]
         /\ live'.deliverables = live.deliverables
         /\ live'.gates = live.gates /\ live'.evidence = live.evidence
         /\ live'.verdicts = live.verdicts
         /\ live'.submissionHead = live.submissionHead
         /\ UNCHANGED ForecastTables
<1> DEFINE finding == [live.findings[f] EXCEPT
                         !.state = IF action = "resolve" THEN "resolved"
                                                         ELSE "withdrawn",
                         !.version = @ + 1]
           item == [finding |-> f, deliverable |-> finding.deliverable,
                    action |-> action, evidence |-> ids]
           findings == [live.findings EXCEPT ![f] = finding]
           actions == Append(live.actions, item)
           u == [live EXCEPT !.findings = findings]
           t == [u EXCEPT !.actions = actions]
<1>1. live.findings[f] \in FindingRow /\ f \in Nat
  BY Rows
<1>2. live.findings[f].version + 1 \in Nat
  BY <1>1 DEF FindingRow
<1>3. /\ finding \in FindingRow /\ finding.state # "open"
      /\ finding.deliverable = live.findings[f].deliverable
      /\ finding.blocking = live.findings[f].blocking
      /\ finding.deliverable \in Nat
  BY <1>1, <1>2 DEF FindingRow
<1>4. item \in ActionRow
  <2>1. ids \in SUBSET Nat
    BY Rows
  <2> HIDE DEF finding
  <2> QED
    BY <1>1, <1>3, <2>1 DEF ActionRow
<1>5. findings \in Seq(FindingRow) /\ actions \in Seq(ActionRow)
  BY <1>3, <1>4, Rows, Replaced, Appended
<1>6. u \in Tables
  BY <1>5, Rows, Put
<1>7. t \in Tables
  BY <1>5, <1>6, Put
<1>8. /\ t.findings = findings /\ t.gates = live.gates
      /\ t.verdicts = live.verdicts
      /\ t.deliverables = live.deliverables /\ t.evidence = live.evidence
      /\ t.submissionHead = live.submissionHead
      /\ t.forecasts = live.forecasts /\ t.forecastHead = live.forecastHead
  BY Rows DEF Tables
<1>9. t = [live EXCEPT !.findings[f] = finding, !.actions = Append(@, item)]
  BY Rows DEF Tables
<1>10. Written("review", t, 1)
  BY <1>9 DEF DisposeFinding
<1> HIDE DEF t, u, item, finding
<1>11. /\ Typed' /\ live'.findings = findings /\ live'.gates = live.gates
       /\ live'.verdicts = live.verdicts
       /\ live'.deliverables = live.deliverables
       /\ live'.evidence = live.evidence
       /\ live'.submissionHead = live.submissionHead
       /\ UNCHANGED ForecastTables
  BY <1>7, <1>8, <1>10, WrittenEffect DEF ForecastTables
<1> QED
  BY <1>3, <1>11

SubmissionWritten(d) ==
  /\ Typed' /\ InState(d, {"ready", "bounced"})
  /\ \E item \in DeliverableRow :
       /\ item.state = "submitted"
       /\ item.required = live.deliverables[d].required
       /\ live'.deliverables = [live.deliverables EXCEPT ![d] = item]
  /\ \E n \in Nat \ {0} :
       live'.submissionHead = [live.submissionHead EXCEPT ![d] = n]
  /\ live'.gates = live.gates /\ live'.findings = live.findings
  /\ live'.verdicts = live.verdicts /\ live'.evidence = live.evidence
  /\ UNCHANGED ForecastTables

LEMMA SubmitEffect ==
  ASSUME Typed, Referring, NEW a \in Actors, NEW d \in DOMAIN live.deliverables,
         NEW kind \in {"submit", "resubmit"},
         NEW ids \in SUBSET DOMAIN live.evidence, Submit(a, d, kind, ids)
  PROVE  SubmissionWritten(d)
<1> DEFINE item == [deliverable |-> d, kind |-> kind, evidence |-> ids,
                    by |-> a]
           row == Moved(d, "submitted")
           n == Len(live.submissions) + 1
           rows == [live.deliverables EXCEPT ![d] = row]
           submissions == Append(live.submissions, item)
           head == [live.submissionHead EXCEPT ![d] = n]
           u == [live EXCEPT !.deliverables = rows]
           v == [u EXCEPT !.submissions = submissions]
           t == [v EXCEPT !.submissionHead = head]
<1>1. d \in Nat /\ ids \in SUBSET Nat /\ n \in Nat \ {0}
  BY Rows, SMTT(30)
<1>2. item \in SubmissionRow
  BY <1>1 DEF SubmissionRow
<1>3. /\ row \in DeliverableRow /\ row.state = "submitted"
      /\ row.required = live.deliverables[d].required
  BY MovedTyped
<1>4. rows \in Seq(DeliverableRow)
  BY <1>3, Rows, Replaced
<1>5. submissions \in Seq(SubmissionRow)
  BY <1>2, Rows, Appended
<1>6. head \in [Scopes -> Nat]
  BY <1>1, Rows
<1>7. u \in Tables
  BY <1>4, Rows, Put
<1>8. v \in Tables
  BY <1>5, <1>7, Put
<1>9. t \in Tables
  BY <1>6, <1>8, Put
<1>10. /\ t.deliverables = rows /\ t.submissionHead = head
       /\ t.findings = live.findings /\ t.gates = live.gates
       /\ t.verdicts = live.verdicts /\ t.evidence = live.evidence
       /\ t.forecasts = live.forecasts /\ t.forecastHead = live.forecastHead
  BY Rows DEF Tables
<1>11. t = [live EXCEPT !.deliverables[d] = row,
                        !.submissions = Append(@, item),
                        !.submissionHead[d] = n]
  BY Rows DEF Tables
<1>12. Written("review", t, 1) /\ InState(d, {"ready", "bounced"})
  BY <1>11 DEF Submit, InState
<1> HIDE DEF t, u, v, item, row, n
<1>13. /\ Typed' /\ live'.deliverables = rows /\ live'.submissionHead = head
       /\ live'.findings = live.findings /\ live'.gates = live.gates
       /\ live'.verdicts = live.verdicts /\ live'.evidence = live.evidence
       /\ UNCHANGED ForecastTables
  BY <1>9, <1>10, <1>12, WrittenEffect DEF ForecastTables
<1> QED
  BY <1>1, <1>3, <1>12, <1>13 DEF SubmissionWritten

\* The decision a waiver records.
LEMMA WaiverTyped ==
  ASSUME Typed, NEW a \in Actors, NEW ids \in SUBSET DOMAIN live.evidence
  PROVE  /\ Waiver(a, ids) \in DecisionRow
         /\ Append(live.decisions, Waiver(a, ids)) \in Seq(DecisionRow)
         /\ Len(live.decisions) + 1 \in Nat
<1>1. ids \in SUBSET Nat
  BY Rows
<1>2. Waiver(a, ids) \in DecisionRow
  BY <1>1 DEF Waiver, DecisionRow
<1> QED
  BY <1>2, Rows, Appended

LEMMA WaiveDeliverableEffect ==
  ASSUME Typed, Referring, NEW a \in Actors, NEW d \in DOMAIN live.deliverables,
         NEW ids \in SUBSET DOMAIN live.evidence, WaiveDeliverable(a, d, ids)
  PROVE  /\ Typed' /\ InState(d, {"ready", "submitted", "bounced"})
         /\ WaiverPreconditions(d)
         /\ \E item \in DeliverableRow :
              /\ item.state = "waived"
              /\ item.required = live.deliverables[d].required
              /\ live'.deliverables = [live.deliverables EXCEPT ![d] = item]
         /\ live'.gates = live.gates /\ live'.findings = live.findings
         /\ live'.verdicts = live.verdicts /\ live'.evidence = live.evidence
         /\ live'.submissionHead = live.submissionHead
         /\ UNCHANGED ForecastTables
<1> DEFINE moved == Moved(d, "waived")
           n == Len(live.decisions) + 1
           item == [moved EXCEPT !.waiver = n]
           rows == [live.deliverables EXCEPT ![d] = item]
           u == [live EXCEPT
                   !.decisions = Append(live.decisions, Waiver(a, ids))]
           t == [u EXCEPT !.deliverables = rows]
<1>1. /\ moved \in DeliverableRow /\ moved.state = "waived"
      /\ moved.required = live.deliverables[d].required
  BY MovedTyped
<1>2. /\ item \in DeliverableRow /\ item.state = "waived"
      /\ item.required = live.deliverables[d].required
  <2>1. n \in Nat
    BY WaiverTyped
  <2> HIDE DEF moved, n
  <2> QED
    BY <1>1, <2>1 DEF DeliverableRow
<1>3. rows \in Seq(DeliverableRow)
  BY <1>2, Rows, Replaced
<1>4. u \in Tables
  BY WaiverTyped, Rows, Put
<1>5. t \in Tables
  BY <1>3, <1>4, Put
<1>6. /\ t.deliverables = rows
      /\ t.findings = live.findings /\ t.gates = live.gates
      /\ t.verdicts = live.verdicts /\ t.evidence = live.evidence
      /\ t.submissionHead = live.submissionHead
      /\ t.forecasts = live.forecasts /\ t.forecastHead = live.forecastHead
  BY Rows DEF Tables
<1>7. t = [live EXCEPT !.decisions = Append(@, Waiver(a, ids)),
                       !.deliverables[d] = item]
  BY Rows DEF Tables
<1>8. /\ Written("review", t, 2)
      /\ InState(d, {"ready", "submitted", "bounced"})
      /\ WaiverPreconditions(d)
  BY <1>7 DEF WaiveDeliverable
<1> HIDE DEF t, u, item
<1> QED
  BY <1>2, <1>5, <1>6, <1>8, WrittenEffect DEF ForecastTables

LEMMA WaiveGateEffect ==
  ASSUME Typed, Referring, NEW a \in Actors, NEW g \in DOMAIN live.gates,
         NEW ids \in SUBSET DOMAIN live.evidence, WaiveGate(a, g, ids)
  PROVE  /\ Typed' /\ ~ live.gates[g].hard
         /\ \E item \in GateRow :
              /\ item = [live.gates[g] EXCEPT !.state = "waived",
                           !.version = @ + 1,
                           !.waiver = Len(live.decisions) + 1]
              /\ live'.gates = [live.gates EXCEPT ![g] = item]
         /\ live'.deliverables = live.deliverables
         /\ live'.findings = live.findings
         /\ live'.verdicts = live.verdicts /\ live'.evidence = live.evidence
         /\ live'.submissionHead = live.submissionHead
         /\ UNCHANGED ForecastTables
<1> DEFINE n == Len(live.decisions) + 1
           item == [live.gates[g] EXCEPT !.state = "waived",
                      !.version = @ + 1, !.waiver = n]
           gates == [live.gates EXCEPT ![g] = item]
           u == [live EXCEPT
                   !.decisions = Append(live.decisions, Waiver(a, ids))]
           t == [u EXCEPT !.gates = gates]
<1>1. live.gates[g] \in GateRow /\ n \in Nat
  BY WaiverTyped, Rows
<1>2. live.gates[g].version + 1 \in Nat
  BY <1>1 DEF GateRow
<1>3. item \in GateRow
  BY <1>1, <1>2 DEF GateRow
<1>4. gates \in Seq(GateRow)
  BY <1>3, Rows, Replaced
<1>5. u \in Tables
  BY WaiverTyped, Rows, Put
<1>6. t \in Tables
  BY <1>4, <1>5, Put
<1>7. /\ t.gates = gates /\ t.deliverables = live.deliverables
      /\ t.findings = live.findings
      /\ t.verdicts = live.verdicts /\ t.evidence = live.evidence
      /\ t.submissionHead = live.submissionHead
      /\ t.forecasts = live.forecasts /\ t.forecastHead = live.forecastHead
  BY Rows DEF Tables
<1>8. t = [live EXCEPT !.decisions = Append(@, Waiver(a, ids)),
                       !.gates[g] = item]
  BY Rows DEF Tables
<1>9. Written("review", t, 2) /\ ~ live.gates[g].hard
  BY <1>8 DEF WaiveGate
<1> HIDE DEF t, u
<1> QED
  BY <1>3, <1>6, <1>7, <1>9, WrittenEffect DEF ForecastTables

-----------------------------------------------------------------------------
(* What the review commands rely on.                                       *)

LEMMA MeetsKept ==
  ASSUME NEW t, NEW u, NEW g, NEW ids,
         u.gates[g].claims = t.gates[g].claims,
         u.gates[g].deliverable = t.gates[g].deliverable,
         \A e \in ids : u.evidence[e] = t.evidence[e],
         EvidenceMeetsGate(t, ids, g)
  PROVE  EvidenceMeetsGate(u, ids, g)
BY DEF EvidenceMeetsGate, Supports

LEMMA LastAppended ==
  ASSUME NEW t, NEW u, t.verdicts \in Seq(VerdictRow), NEW v \in VerdictRow,
         u.verdicts = Append(t.verdicts, v)
  PROVE  /\ LastVerdict(u, v.gate) = Len(t.verdicts) + 1
         /\ \A g : g # v.gate => LastVerdict(u, g) = LastVerdict(t, g)
<1>1. u.verdicts \in Seq(VerdictRow) /\ Len(t.verdicts) \in Nat
      /\ Len(u.verdicts) = Len(t.verdicts) + 1
      /\ DOMAIN t.verdicts = 1 .. Len(t.verdicts)
      /\ DOMAIN u.verdicts = 1 .. Len(t.verdicts) + 1
      /\ \A i \in 1 .. Len(t.verdicts) : u.verdicts[i] = t.verdicts[i]
      /\ u.verdicts[Len(t.verdicts) + 1] = v
  BY Appended
<1> DEFINE IsLast(n, w, g) ==
             /\ n \in Nat
             /\ n # 0 => n \in DOMAIN w /\ w[n].gate = g
             /\ \A i \in DOMAIN w : w[i].gate = g => i <= n
<1>2. ASSUME NEW g
      PROVE  /\ IsLast(LastVerdict(t, g), t.verdicts, g)
             /\ IsLast(LastVerdict(u, g), u.verdicts, g)
  BY <1>1, LastVerdictIs
<1>3. IsLast(LastVerdict(u, v.gate), u.verdicts, v.gate)
  BY <1>2
<1>4. ASSUME NEW g, g # v.gate PROVE LastVerdict(u, g) = LastVerdict(t, g)
  <2> DEFINE m == LastVerdict(u, g)
             n == LastVerdict(t, g)
  <2>1. IsLast(m, u.verdicts, g) /\ IsLast(n, t.verdicts, g)
    BY <1>2
  <2> HIDE DEF m, n
  <2>2. m # 0 => m \in DOMAIN t.verdicts /\ t.verdicts[m].gate = g
    BY <1>1, <1>4, <2>1
  <2>3. n # 0 => n \in DOMAIN u.verdicts /\ u.verdicts[n].gate = g
    BY <1>1, <2>1
  <2>4. m <= n /\ n <= m
    BY <1>1, <2>1, <2>2, <2>3
  <2>5. m = n
    BY <2>1, <2>4
  <2> QED
    BY <2>5 DEF m, n
<1>5. LastVerdict(u, v.gate) = Len(t.verdicts) + 1
  <2> DEFINE m == LastVerdict(u, v.gate)
  <2>1. IsLast(m, u.verdicts, v.gate)
    BY <1>3
  <2> HIDE DEF m
  <2>2. m = Len(t.verdicts) + 1
    BY <1>1, <2>1
  <2> QED
    BY <2>2 DEF m
<1> QED
  BY <1>4, <1>5

LEMMA LastKept ==
  ASSUME NEW t, NEW u, t.verdicts \in Seq(VerdictRow),
         u.verdicts = t.verdicts, NEW g
  PROVE  LastVerdict(u, g) = LastVerdict(t, g)
<1> DEFINE m == LastVerdict(u, g)
           n == LastVerdict(t, g)
<1>1. /\ n \in Nat
      /\ n # 0 => n \in DOMAIN t.verdicts /\ t.verdicts[n].gate = g
      /\ \A i \in DOMAIN t.verdicts : t.verdicts[i].gate = g => i <= n
  BY LastVerdictIs
<1>2. /\ m \in Nat
      /\ m # 0 => m \in DOMAIN t.verdicts /\ t.verdicts[m].gate = g
      /\ \A i \in DOMAIN t.verdicts : t.verdicts[i].gate = g => i <= m
  BY LastVerdictIs
<1> HIDE DEF m, n
<1>3. m <= n /\ n <= m
  BY <1>1, <1>2
<1>4. m = n
  BY <1>1, <1>2, <1>3
<1> QED
  BY <1>4 DEF m, n

\* Where gates, verdicts and evidence stay, they say what they said.
LEMMA VerdictsKept ==
  ASSUME Typed, ReviewInv, live'.gates = live.gates,
         live'.verdicts = live.verdicts, live'.evidence = live.evidence
  PROVE  /\ PassedByVerdict'
         /\ \A v \in DOMAIN live'.verdicts :
              live'.verdicts[v].evidence \subseteq DOMAIN live'.evidence
<1>1. \A g : LastVerdict(live', g) = LastVerdict(live, g)
  BY LastKept, Rows
<1>2. \A ids, g : EvidenceMeetsGate(live, ids, g) =>
                    EvidenceMeetsGate(live', ids, g)
  BY MeetsKept
<1>3. ASSUME NEW g \in DOMAIN live'.gates, live'.gates[g].state = "passed"
      PROVE  /\ LastVerdict(live', g) # 0
             /\ live'.verdicts[LastVerdict(live', g)].result = "pass"
             /\ EvidenceMeetsGate(live',
                  live'.verdicts[LastVerdict(live', g)].evidence, g)
  <2>1. /\ LastVerdict(live, g) # 0
        /\ live.verdicts[LastVerdict(live, g)].result = "pass"
        /\ EvidenceMeetsGate(live,
             live.verdicts[LastVerdict(live, g)].evidence, g)
    BY <1>3 DEF ReviewInv, PassedByVerdict
  <2> QED
    BY <1>1, <1>2, <2>1
<1> QED
  BY <1>3 DEF ReviewInv, Referring, PassedByVerdict

LEMMA ReviewKept ==
  ASSUME Typed, ReviewInv, UNCHANGED ReviewTables PROVE ReviewInv'
<1>1. /\ live'.deliverables = live.deliverables /\ live'.gates = live.gates
      /\ live'.findings = live.findings /\ live'.verdicts = live.verdicts
      /\ live'.evidence = live.evidence
      /\ live'.submissionHead = live.submissionHead
  BY DEF ReviewTables
<1>2. Referring'
  BY <1>1 DEF ReviewInv, Referring
<1>3. Submitted' /\ GatesStayPassed' /\ FindingsHoldUp'
  BY <1>1 DEF ReviewInv, Submitted, GatesStayPassed, FindingsHoldUp, InState,
              Deliverable
<1>4. PassedByVerdict'
  BY <1>1, VerdictsKept
<1> QED
  BY <1>2, <1>3, <1>4 DEF ReviewInv

LEMMA AddDeliverableReview ==
  ASSUME Typed, ReviewInv, NEW a \in Actors, NEW state \in OpenStates,
         NEW required \in BOOLEAN,
         \/ required /\ PromoteProject(a, state)
         \/ CreateDeliverable(a, required, state)
  PROVE  ReviewInv'
<1> DEFINE item == NewDeliverable(a, required, state)
<1>1. /\ item \in DeliverableRow
      /\ live'.deliverables = Append(live.deliverables, item)
      /\ Len(live.deliverables) < MaxDeliverables
      /\ live'.gates = live.gates /\ live'.findings = live.findings
      /\ live'.verdicts = live.verdicts /\ live'.evidence = live.evidence
      /\ live'.submissionHead = live.submissionHead
  BY AddDeliverableEffect DEF ReviewInv
<1>2. item.state \in OpenStates
  BY DEF NewDeliverable
<1> HIDE DEF item
<1>3. /\ Len(live.deliverables) \in Nat
      /\ Len(live'.deliverables) = Len(live.deliverables) + 1
      /\ DOMAIN live.deliverables = 1 .. Len(live.deliverables)
      /\ DOMAIN live'.deliverables = 1 .. Len(live.deliverables) + 1
      /\ \A i \in 1 .. Len(live.deliverables) :
           live'.deliverables[i] = live.deliverables[i]
      /\ live'.deliverables[Len(live.deliverables) + 1] = item
  BY <1>1, Rows, Appended
<1>4. /\ PassedByVerdict'
      /\ \A v \in DOMAIN live'.verdicts :
           live'.verdicts[v].evidence \subseteq DOMAIN live'.evidence
  BY <1>1, VerdictsKept
<1>5. Referring'
  BY <1>1, <1>3, <1>4, WorkspaceConstants DEF ReviewInv, Referring
<1>6. \A d \in DOMAIN live'.deliverables :
        \/ d \in DOMAIN live.deliverables
           /\ live'.deliverables[d] = live.deliverables[d]
        \/ live'.deliverables[d].state \in OpenStates
  BY <1>2, <1>3
<1>7. Submitted' /\ GatesStayPassed'
  BY <1>1, <1>6
     DEF ReviewInv, Submitted, GatesStayPassed, InState, Deliverable,
          OpenStates
<1>8. FindingsHoldUp'
  BY <1>1, <1>3 DEF ReviewInv, Referring, FindingsHoldUp, InState, Deliverable
<1> QED
  BY <1>4, <1>5, <1>7, <1>8 DEF ReviewInv

LEMMA ChangeDeliverableReview ==
  ASSUME Typed, ReviewInv, NEW d \in DOMAIN live.deliverables,
         \/ \E required \in BOOLEAN, state \in OpenStates :
              ReviseDeliverable(d, required, state)
         \/ CancelDeliverable(d)
         \/ \E f \in DOMAIN live.findings : BounceDeliverable(d, f)
         \/ ApproveDeliverable(d)
  PROVE  ReviewInv'
<1>1. PICK item \in DeliverableRow :
        /\ live'.deliverables = [live.deliverables EXCEPT ![d] = item]
        /\ \/ InState(d, OpenStates) /\ item.state \in OpenStates
           \/ InState(d, OpenStates) /\ item.state = "cancelled"
           \/ InState(d, {"submitted"}) /\ item.state = "bounced"
           \/ /\ InState(d, {"submitted"}) /\ item.state = "accepted"
              /\ Approvable(d)
  BY ChangeDeliverableEffect
<1>2. /\ live'.gates = live.gates /\ live'.findings = live.findings
      /\ live'.verdicts = live.verdicts /\ live'.evidence = live.evidence
      /\ live'.submissionHead = live.submissionHead
  BY ChangeDeliverableEffect
<1>3. /\ Len(live'.deliverables) = Len(live.deliverables)
      /\ DOMAIN live'.deliverables = DOMAIN live.deliverables
      /\ live'.deliverables[d] = item
      /\ \A i \in DOMAIN live.deliverables :
           i # d => live'.deliverables[i] = live.deliverables[i]
  BY <1>1, Rows, Replaced
<1>4. /\ PassedByVerdict'
      /\ \A v \in DOMAIN live'.verdicts :
           live'.verdicts[v].evidence \subseteq DOMAIN live'.evidence
  BY <1>2, VerdictsKept
<1>5. Referring'
  BY <1>2, <1>3, <1>4 DEF ReviewInv, Referring
<1>6. Submitted'
  BY <1>1, <1>2, <1>3
     DEF ReviewInv, Submitted, InState, Deliverable, OpenStates
<1>7. GatesStayPassed'
  BY <1>1, <1>2, <1>3
     DEF ReviewInv, GatesStayPassed, InState, Deliverable, OpenStates,
         Approvable, GatesOf, IncompleteHard
<1>8. FindingsHoldUp'
  BY <1>1, <1>2, <1>3
     DEF ReviewInv, FindingsHoldUp, InState, Deliverable, OpenStates,
         Approvable, OpenFindings
<1> QED
  BY <1>4, <1>5, <1>6, <1>7, <1>8 DEF ReviewInv

LEMMA CreateEvidenceReview ==
  ASSUME Typed, ReviewInv, NEW a \in Actors, NEW claim \in Claims,
         NEW supports \in SUBSET TargetRow,
         NEW old \in {0} \cup DOMAIN live.evidence,
         CreateEvidence(a, claim, supports, old)
  PROVE  ReviewInv'
<1>1. PICK item \in EvidenceRow : live'.evidence = Append(live.evidence, item)
  BY CreateEvidenceEffect
<1>2. /\ live'.deliverables = live.deliverables /\ live'.gates = live.gates
      /\ live'.findings = live.findings /\ live'.verdicts = live.verdicts
      /\ live'.submissionHead = live.submissionHead
  BY CreateEvidenceEffect
<1>3. /\ DOMAIN live.evidence \subseteq DOMAIN live'.evidence
      /\ \A e \in DOMAIN live.evidence : live'.evidence[e] = live.evidence[e]
  BY <1>1, Rows, Appended, SMTT(30)
<1>4. Referring'
  BY <1>2, <1>3 DEF ReviewInv, Referring
<1>5. Submitted' /\ GatesStayPassed' /\ FindingsHoldUp'
  BY <1>2 DEF ReviewInv, Submitted, GatesStayPassed, FindingsHoldUp, InState,
              Deliverable
<1>6. ASSUME NEW g \in DOMAIN live'.gates, live'.gates[g].state = "passed"
      PROVE  /\ LastVerdict(live', g) # 0
             /\ live'.verdicts[LastVerdict(live', g)].result = "pass"
             /\ EvidenceMeetsGate(live',
                  live'.verdicts[LastVerdict(live', g)].evidence, g)
  <2> DEFINE last == LastVerdict(live, g)
  <2>1. LastVerdict(live', g) = last
    BY <1>2, LastKept, Rows
  <2>2. /\ last # 0 /\ live.verdicts[last].result = "pass"
        /\ EvidenceMeetsGate(live, live.verdicts[last].evidence, g)
    BY <1>2, <1>6 DEF ReviewInv, PassedByVerdict
  <2>3. last \in DOMAIN live.verdicts
    BY <2>2, LastVerdictIs, Rows
  <2> HIDE DEF last
  <2>4. \A e \in live.verdicts[last].evidence :
          live'.evidence[e] = live.evidence[e]
    BY <1>3, <2>3 DEF ReviewInv, Referring
  <2>5. EvidenceMeetsGate(live', live.verdicts[last].evidence, g)
    BY <1>2, <2>2, <2>4, MeetsKept
  <2> QED
    BY <1>2, <2>1, <2>2, <2>5
<1>7. PassedByVerdict'
  BY <1>6 DEF PassedByVerdict
<1> QED
  BY <1>4, <1>5, <1>7 DEF ReviewInv

LEMMA CreateGateReview ==
  ASSUME Typed, ReviewInv, NEW d \in DOMAIN live.deliverables,
         NEW contract \in Contracts, CreateGate(d, contract)
  PROVE  ReviewInv'
<1>1. PICK item \in GateRow :
        /\ item.deliverable = d /\ item.state = "pending"
        /\ live'.gates = Append(live.gates, item)
  BY CreateGateEffect
<1>2. /\ BeforeReview(d) /\ live'.deliverables = live.deliverables
      /\ live'.findings = live.findings /\ live'.verdicts = live.verdicts
      /\ live'.evidence = live.evidence
      /\ live'.submissionHead = live.submissionHead
  BY CreateGateEffect
<1>3. /\ Len(live.gates) \in Nat
      /\ DOMAIN live.gates = 1 .. Len(live.gates)
      /\ DOMAIN live'.gates = 1 .. Len(live.gates) + 1
      /\ \A i \in 1 .. Len(live.gates) : live'.gates[i] = live.gates[i]
      /\ live'.gates[Len(live.gates) + 1] = item
  BY <1>1, Rows, Appended
<1>4. Referring'
  BY <1>1, <1>2, <1>3 DEF ReviewInv, Referring
<1>5. Submitted' /\ FindingsHoldUp'
  BY <1>2 DEF ReviewInv, Submitted, FindingsHoldUp, InState, Deliverable
<1>6. GatesStayPassed'
  <2>1. ~ InState(d, {"accepted"})
    BY <1>2 DEF BeforeReview, InState
  <2> QED
    BY <1>1, <1>2, <1>3, <2>1
       DEF ReviewInv, GatesStayPassed, InState, Deliverable
<1>7. ASSUME NEW g \in DOMAIN live'.gates, live'.gates[g].state = "passed"
      PROVE  /\ LastVerdict(live', g) # 0
             /\ live'.verdicts[LastVerdict(live', g)].result = "pass"
             /\ EvidenceMeetsGate(live',
                  live'.verdicts[LastVerdict(live', g)].evidence, g)
  <2> DEFINE last == LastVerdict(live, g)
  <2>1. g \in DOMAIN live.gates /\ live'.gates[g] = live.gates[g]
    BY <1>1, <1>3, <1>7
  <2>2. LastVerdict(live', g) = last
    BY <1>2, LastKept, Rows
  <2>3. /\ last # 0 /\ live.verdicts[last].result = "pass"
        /\ EvidenceMeetsGate(live, live.verdicts[last].evidence, g)
    BY <2>1, <1>7 DEF ReviewInv, PassedByVerdict
  <2> HIDE DEF last
  <2>4. EvidenceMeetsGate(live', live.verdicts[last].evidence, g)
    BY <1>2, <2>1, <2>3, MeetsKept
  <2> QED
    BY <1>2, <2>2, <2>3, <2>4
<1>8. PassedByVerdict'
  BY <1>7 DEF PassedByVerdict
<1> QED
  BY <1>4, <1>5, <1>6, <1>8 DEF ReviewInv

\* A row written over gate g that leaves its contract alone.
LEMMA GateReplaced ==
  ASSUME Typed, NEW g \in DOMAIN live.gates, NEW item \in GateRow,
         item.claims = live.gates[g].claims,
         item.deliverable = live.gates[g].deliverable,
         live'.gates = [live.gates EXCEPT ![g] = item],
         live'.evidence = live.evidence
  PROVE  /\ DOMAIN live'.gates = DOMAIN live.gates /\ live'.gates[g] = item
         /\ \A i \in DOMAIN live.gates :
              /\ i # g => live'.gates[i] = live.gates[i]
              /\ live'.gates[i].deliverable = live.gates[i].deliverable
              /\ \A ids : EvidenceMeetsGate(live, ids, i) =>
                            EvidenceMeetsGate(live', ids, i)
<1>1. /\ DOMAIN live'.gates = DOMAIN live.gates /\ live'.gates[g] = item
      /\ \A i \in DOMAIN live.gates : i # g => live'.gates[i] = live.gates[i]
  BY Rows, Replaced
<1>2. ASSUME NEW i \in DOMAIN live.gates
      PROVE  /\ live'.gates[i].deliverable = live.gates[i].deliverable
             /\ live'.gates[i].claims = live.gates[i].claims
  BY <1>1
<1>3. ASSUME NEW i \in DOMAIN live.gates, NEW ids,
             EvidenceMeetsGate(live, ids, i)
      PROVE  EvidenceMeetsGate(live', ids, i)
  BY <1>2, <1>3, MeetsKept
<1> QED
  BY <1>1, <1>2, <1>3

LEMMA VerdictReview ==
  ASSUME Typed, ReviewInv, NEW a \in Actors, NEW g \in DOMAIN live.gates,
         NEW ids \in SUBSET DOMAIN live.evidence,
         NEW outcome \in {"pass", "fail"},
         \E blocking \in BOOLEAN : RecordVerdict(a, g, outcome, ids, blocking)
  PROVE  ReviewInv'
<1> DEFINE d == live.gates[g].deliverable
<1>0. VerdictWritten(g, outcome, ids) /\ Referring
  BY VerdictEffect DEF ReviewInv
<1>1. PICK gate \in GateRow :
        /\ gate = Judged(g, outcome)
        /\ live'.gates = [live.gates EXCEPT ![g] = gate]
  BY <1>0 DEF VerdictWritten
<1>2. PICK verdict \in VerdictRow :
        /\ verdict.gate = g /\ verdict.result = outcome
        /\ verdict.evidence = ids
        /\ live'.verdicts = Append(live.verdicts, verdict)
  BY <1>0 DEF VerdictWritten
<1>3. \/ live'.findings = live.findings
      \/ \E finding \in FindingRow :
           /\ finding.deliverable = d
           /\ live'.findings = Append(live.findings, finding)
  BY <1>0 DEF VerdictWritten
<1>4. /\ InState(d, {"submitted"}) /\ EvidenceMeetsGate(live, ids, g)
      /\ live'.deliverables = live.deliverables
      /\ live'.evidence = live.evidence
      /\ live'.submissionHead = live.submissionHead
  BY <1>0 DEF VerdictWritten
<1>5. /\ gate.claims = live.gates[g].claims /\ gate.deliverable = d
      /\ gate.state = IF outcome = "pass" THEN "passed" ELSE "failed"
  <2>1. live.gates[g] \in GateRow
    BY Rows
  <2> QED
    BY <1>1, <2>1 DEF GateRow, Judged
<1>6. /\ DOMAIN live'.gates = DOMAIN live.gates /\ live'.gates[g] = gate
      /\ \A i \in DOMAIN live.gates :
           /\ i # g => live'.gates[i] = live.gates[i]
           /\ live'.gates[i].deliverable = live.gates[i].deliverable
           /\ \A s : EvidenceMeetsGate(live, s, i) =>
                        EvidenceMeetsGate(live', s, i)
  BY <1>1, <1>4, <1>5, GateReplaced
<1>7. /\ Len(live.verdicts) \in Nat
      /\ DOMAIN live.verdicts = 1 .. Len(live.verdicts)
      /\ DOMAIN live'.verdicts = 1 .. Len(live.verdicts) + 1
      /\ \A i \in 1 .. Len(live.verdicts) : live'.verdicts[i] = live.verdicts[i]
      /\ live'.verdicts[Len(live.verdicts) + 1] = verdict
  BY <1>2, Rows, Appended
<1>8. \A f \in DOMAIN live'.findings :
        \/ live'.findings[f].deliverable = d
        \/ f \in DOMAIN live.findings /\ live'.findings[f] = live.findings[f]
  <2>1. ASSUME NEW finding \in FindingRow, finding.deliverable = d,
               live'.findings = Append(live.findings, finding)
        PROVE  \A f \in DOMAIN live'.findings :
                 \/ live'.findings[f].deliverable = d
                 \/ /\ f \in DOMAIN live.findings
                    /\ live'.findings[f] = live.findings[f]
    <3>1. /\ Len(live.findings) \in Nat
          /\ DOMAIN live.findings = 1 .. Len(live.findings)
          /\ DOMAIN live'.findings = 1 .. Len(live.findings) + 1
          /\ \A i \in 1 .. Len(live.findings) :
               live'.findings[i] = live.findings[i]
          /\ live'.findings[Len(live.findings) + 1] = finding
      BY <2>1, Rows, Appended
    <3> QED
      BY <2>1, <3>1
  <2> QED
    BY <1>3, <2>1
<1>9. d \in DOMAIN live.deliverables
  BY <1>0 DEF Referring
<1>10. Referring'
  BY <1>0, <1>2, <1>4, <1>6, <1>7, <1>8, <1>9 DEF Referring
<1>11. Submitted'
  BY <1>4 DEF ReviewInv, Submitted, InState, Deliverable
<1>12. FindingsHoldUp'
  BY <1>4, <1>8 DEF ReviewInv, FindingsHoldUp, InState, Deliverable
<1>13. GatesStayPassed'
  <2>1. ~ InState(d, {"accepted"})
    BY <1>4 DEF InState
  <2> QED
    BY <1>4, <1>6, <2>1 DEF ReviewInv, GatesStayPassed, InState, Deliverable
<1>14. ASSUME NEW i \in DOMAIN live'.gates, live'.gates[i].state = "passed"
       PROVE  /\ LastVerdict(live', i) # 0
              /\ live'.verdicts[LastVerdict(live', i)].result = "pass"
              /\ EvidenceMeetsGate(live',
                   live'.verdicts[LastVerdict(live', i)].evidence, i)
  <2>1. CASE i = g
    <3>1. LastVerdict(live', g) = Len(live.verdicts) + 1
      BY <1>2, Rows, LastAppended
    <3>2. outcome = "pass"
      BY <1>5, <1>6, <1>14, <2>1
    <3>3. EvidenceMeetsGate(live', ids, g)
      BY <1>4, <1>6
    <3> QED
      BY <1>2, <1>7, <2>1, <3>1, <3>2, <3>3
  <2>2. CASE i # g
    <3> DEFINE last == LastVerdict(live, i)
    <3>1. LastVerdict(live', i) = last
      <4>1. \A h : h # verdict.gate =>
                    LastVerdict(live', h) = LastVerdict(live, h)
        BY <1>2, Rows, LastAppended
      <4> QED
        BY <1>2, <2>2, <4>1
    <3>2. /\ last # 0 /\ live.verdicts[last].result = "pass"
          /\ EvidenceMeetsGate(live, live.verdicts[last].evidence, i)
      BY <1>6, <1>14, <2>2 DEF ReviewInv, PassedByVerdict
    <3>3. last \in DOMAIN live.verdicts
      BY <3>2, LastVerdictIs, Rows
    <3> HIDE DEF last
    <3> QED
      BY <1>6, <1>7, <3>1, <3>2, <3>3
  <2> QED
    BY <2>1, <2>2
<1>15. PassedByVerdict'
  BY <1>14 DEF PassedByVerdict
<1> QED
  BY <1>10, <1>11, <1>12, <1>13, <1>15 DEF ReviewInv

LEMMA DisposeReview ==
  ASSUME Typed, ReviewInv, NEW f \in DOMAIN live.findings,
         NEW action \in {"resolve", "withdraw"},
         NEW ids \in SUBSET DOMAIN live.evidence,
         DisposeFinding(f, action, ids)
  PROVE  ReviewInv'
<1>0. Referring
  BY DEF ReviewInv
<1>1. PICK finding \in FindingRow :
        /\ finding.deliverable = live.findings[f].deliverable
        /\ finding.state # "open"
        /\ live'.findings = [live.findings EXCEPT ![f] = finding]
  BY <1>0, DisposeEffect
<1>2. /\ live'.deliverables = live.deliverables /\ live'.gates = live.gates
      /\ live'.evidence = live.evidence /\ live'.verdicts = live.verdicts
      /\ live'.submissionHead = live.submissionHead
  BY <1>0, DisposeEffect
<1>3. /\ DOMAIN live'.findings = DOMAIN live.findings
      /\ live'.findings[f] = finding
      /\ \A i \in DOMAIN live.findings :
           i # f => live'.findings[i] = live.findings[i]
  BY <1>1, Rows, Replaced
<1>4. Referring'
  BY <1>0, <1>1, <1>2, <1>3 DEF Referring
<1>5. Submitted' /\ GatesStayPassed'
  BY <1>2 DEF ReviewInv, Submitted, GatesStayPassed, InState, Deliverable
<1>6. FindingsHoldUp'
  BY <1>1, <1>2, <1>3 DEF ReviewInv, FindingsHoldUp, InState, Deliverable
<1> QED
  BY <1>2, <1>4, <1>5, <1>6, VerdictsKept DEF ReviewInv

LEMMA SubmitReview ==
  ASSUME Typed, ReviewInv, NEW a \in Actors, NEW d \in DOMAIN live.deliverables,
         NEW kind \in {"submit", "resubmit"},
         NEW ids \in SUBSET DOMAIN live.evidence, Submit(a, d, kind, ids)
  PROVE  ReviewInv'
<1>0. Referring
  BY DEF ReviewInv
<1>written. SubmissionWritten(d)
  BY <1>0, SubmitEffect
<1>1. PICK item \in DeliverableRow :
        /\ item.state = "submitted"
        /\ live'.deliverables = [live.deliverables EXCEPT ![d] = item]
  BY <1>written DEF SubmissionWritten
<1>2. PICK n \in Nat \ {0} :
        live'.submissionHead = [live.submissionHead EXCEPT ![d] = n]
  BY <1>written DEF SubmissionWritten
<1>3. /\ InState(d, {"ready", "bounced"})
      /\ live'.gates = live.gates /\ live'.findings = live.findings
      /\ live'.verdicts = live.verdicts /\ live'.evidence = live.evidence
  BY <1>written DEF SubmissionWritten
<1>4. /\ Len(live'.deliverables) = Len(live.deliverables)
      /\ DOMAIN live'.deliverables = DOMAIN live.deliverables
      /\ live'.deliverables[d] = item
      /\ \A i \in DOMAIN live.deliverables :
           i # d => live'.deliverables[i] = live.deliverables[i]
  BY <1>1, Rows, Replaced
<1>5. d \in Scopes
  <2>1. /\ Len(live.deliverables) \in Nat
        /\ DOMAIN live.deliverables = 1 .. Len(live.deliverables)
    BY Rows
  <2> QED
    BY <1>0, <2>1, WorkspaceConstants DEF Referring, Scopes
<1>6. /\ live'.submissionHead[d] = n
      /\ \A i \in DOMAIN live.deliverables :
           i # d => live'.submissionHead[i] = live.submissionHead[i]
  BY <1>2, <1>5, Rows
<1>7. /\ PassedByVerdict'
      /\ \A v \in DOMAIN live'.verdicts :
           live'.verdicts[v].evidence \subseteq DOMAIN live'.evidence
  BY <1>3, VerdictsKept
<1>8. Referring'
  BY <1>0, <1>3, <1>4, <1>7 DEF Referring
<1>9. Submitted'
  BY <1>4, <1>6 DEF ReviewInv, Submitted, InState, Deliverable
<1>10. GatesStayPassed'
  BY <1>1, <1>3, <1>4 DEF ReviewInv, GatesStayPassed, InState, Deliverable
<1>11. FindingsHoldUp'
  BY <1>1, <1>3, <1>4 DEF ReviewInv, FindingsHoldUp, InState, Deliverable
<1> QED
  BY <1>7, <1>8, <1>9, <1>10, <1>11 DEF ReviewInv

LEMMA WaiveDeliverableReview ==
  ASSUME Typed, ReviewInv, NEW a \in Actors, NEW d \in DOMAIN live.deliverables,
         NEW ids \in SUBSET DOMAIN live.evidence, WaiveDeliverable(a, d, ids)
  PROVE  ReviewInv'
<1>0. Referring
  BY DEF ReviewInv
<1>1. PICK item \in DeliverableRow :
        /\ item.state = "waived"
        /\ live'.deliverables = [live.deliverables EXCEPT ![d] = item]
  BY <1>0, WaiveDeliverableEffect
<1>2. /\ InState(d, {"ready", "submitted", "bounced"})
      /\ WaiverPreconditions(d)
      /\ live'.gates = live.gates /\ live'.findings = live.findings
      /\ live'.verdicts = live.verdicts /\ live'.evidence = live.evidence
      /\ live'.submissionHead = live.submissionHead
  BY <1>0, WaiveDeliverableEffect
<1>3. /\ Len(live'.deliverables) = Len(live.deliverables)
      /\ DOMAIN live'.deliverables = DOMAIN live.deliverables
      /\ live'.deliverables[d] = item
      /\ \A i \in DOMAIN live.deliverables :
           i # d => live'.deliverables[i] = live.deliverables[i]
  BY <1>1, Rows, Replaced
<1>4. /\ PassedByVerdict'
      /\ \A v \in DOMAIN live'.verdicts :
           live'.verdicts[v].evidence \subseteq DOMAIN live'.evidence
  BY <1>2, VerdictsKept
<1>5. Referring'
  BY <1>0, <1>2, <1>3, <1>4 DEF Referring
<1>6. Submitted' /\ GatesStayPassed'
  BY <1>1, <1>2, <1>3
     DEF ReviewInv, Submitted, GatesStayPassed, InState, Deliverable
<1>7. FindingsHoldUp'
  BY <1>1, <1>2, <1>3
     DEF ReviewInv, FindingsHoldUp, InState, Deliverable, WaiverPreconditions,
         BlockingFindings, OpenFindings
<1> QED
  BY <1>4, <1>5, <1>6, <1>7 DEF ReviewInv

LEMMA WaiveGateReview ==
  ASSUME Typed, ReviewInv, NEW a \in Actors, NEW g \in DOMAIN live.gates,
         NEW ids \in SUBSET DOMAIN live.evidence, WaiveGate(a, g, ids)
  PROVE  ReviewInv'
<1>0. Referring
  BY DEF ReviewInv
<1>1. PICK item \in GateRow :
        /\ item = [live.gates[g] EXCEPT !.state = "waived", !.version = @ + 1,
                     !.waiver = Len(live.decisions) + 1]
        /\ live'.gates = [live.gates EXCEPT ![g] = item]
  BY <1>0, WaiveGateEffect
<1>2. /\ ~ live.gates[g].hard /\ live'.deliverables = live.deliverables
      /\ live'.findings = live.findings /\ live'.verdicts = live.verdicts
      /\ live'.evidence = live.evidence
      /\ live'.submissionHead = live.submissionHead
  BY <1>0, WaiveGateEffect
<1>3. /\ item.claims = live.gates[g].claims
      /\ item.deliverable = live.gates[g].deliverable
      /\ item.hard = live.gates[g].hard /\ item.state = "waived"
  <2>1. live.gates[g] \in GateRow
    BY Rows
  <2> QED
    BY <1>1, <2>1 DEF GateRow
<1>4. /\ DOMAIN live'.gates = DOMAIN live.gates /\ live'.gates[g] = item
      /\ \A i \in DOMAIN live.gates :
           /\ i # g => live'.gates[i] = live.gates[i]
           /\ live'.gates[i].deliverable = live.gates[i].deliverable
           /\ \A s : EvidenceMeetsGate(live, s, i) =>
                        EvidenceMeetsGate(live', s, i)
  BY <1>1, <1>2, <1>3, GateReplaced
<1>5. Referring'
  BY <1>0, <1>2, <1>4 DEF Referring
<1>6. Submitted' /\ FindingsHoldUp'
  BY <1>2 DEF ReviewInv, Submitted, FindingsHoldUp, InState, Deliverable
<1>7. GatesStayPassed'
  BY <1>2, <1>3, <1>4 DEF ReviewInv, GatesStayPassed, InState, Deliverable
<1>8. ASSUME NEW i \in DOMAIN live'.gates, live'.gates[i].state = "passed"
      PROVE  /\ LastVerdict(live', i) # 0
             /\ live'.verdicts[LastVerdict(live', i)].result = "pass"
             /\ EvidenceMeetsGate(live',
                  live'.verdicts[LastVerdict(live', i)].evidence, i)
  <2> DEFINE last == LastVerdict(live, i)
  <2>1. i # g /\ i \in DOMAIN live.gates
    BY <1>3, <1>4, <1>8
  <2>2. LastVerdict(live', i) = last
    BY <1>2, LastKept, Rows
  <2>3. /\ last # 0 /\ live.verdicts[last].result = "pass"
        /\ EvidenceMeetsGate(live, live.verdicts[last].evidence, i)
    BY <1>4, <1>8, <2>1 DEF ReviewInv, PassedByVerdict
  <2> HIDE DEF last
  <2> QED
    BY <1>2, <1>4, <2>1, <2>2, <2>3
<1>9. PassedByVerdict'
  BY <1>8 DEF PassedByVerdict
<1> QED
  BY <1>5, <1>6, <1>7, <1>9 DEF ReviewInv

-----------------------------------------------------------------------------
(* The replay.                                                             *)

LEMMA RebuiltIs ==
  ASSUME RebuildMatchesLive PROVE rebuilt.ok /\ rebuilt.tables = live
BY DEF RebuildMatchesLive

\* One event, of a command of one.
LEMMA ReplayOne ==
  ASSUME RebuildMatchesLive, NEW family, NEW t, Written(family, t, 1),
         rebuilt' = Step(rebuilt, TRUE, t)
  PROVE  RebuildMatchesLive'
BY RebuiltIs DEF Written, Step, RebuildMatchesLive

LEMMA RecordDecisionReplay ==
  ASSUME RebuildMatchesLive, NEW a \in Actors, RecordDecision(a)
  PROVE  RebuildMatchesLive'
<1> DEFINE item == [kind |-> "continue", evidence |-> {}, by |-> a]
           t == [live EXCEPT !.decisions = Append(@, item)]
<1>1. Written("planning", t, 1)
      /\ rebuilt' = ReplayDecision(rebuilt, [decision |-> item])
  BY DEF RecordDecision
<1>2. rebuilt' = Step(rebuilt, TRUE, t)
  BY <1>1, RebuiltIs DEF ReplayDecision
<1> QED
  BY <1>1, <1>2, ReplayOne

LEMMA LifecycleReplay ==
  ASSUME Typed, RebuildMatchesLive,
         NEW command \in {"activated", "held", "resumed"}, Lifecycle(command)
  PROVE  RebuildMatchesLive'
<1> DEFINE p == [live.project EXCEPT
                   !.state = IF command = "held" THEN "held" ELSE "active",
                   !.version = @ + 1]
           type == IF command = "activated" THEN "project.activated"
                   ELSE IF command = "held" THEN "project.held"
                   ELSE "project.resumed"
           t == [live EXCEPT !.project = p]
<1>1. /\ Written("planning", t, 1) /\ ValidTransition(command)
      /\ rebuilt' = ReplayProject(rebuilt, [type |-> type, project |-> p])
  BY DEF Lifecycle
<1>2. /\ p.version = live.project.version + 1
      /\ p.mode = live.project.mode
      /\ p.state = IF command = "held" THEN "held" ELSE "active"
  BY Rows DEF ProjectRow
<1> HIDE DEF p
<1>3. \/ /\ type = "project.activated" /\ live.project.state = "proposed"
         /\ p.state = "active" /\ live.forecastHead[0] # 0
      \/ /\ type = "project.held" /\ live.project.state = "active"
         /\ p.state = "held"
      \/ /\ type = "project.resumed" /\ live.project.state = "held"
         /\ p.state = "active"
  BY <1>1, <1>2 DEF ValidTransition
<1> HIDE DEF type
<1>4. rebuilt' = Step(rebuilt, TRUE, t)
  BY <1>1, <1>2, <1>3, RebuiltIs DEF ReplayProject, Step
<1> QED
  BY <1>1, <1>4, ReplayOne

LEMMA CreateDeliverableReplay ==
  ASSUME RebuildMatchesLive, NEW a \in Actors, NEW required \in BOOLEAN,
         NEW state \in OpenStates, CreateDeliverable(a, required, state)
  PROVE  RebuildMatchesLive'
<1> DEFINE item == NewDeliverable(a, required, state)
           t == [live EXCEPT !.deliverables = Append(@, item)]
<1>1. /\ Written("planning", t, 1)
      /\ rebuilt' = ReplayCreated(rebuilt, [deliverable |-> item, by |-> a])
  BY DEF CreateDeliverable
<1>2. item.version = 1 /\ item.creator = a
  BY DEF NewDeliverable
<1> HIDE DEF item
<1>3. rebuilt' = Step(rebuilt, TRUE, t)
  BY <1>1, <1>2, RebuiltIs DEF ReplayCreated, Step
<1> QED
  BY <1>1, <1>3, ReplayOne

LEMMA ReviseDeliverableReplay ==
  ASSUME Typed, RebuildMatchesLive, NEW d \in DOMAIN live.deliverables,
         NEW required \in BOOLEAN, NEW state \in OpenStates,
         ReviseDeliverable(d, required, state)
  PROVE  RebuildMatchesLive'
<1> DEFINE moved == Moved(d, state)
           item == [moved EXCEPT !.required = required]
           t == [live EXCEPT !.deliverables[d] = item]
<1>1. /\ Written("planning", t, 1)
      /\ rebuilt' = ReplayRevised(rebuilt, [id |-> d, deliverable |-> item])
  BY DEF ReviseDeliverable
<1>2. /\ moved.version = live.deliverables[d].version + 1
      /\ moved.creator = live.deliverables[d].creator
      /\ moved \in DeliverableRow
  BY MovedTyped DEF OpenStates
<1>3. /\ item.version = live.deliverables[d].version + 1
      /\ item.creator = live.deliverables[d].creator
  BY <1>2 DEF DeliverableRow
<1> HIDE DEF item
<1>4. rebuilt' = Step(rebuilt, TRUE, t)
  BY <1>1, <1>3, RebuiltIs DEF ReplayRevised, Step
<1> QED
  BY <1>1, <1>4, ReplayOne

LEMMA CancelDeliverableReplay ==
  ASSUME Typed, RebuildMatchesLive, NEW d \in DOMAIN live.deliverables,
         CancelDeliverable(d)
  PROVE  RebuildMatchesLive'
<1> DEFINE item == Moved(d, "cancelled")
           t == [live EXCEPT !.deliverables[d] = item]
<1>1. /\ Written("planning", t, 1)
      /\ ~live.deliverables[d].required
      /\ live.deliverables[d].state \in {"draft", "ready"}
      /\ rebuilt' = ReplayCancelled(rebuilt, [id |-> d, deliverable |-> item])
  BY DEF CancelDeliverable, InState, Deliverable
<1>2. /\ item.version = live.deliverables[d].version + 1
      /\ item.required = live.deliverables[d].required
      /\ item.state = "cancelled"
  BY MovedTyped
<1> HIDE DEF item
<1>3. rebuilt' = Step(rebuilt, TRUE, t)
  BY <1>1, <1>2, RebuiltIs DEF ReplayCancelled, Step
<1> QED
  BY <1>1, <1>3, ReplayOne

LEMMA SetDateReplay ==
  ASSUME RebuildMatchesLive, NEW kind \in DateKinds, SetDate(kind)
  PROVE  RebuildMatchesLive'
<1> DEFINE item == [kind |-> kind, supersedes |-> live.dateHead[kind]]
           t == [live EXCEPT !.dates = Append(@, item),
                             !.dateHead[kind] = Len(live.dates) + 1]
<1>1. Written("planning", t, 1)
      /\ rebuilt' = ReplayDateChanged(rebuilt, [date |-> item])
  BY DEF SetDate
<1>2. rebuilt' = Step(rebuilt, TRUE, t)
  BY <1>1, RebuiltIs DEF ReplayDateChanged, Step
<1> QED
  BY <1>1, <1>2, ReplayOne

LEMMA CreateEvidenceReplay ==
  ASSUME RebuildMatchesLive, NEW a \in Actors, NEW claim \in Claims,
         NEW supports, NEW old \in {0} \cup DOMAIN live.evidence,
         CreateEvidence(a, claim, supports, old)
  PROVE  RebuildMatchesLive'
<1> DEFINE item == [claim |-> claim, by |-> a, supports |-> supports,
                    supersedes |-> old]
           t == [live EXCEPT !.evidence = Append(@, item)]
<1>1. /\ Written("review", t, 1)
      /\ supports # {} /\ \A x \in supports : TargetExists(live, x)
      /\ old # 0 => old \in DOMAIN live.evidence /\ ~Superseded(live, old)
      /\ rebuilt' = ReplayEvidence(rebuilt, [evidence |-> item, by |-> a])
  BY DEF CreateEvidence, MayCorrect
<1>2. rebuilt' = Step(rebuilt, TRUE, t)
  BY <1>1, RebuiltIs DEF ReplayEvidence, Step
<1> QED
  BY <1>1, <1>2, ReplayOne

LEMMA CreateGateReplay ==
  ASSUME Typed, RebuildMatchesLive, NEW d \in DOMAIN live.deliverables,
         NEW contract \in Contracts, CreateGate(d, contract)
  PROVE  RebuildMatchesLive'
<1> DEFINE item == [deliverable |-> d, hard |-> contract.hard,
                    independent |-> contract.independent,
                    claims |-> contract.claims,
                    state |-> "pending", version |-> 1, waiver |-> 0]
           t == [live EXCEPT !.gates = Append(@, item)]
<1>1. /\ Written("review", t, 1)
      /\ rebuilt' = ReplayGateCreated(rebuilt, [gate |-> item])
  BY DEF CreateGate
<1>2. contract.claims # {}
  BY CreateGateEffect
<1>3. rebuilt' = Step(rebuilt, TRUE, t)
  BY <1>1, <1>2, RebuiltIs DEF ReplayGateCreated, Step
<1> QED
  BY <1>1, <1>3, ReplayOne

\* What a handler asks of the evidence it is given, the replay asks again.
LEMMA SelectionReplayed ==
  ASSUME NEW ids, CurrentEvidence(ids) PROVE ReplaySelection(live, ids)
BY DEF CurrentEvidence, ReplaySelection

LEMMA DisposeReplay ==
  ASSUME Typed, RebuildMatchesLive, NEW f \in DOMAIN live.findings,
         NEW action \in {"resolve", "withdraw"},
         NEW ids \in SUBSET DOMAIN live.evidence,
         DisposeFinding(f, action, ids)
  PROVE  RebuildMatchesLive'
<1> DEFINE finding == [live.findings[f] EXCEPT
                         !.state = IF action = "resolve" THEN "resolved"
                                                         ELSE "withdrawn",
                         !.version = @ + 1]
           item == [finding |-> f, deliverable |-> finding.deliverable,
                    action |-> action, evidence |-> ids]
           t == [live EXCEPT !.findings[f] = finding,
                             !.actions = Append(@, item)]
<1>1. /\ Written("review", t, 1)
      /\ live.findings[f].state = "open"
      /\ CurrentEvidence(ids) /\ EvidenceLinked(live, ids, f)
      /\ rebuilt' = ReplayDisposition(rebuilt, [finding |-> finding,
                                                action |-> item])
  BY DEF DisposeFinding
<1>2. /\ finding.version = live.findings[f].version + 1
      /\ finding.state = IF action = "resolve" THEN "resolved" ELSE "withdrawn"
  <2>1. live.findings[f] \in FindingRow
    BY Rows
  <2> QED
    BY <2>1 DEF FindingRow
<1>3. ReplaySelection(live, ids)
  BY <1>1, SelectionReplayed
<1> HIDE DEF finding
<1>4. rebuilt' = Step(rebuilt, TRUE, t)
  BY <1>1, <1>2, <1>3, RebuiltIs DEF ReplayDisposition, Step
<1> QED
  BY <1>1, <1>4, ReplayOne

LEMMA SubmitReplay ==
  ASSUME Typed, RebuildMatchesLive, NEW a \in Actors,
         NEW d \in DOMAIN live.deliverables,
         NEW kind \in {"submit", "resubmit"},
         NEW ids \in SUBSET DOMAIN live.evidence, Submit(a, d, kind, ids)
  PROVE  RebuildMatchesLive'
<1> DEFINE item == [deliverable |-> d, kind |-> kind, evidence |-> ids,
                    by |-> a]
           row == Moved(d, "submitted")
           t == [live EXCEPT !.deliverables[d] = row,
                             !.submissions = Append(@, item),
                             !.submissionHead[d] = Len(live.submissions) + 1]
<1>1. /\ Written("review", t, 1)
      /\ CurrentEvidence(ids) /\ EvidenceMeetsContract(live, ids, d)
      /\ \/ kind = "submit" /\ live.deliverables[d].state = "ready"
         \/ /\ kind = "resubmit" /\ live.deliverables[d].state = "bounced"
            /\ OpenFindings(live, d) = {} /\ ResolutionLinked(live, ids, d)
      /\ rebuilt' = ReplaySubmission(rebuilt,
           [deliverable |-> row, submission |-> item, by |-> a])
  BY DEF Submit, InState, Deliverable
<1>2. /\ row.version = live.deliverables[d].version + 1
      /\ row.state = "submitted"
  BY MovedTyped
<1>3. ReplaySelection(live, ids)
  BY <1>1, SelectionReplayed
<1> HIDE DEF row
<1>4. rebuilt' = Step(rebuilt, TRUE, t)
  BY <1>1, <1>2, <1>3, RebuiltIs DEF ReplaySubmission, Step
<1> QED
  BY <1>1, <1>4, ReplayOne

LEMMA ReviewReplay ==
  ASSUME Typed, RebuildMatchesLive, NEW d \in DOMAIN live.deliverables,
         \/ \E f \in DOMAIN live.findings : BounceDeliverable(d, f)
         \/ ApproveDeliverable(d)
  PROVE  RebuildMatchesLive'
<1>1. ASSUME NEW f \in DOMAIN live.findings, BounceDeliverable(d, f)
      PROVE  RebuildMatchesLive'
  <2> DEFINE item == Moved(d, "bounced")
             t == [live EXCEPT !.deliverables[d] = item]
  <2>1. /\ Written("review", t, 1)
        /\ live.deliverables[d].state = "submitted"
        /\ f \in OpenFindings(live, d)
        /\ rebuilt' = ReplayReview(rebuilt, [id |-> d, deliverable |-> item,
                                             finding |-> f])
    BY <1>1 DEF BounceDeliverable, InState, Deliverable
  <2>2. /\ item.version = live.deliverables[d].version + 1
        /\ item.state = "bounced"
    BY MovedTyped
  <2> HIDE DEF item
  <2>3. rebuilt' = Step(rebuilt, TRUE, t)
    BY <2>1, <2>2, RebuiltIs DEF ReplayReview, Step
  <2> QED
    BY <2>1, <2>3, ReplayOne
<1>2. ASSUME ApproveDeliverable(d) PROVE RebuildMatchesLive'
  <2> DEFINE item == Moved(d, "accepted")
             t == [live EXCEPT !.deliverables[d] = item]
  <2>1. /\ Written("review", t, 1)
        /\ live.deliverables[d].state = "submitted"
        /\ GatesOf(live, d) # {} /\ IncompleteHard(live, d) = {}
        /\ OpenFindings(live, d) = {}
        /\ rebuilt' = ReplayReview(rebuilt, [id |-> d, deliverable |-> item,
                                             finding |-> 0])
    BY <1>2 DEF ApproveDeliverable, Approvable, InState, Deliverable
  <2>2. /\ item.version = live.deliverables[d].version + 1
        /\ item.state = "accepted"
    BY MovedTyped
  <2> HIDE DEF item
  <2>3. rebuilt' = Step(rebuilt, TRUE, t)
    BY <2>1, <2>2, RebuiltIs DEF ReplayReview, Step
  <2> QED
    BY <2>1, <2>3, ReplayOne
<1> QED
  BY <1>1, <1>2

\* The tables after one event of several, and the last of them.
Counted(t, n) == [t EXCEPT !.project.version = live.project.version + n]

LEMMA StepTo ==
  ASSUME NEW r, NEW t, NEW n, r.ok,
         r.tables.project.version + 1 = live.project.version + n
  PROVE  Step(r, TRUE, t) = [ok |-> TRUE, tables |-> Counted(t, n)]
BY DEF Step, Counted

LEMMA CountedIs ==
  ASSUME Typed, NEW t \in Tables, NEW n \in Nat
  PROVE  /\ live.project.version \in Nat
         /\ Counted(t, n).project.version = live.project.version + n
         /\ Counted(t, n).project.mode = t.project.mode
         /\ Counted(t, n).project.state = t.project.state
         /\ Counted(t, n).decisions = t.decisions
         /\ Counted(t, n).deliverables = t.deliverables
         /\ Counted(t, n).forecasts = t.forecasts
         /\ Counted(t, n).forecastHead = t.forecastHead
         /\ Counted(t, n).pending = t.pending
         /\ Counted(t, n).dates = t.dates
         /\ Counted(t, n).dateHead = t.dateHead
         /\ Counted(t, n).evidence = t.evidence
         /\ Counted(t, n).gates = t.gates
         /\ Counted(t, n).verdicts = t.verdicts
         /\ Counted(t, n).findings = t.findings
         /\ Counted(t, n).actions = t.actions
         /\ Counted(t, n).submissions = t.submissions
         /\ Counted(t, n).submissionHead = t.submissionHead
<1>1. live.project.version \in Nat
  BY Rows DEF ProjectRow
<1>2. live.project.version + n \in Nat
  BY <1>1
<1> QED
  BY <1>1, <1>2 DEF Counted, Tables, ProjectRow

\* The last of several events leaves what the command wrote.
LEMMA ReplayLast ==
  ASSUME NEW family, NEW t, NEW n, Written(family, t, n),
         rebuilt' = [ok |-> TRUE, tables |-> Counted(t, n)]
  PROVE  RebuildMatchesLive'
BY DEF Written, Counted, RebuildMatchesLive

LEMMA CountedPut ==
  ASSUME NEW t \in Tables, NEW x
  PROVE  /\ Counted([Counted(t, 1) EXCEPT !.deliverables = x], 2)
              = Counted([t EXCEPT !.deliverables = x], 2)
         /\ Counted([Counted(t, 1) EXCEPT !.gates = x], 2)
              = Counted([t EXCEPT !.gates = x], 2)
         /\ Counted([Counted(t, 1) EXCEPT !.findings = x], 2)
              = Counted([t EXCEPT !.findings = x], 2)
<1>1. Counted([Counted(t, 1) EXCEPT !.deliverables = x], 2)
        = Counted([t EXCEPT !.deliverables = x], 2)
  BY DEF Counted, Tables, ProjectRow
<1>2. Counted([Counted(t, 1) EXCEPT !.gates = x], 2)
        = Counted([t EXCEPT !.gates = x], 2)
  BY DEF Counted, Tables, ProjectRow
<1>3. Counted([Counted(t, 1) EXCEPT !.findings = x], 2)
        = Counted([t EXCEPT !.findings = x], 2)
  BY DEF Counted, Tables, ProjectRow
<1> QED
  BY <1>1, <1>2, <1>3

\* A decision replayed on what the commands wrote.
LEMMA DecisionReplayed ==
  ASSUME Typed, RebuildMatchesLive, NEW item
  PROVE  ReplayDecision(rebuilt, [decision |-> item]) =
           [ok |-> TRUE,
            tables |-> Counted([live EXCEPT !.decisions = Append(@, item)], 1)]
<1>1. live.project.version \in Nat
  BY Rows DEF ProjectRow
<1>2. rebuilt.tables.project.version + 1 = live.project.version + 1
  BY <1>1, RebuiltIs
<1> DEFINE u == [live EXCEPT !.decisions = Append(@, item)]
<1>3. ReplayDecision(rebuilt, [decision |-> item]) = Step(rebuilt, TRUE, u)
  BY RebuiltIs DEF ReplayDecision
<1>4. Step(rebuilt, TRUE, u) = [ok |-> TRUE, tables |-> Counted(u, 1)]
  BY <1>2, RebuiltIs, StepTo
<1> QED
  BY <1>3, <1>4

LEMMA WaiveDeliverableReplay ==
  ASSUME Typed, RebuildMatchesLive, NEW a \in Actors,
         NEW d \in DOMAIN live.deliverables,
         NEW ids \in SUBSET DOMAIN live.evidence, WaiveDeliverable(a, d, ids)
  PROVE  RebuildMatchesLive'
<1> DEFINE decision == Waiver(a, ids)
           n == Len(live.decisions) + 1
           item == [Moved(d, "waived") EXCEPT !.waiver = n]
           u == [live EXCEPT !.decisions = Append(@, decision)]
           rows == [live.deliverables EXCEPT ![d] = item]
           t == [u EXCEPT !.deliverables = rows]
           r == [ok |-> TRUE, tables |-> Counted(u, 1)]
<1>1. t = [live EXCEPT !.decisions = Append(@, decision),
                       !.deliverables[d] = item]
  BY Rows DEF Tables
<1>2. /\ Written("review", t, 2) /\ a \in Humans
      /\ live.deliverables[d].state \in {"ready", "submitted", "bounced"}
      /\ WaiverPreconditions(d)
      /\ CurrentEvidence(ids) /\ EvidenceMeetsContract(live, ids, d)
      /\ rebuilt' = ReplayDeliverableWaived(
                      ReplayDecision(rebuilt, [decision |-> decision]),
                      [id |-> d, deliverable |-> item, by |-> a])
  BY <1>1 DEF WaiveDeliverable, InState, Deliverable
<1>3. rebuilt' = ReplayDeliverableWaived(r, [id |-> d, deliverable |-> item,
                                             by |-> a])
  BY <1>2, DecisionReplayed
<1>4. u \in Tables
  BY WaiverTyped, Rows, Put
<1>5. /\ Counted(u, 1).deliverables = live.deliverables
      /\ Counted(u, 1).gates = live.gates
      /\ Counted(u, 1).findings = live.findings
      /\ Counted(u, 1).evidence = live.evidence
      /\ Counted(u, 1).decisions = Append(live.decisions, decision)
      /\ Counted(u, 1).project.version = live.project.version + 1
  <2>1. /\ u.deliverables = live.deliverables /\ u.gates = live.gates
        /\ u.findings = live.findings /\ u.evidence = live.evidence
        /\ u.decisions = Append(live.decisions, decision)
    BY Rows DEF Tables
  <2> HIDE DEF u
  <2> QED
    BY <1>4, <2>1, CountedIs, SMTT(30)
<1>6. /\ n \in DOMAIN Append(live.decisions, decision)
      /\ Append(live.decisions, decision)[n] = decision
      /\ decision.kind = "waiver" /\ decision.by = a /\ decision.evidence = ids
  <2>1. /\ n \in DOMAIN Append(live.decisions, decision)
        /\ Append(live.decisions, decision)[n] = decision
    BY WaiverTyped, Rows, Appended
  <2> QED
    BY <2>1 DEF Waiver
<1>7. /\ item.version = live.deliverables[d].version + 1
      /\ item.waiver = n
  BY MovedTyped DEF DeliverableRow
<1>8. /\ ReplaySelection(Counted(u, 1), ids)
      /\ EvidenceMeetsContract(Counted(u, 1), ids, d)
      /\ IncompleteHard(Counted(u, 1), d) = {}
      /\ BlockingFindings(Counted(u, 1), d) = {}
  <2> HIDE DEF u
  <2>1. ReplaySelection(Counted(u, 1), ids)
    BY <1>2, <1>5, SelectionReplayed DEF ReplaySelection, Superseded
  <2>2. EvidenceMeetsContract(Counted(u, 1), ids, d)
    <3>1. \A g : EvidenceMeetsGate(live, ids, g) =>
                    EvidenceMeetsGate(Counted(u, 1), ids, g)
      BY <1>5, MeetsKept
    <3> QED
      BY <1>2, <1>5, <3>1 DEF EvidenceMeetsContract, GatesOf, Supports
  <2>3. IncompleteHard(Counted(u, 1), d) = {}
    BY <1>2, <1>5 DEF WaiverPreconditions, IncompleteHard, GatesOf
  <2>4. BlockingFindings(Counted(u, 1), d) = {}
    BY <1>2, <1>5 DEF WaiverPreconditions, BlockingFindings, OpenFindings
  <2> QED
    BY <2>1, <2>2, <2>3, <2>4
<1> HIDE DEF item, u, n, decision
<1>9. rebuilt' = Step(r, TRUE, [Counted(u, 1) EXCEPT !.deliverables = rows])
  BY <1>2, <1>3, <1>5, <1>6, <1>7, <1>8
     DEF ReplayDeliverableWaived, WaiverDecided, Step
<1>10. rebuilt' = [ok |-> TRUE,
                   tables |-> Counted([Counted(u, 1)
                                         EXCEPT !.deliverables = rows], 2)]
  <2>1. r.ok /\ r.tables.project.version + 1 = live.project.version + 2
    BY <1>4, <1>5, CountedIs, SMTT(30)
  <2> HIDE DEF r
  <2> QED
    BY <1>9, <2>1, StepTo
<1>11. rebuilt' = [ok |-> TRUE, tables |-> Counted(t, 2)]
  BY <1>4, <1>10, CountedPut
<1> QED
  BY <1>2, <1>11, ReplayLast

LEMMA WaiveGateReplay ==
  ASSUME Typed, RebuildMatchesLive, NEW a \in Actors,
         NEW g \in DOMAIN live.gates,
         NEW ids \in SUBSET DOMAIN live.evidence, WaiveGate(a, g, ids)
  PROVE  RebuildMatchesLive'
<1> DEFINE decision == Waiver(a, ids)
           n == Len(live.decisions) + 1
           d == live.gates[g].deliverable
           item == [live.gates[g] EXCEPT !.state = "waived",
                      !.version = @ + 1, !.waiver = n]
           u == [live EXCEPT !.decisions = Append(@, decision)]
           gates == [live.gates EXCEPT ![g] = item]
           t == [u EXCEPT !.gates = gates]
           r == [ok |-> TRUE, tables |-> Counted(u, 1)]
<1>1. t = [live EXCEPT !.decisions = Append(@, decision), !.gates[g] = item]
  BY Rows DEF Tables
<1>2. /\ Written("review", t, 2) /\ a \in Humans
      /\ ~live.gates[g].hard /\ live.gates[g].state \in {"pending", "failed"}
      /\ WaiverPreconditions(d)
      /\ CurrentEvidence(ids) /\ EvidenceMeetsGate(live, ids, g)
      /\ rebuilt' = ReplayGateWaived(
                      ReplayDecision(rebuilt, [decision |-> decision]),
                      [id |-> g, gate |-> item, by |-> a])
  BY <1>1 DEF WaiveGate
<1>3. rebuilt' = ReplayGateWaived(r, [id |-> g, gate |-> item, by |-> a])
  BY <1>2, DecisionReplayed
<1>4. u \in Tables
  BY WaiverTyped, Rows, Put
<1>5. /\ Counted(u, 1).gates = live.gates
      /\ Counted(u, 1).findings = live.findings
      /\ Counted(u, 1).evidence = live.evidence
      /\ Counted(u, 1).decisions = Append(live.decisions, decision)
      /\ Counted(u, 1).project.version = live.project.version + 1
  <2>1. /\ u.gates = live.gates
        /\ u.findings = live.findings /\ u.evidence = live.evidence
        /\ u.decisions = Append(live.decisions, decision)
    BY Rows DEF Tables
  <2> HIDE DEF u
  <2> QED
    BY <1>4, <2>1, CountedIs, SMTT(30)
<1>6. /\ n \in DOMAIN Append(live.decisions, decision)
      /\ Append(live.decisions, decision)[n] = decision
      /\ decision.kind = "waiver" /\ decision.by = a /\ decision.evidence = ids
  <2>1. /\ n \in DOMAIN Append(live.decisions, decision)
        /\ Append(live.decisions, decision)[n] = decision
    BY WaiverTyped, Rows, Appended
  <2> QED
    BY <2>1 DEF Waiver
<1>7. item.version = live.gates[g].version + 1 /\ item.waiver = n
  <2>1. live.gates[g] \in GateRow
    BY Rows
  <2> QED
    BY <2>1 DEF GateRow
<1>8. /\ ReplaySelection(Counted(u, 1), ids)
      /\ EvidenceMeetsGate(Counted(u, 1), ids, g)
      /\ IncompleteHard(Counted(u, 1), d) = {}
      /\ BlockingFindings(Counted(u, 1), d) = {}
  <2> HIDE DEF u
  <2>1. ReplaySelection(Counted(u, 1), ids)
    BY <1>2, <1>5, SelectionReplayed DEF ReplaySelection, Superseded
  <2>2. EvidenceMeetsGate(Counted(u, 1), ids, g)
    BY <1>2, <1>5, MeetsKept
  <2>3. IncompleteHard(Counted(u, 1), d) = {}
    BY <1>2, <1>5 DEF WaiverPreconditions, IncompleteHard, GatesOf
  <2>4. BlockingFindings(Counted(u, 1), d) = {}
    BY <1>2, <1>5 DEF WaiverPreconditions, BlockingFindings, OpenFindings
  <2> QED
    BY <2>1, <2>2, <2>3, <2>4
<1> HIDE DEF item, u, n, decision
<1>9. rebuilt' = Step(r, TRUE, [Counted(u, 1) EXCEPT !.gates = gates])
  BY <1>2, <1>3, <1>5, <1>6, <1>7, <1>8
     DEF ReplayGateWaived, WaiverDecided, Step
<1>10. rebuilt' = [ok |-> TRUE,
                   tables |-> Counted([Counted(u, 1)
                                         EXCEPT !.gates = gates], 2)]
  <2>1. r.ok /\ r.tables.project.version + 1 = live.project.version + 2
    BY <1>4, <1>5, CountedIs, SMTT(30)
  <2> HIDE DEF r
  <2> QED
    BY <1>9, <2>1, StepTo
<1>11. rebuilt' = [ok |-> TRUE, tables |-> Counted(t, 2)]
  BY <1>4, <1>10, CountedPut
<1> QED
  BY <1>2, <1>11, ReplayLast

LEMMA VerdictReplay ==
  ASSUME Typed, Referring, RebuildMatchesLive, NEW a \in Actors,
         NEW g \in DOMAIN live.gates, NEW ids \in SUBSET DOMAIN live.evidence,
         NEW outcome \in {"pass", "fail"},
         \E blocking \in BOOLEAN : RecordVerdict(a, g, outcome, ids, blocking)
  PROVE  RebuildMatchesLive'
<1> PICK blocking \in BOOLEAN : RecordVerdict(a, g, outcome, ids, blocking)
  OBVIOUS
<1> DEFINE d == live.gates[g].deliverable
           gate == [live.gates[g] EXCEPT
                      !.state = IF outcome = "pass" THEN "passed" ELSE "failed",
                      !.version = @ + 1]
           verdict == [gate |-> g, result |-> outcome, evidence |-> ids,
                       reviewer |-> a, supersedes |-> LastVerdict(live, g)]
           finding == [deliverable |-> d, gate |-> g,
                       verdict |-> Len(live.verdicts) + 1,
                       blocking |-> blocking, state |-> "open", version |-> 1]
           gates == [live.gates EXCEPT ![g] = gate]
           verdicts == Append(live.verdicts, verdict)
           findings == Append(live.findings, finding)
           decided == [live EXCEPT !.gates[g] = gate,
                                   !.verdicts = Append(@, verdict)]
           u == [live EXCEPT !.gates = gates]
           t == [u EXCEPT !.verdicts = verdicts]
           v == [t EXCEPT !.findings = findings]
           ev == [gate |-> gate, verdict |-> verdict, by |-> a]
           r == [ok |-> TRUE, tables |-> Counted(t, 1)]
<1>1. /\ live.gates[g] \in GateRow /\ g \in Nat
      /\ live.gates[g].version + 1 \in Nat
  <2>1. live.gates[g] \in GateRow /\ g \in Nat
    BY Rows
  <2> QED
    BY <2>1 DEF GateRow
<1>2. /\ gate \in GateRow /\ gate.deliverable = d
      /\ gate.version = live.gates[g].version + 1
      /\ gate.state = IF outcome = "pass" THEN "passed" ELSE "failed"
  BY <1>1 DEF GateRow
<1>3. verdict \in VerdictRow
  <2>1. LastVerdict(live, g) \in Nat
    BY Rows, LastVerdictIs
  <2>2. ids \in SUBSET Nat
    BY Rows
  <2> QED
    BY <1>1, <2>1, <2>2 DEF VerdictRow
<1>4. /\ t = decided
      /\ v = [decided EXCEPT !.findings = Append(@, finding)]
  BY Rows DEF Tables
<1>5. /\ live.deliverables[d].state = "submitted"
      /\ \/ live.gates[g].state = "pending"
         \/ live.gates[g].state = "failed" /\ outcome = "pass"
      /\ CurrentEvidence(ids) /\ EvidenceMeetsGate(live, ids, g)
      /\ live.submissionHead[d] # 0
      /\ live.gates[g].independent => IndependentReviewer(live, a, d, ids)
  BY DEF RecordVerdict, InState, Deliverable, AcceptsVerdict
<1>6. \/ /\ outcome = "pass" /\ Written("review", decided, 1)
         /\ rebuilt' = ReplayVerdict(rebuilt, ev)
      \/ /\ outcome = "fail"
         /\ Written("review",
                    [decided EXCEPT !.findings = Append(@, finding)], 2)
         /\ rebuilt' = ReplayFindingCreated(ReplayVerdict(rebuilt, ev),
                                            [finding |-> finding])
  BY DEF RecordVerdict
<1>7. ReplaySelection(live, ids)
  BY <1>5, SelectionReplayed
<1>8. ReplayVerdict(rebuilt, ev) = Step(rebuilt, TRUE, decided)
  <2> HIDE DEF gate
  <2> QED
    BY <1>2, <1>5, <1>7, RebuiltIs DEF ReplayVerdict, Step
<1>9. CASE outcome = "pass"
  <2>1. Written("review", decided, 1) /\ rebuilt' = Step(rebuilt, TRUE, decided)
    BY <1>6, <1>8, <1>9
  <2> HIDE DEF decided
  <2> QED
    BY <2>1, ReplayOne
<1>10. CASE outcome = "fail"
  <2>1. /\ Written("review", v, 2)
        /\ rebuilt' = ReplayFindingCreated(Step(rebuilt, TRUE, t),
                                           [finding |-> finding])
    BY <1>4, <1>6, <1>8, <1>10
  <2>2. gates \in Seq(GateRow) /\ verdicts \in Seq(VerdictRow)
    BY <1>2, <1>3, Rows, Replaced, Appended
  <2>3. u \in Tables
    BY <2>2, Rows, Put
  <2>4. t \in Tables
    BY <2>2, <2>3, Put
  <2>5. /\ t.gates = gates /\ t.verdicts = verdicts
        /\ t.findings = live.findings
    BY Rows DEF Tables
  <2> HIDE DEF t
  <2>6. Step(rebuilt, TRUE, t) = r
    <3>1. rebuilt.tables.project.version + 1 = live.project.version + 1
      BY RebuiltIs
    <3> QED
      BY <3>1, RebuiltIs, StepTo
  <2>7. /\ Counted(t, 1).gates = gates /\ Counted(t, 1).verdicts = verdicts
        /\ Counted(t, 1).findings = live.findings
        /\ live.project.version \in Nat
        /\ Counted(t, 1).project.version = live.project.version + 1
    BY <2>4, <2>5, CountedIs
  <2>8. /\ finding.verdict \in DOMAIN verdicts
        /\ verdicts[finding.verdict] = verdict
        /\ gates[g].deliverable = d
    BY <1>2, <1>3, Rows, Appended, Replaced
  <2>9. rebuilt' = Step(r, TRUE, [Counted(t, 1) EXCEPT !.findings = findings])
    <3>1. rebuilt' = ReplayFindingCreated(r, [finding |-> finding])
      BY <2>1, <2>6
    <3>2. /\ finding.gate = g /\ finding.deliverable = d
          /\ finding.version = 1 /\ finding.state = "open"
          /\ verdict.result = "fail" /\ verdict.gate = g
      BY <1>10
    <3>3. /\ r.ok /\ r.tables = Counted(t, 1)
      OBVIOUS
    <3> HIDE DEF gates, verdicts, verdict, finding, gate, d, r
    <3> QED
      BY <2>7, <2>8, <3>1, <3>2, <3>3 DEF ReplayFindingCreated, Step, findings
  <2>10. r.ok /\ r.tables.project.version + 1 = live.project.version + 2
    BY <2>7
  <2> HIDE DEF r
  <2>11. rebuilt' = [ok |-> TRUE,
                     tables |-> Counted([Counted(t, 1)
                                           EXCEPT !.findings = findings], 2)]
    BY <2>9, <2>10, StepTo
  <2> HIDE DEF findings
  <2>12. rebuilt' = [ok |-> TRUE, tables |-> Counted(v, 2)]
    BY <2>4, <2>11, CountedPut
  <2> HIDE DEF v
  <2> QED
    BY <2>1, <2>12, ReplayLast
<1> QED
  BY <1>9, <1>10

LEMMA ScopesHold ==
  ASSUME Typed, Referring
  PROVE  {0} \cup DOMAIN live.deliverables \subseteq Scopes
<1>1. /\ live.deliverables \in Seq(DeliverableRow)
      /\ Len(live.deliverables) <= MaxDeliverables
  BY Rows DEF Referring
<1>2. /\ DOMAIN live.deliverables = 1 .. Len(live.deliverables)
      /\ Len(live.deliverables) \in Nat /\ MaxDeliverables \in Nat
  BY <1>1, WorkspaceConstants
<1> QED
  BY <1>1, <1>2 DEF Scopes

LEMMA ReforecastReplay ==
  ASSUME Typed, Referring, Heads, RebuildMatchesLive,
         NEW scope \in {0} \cup DOMAIN live.deliverables, Reforecast(scope)
  PROVE  RebuildMatchesLive'
<1> DEFINE old == live.forecastHead[scope]
           id == Len(live.forecasts) + 1
           item == [scope |-> scope, supersedes |-> old]
           rows == Append(live.forecasts, item)
           head == [live.forecastHead EXCEPT ![scope] = id]
           t == [live EXCEPT !.forecasts = Append(@, item),
                             !.forecastHead[scope] = Len(live.forecasts) + 1]
           waiting == [scope |-> scope, superseded |-> old, superseding |-> id]
           w == [live EXCEPT !.pending = waiting]
           first == ReplayForecastSuperseded(rebuilt,
                      [scope |-> scope, superseded |-> old])
<1>1. /\ Written("planning", t, IF old = 0 THEN 1 ELSE 2)
      /\ rebuilt' = ReplayForecastCreated(IF old = 0 THEN rebuilt ELSE first,
                                          [forecast |-> item])
  BY DEF Reforecast
<1>2. scope \in Scopes
  BY ScopesHold
<1>3. live.pending = NoPending
  BY DEF Typed, Tables
<1>4. [live EXCEPT !.forecasts = rows, !.forecastHead = head,
                   !.pending = NoPending] = t
  BY <1>3, Rows DEF Tables
<1>5. CASE old = 0
  <2>1. rebuilt' = Step(rebuilt, TRUE, t)
    <3>1. item.scope = scope /\ item.supersedes = 0
      BY <1>5
    <3>2. rebuilt' = ReplayForecastCreated(rebuilt, [forecast |-> item])
      BY <1>1, <1>5
    <3>3. live.forecastHead[scope] = 0
      BY <1>5
    <3> HIDE DEF t, item
    <3>4. rebuilt' = Step(rebuilt, TRUE,
                          [live EXCEPT !.forecasts = rows,
                                       !.forecastHead[scope] = id,
                                       !.pending = NoPending])
      BY <1>3, <3>1, <3>2, <3>3, RebuiltIs DEF ReplayForecastCreated, Step
    <3>5. [live EXCEPT !.forecasts = rows, !.forecastHead[scope] = id,
                       !.pending = NoPending]
            = [live EXCEPT !.forecasts = rows, !.forecastHead = head,
                           !.pending = NoPending]
      BY Rows DEF Tables
    <3> QED
      BY <1>4, <3>4, <3>5
  <2>2. Written("planning", t, 1)
    BY <1>1, <1>5
  <2> HIDE DEF t
  <2> QED
    BY <2>1, <2>2, ReplayOne
<1>6. CASE old # 0
  <2>1. /\ old \in DOMAIN live.forecasts
        /\ live.forecasts[old].scope = scope
    BY <1>2, <1>6 DEF Heads
  <2>2. first = Step(rebuilt, TRUE, w)
    BY <1>3, <2>1, RebuiltIs DEF ReplayForecastSuperseded, Step
  <2>3. live.project.version \in Nat
    BY Rows DEF ProjectRow
  <2> DEFINE x == Counted(w, 1)
             y == [x EXCEPT !.forecasts = rows, !.forecastHead[scope] = id,
                            !.pending = NoPending]
  <2>4. first = [ok |-> TRUE, tables |-> x]
    <3>1. rebuilt.tables.project.version + 1 = live.project.version + 1
      BY <2>3, RebuiltIs
    <3> HIDE DEF w, x
    <3> QED
      BY <2>2, <3>1, RebuiltIs, StepTo DEF x
  <2>5. /\ x.project.version = live.project.version + 1
        /\ x.pending = waiting /\ x.forecasts = live.forecasts
        /\ x.forecastHead = live.forecastHead
        /\ x.deliverables = live.deliverables
    BY <2>3, Rows DEF Counted, Tables, ProjectRow
  <2>6. rebuilt' = Step(first, TRUE, y)
    <3>1. /\ item.scope = scope /\ item.supersedes = old
          /\ first.ok /\ first.tables = x
      BY <2>4
    <3>2. rebuilt' = ReplayForecastCreated(first, [forecast |-> item])
      BY <1>1, <1>6
    <3> HIDE DEF first, x, item, w
    <3> QED
      BY <1>6, <2>5, <3>1, <3>2
         DEF ReplayForecastCreated, Step, y, waiting, rows, id
  <2>7. rebuilt' = [ok |-> TRUE,
                    tables |-> [y EXCEPT !.project.version =
                                           live.project.version + 2]]
    <3>1. /\ first.ok
          /\ first.tables.project.version + 1 = live.project.version + 2
      BY <2>3, <2>4, <2>5
    <3> HIDE DEF first, y
    <3> QED
      BY <2>6, <3>1 DEF Step
  <2>8. [y EXCEPT !.project.version = live.project.version + 2] = Counted(t, 2)
    <3>1. w.project = live.project /\ live \in Tables
      BY Rows DEF Tables
    <3>2. y = [w EXCEPT !.project =
                          [live.project EXCEPT !.version =
                                                 live.project.version + 1],
                        !.forecasts = rows, !.forecastHead = head,
                        !.pending = NoPending]
      BY <3>1 DEF Counted, Tables, ProjectRow
    <3>3. y = [live EXCEPT !.project =
                             [live.project EXCEPT !.version =
                                                    live.project.version + 1],
                           !.forecasts = rows, !.forecastHead = head]
      BY <1>3, <3>1, <3>2 DEF Tables, ProjectRow
    <3>4. t = [live EXCEPT !.forecasts = rows, !.forecastHead = head]
      BY <3>1 DEF Tables
    <3> DEFINE p == [live.project EXCEPT !.version = live.project.version + 1]
    <3>5. [p EXCEPT !.version = live.project.version + 2]
            = [live.project EXCEPT !.version = live.project.version + 2]
      BY Rows DEF ProjectRow
    <3>6. y = [live EXCEPT !.project = p, !.forecasts = rows,
                           !.forecastHead = head]
      BY <3>3
    <3> HIDE DEF y, t, rows, head, p
    <3> QED
      BY <3>1, <3>4, <3>5, <3>6 DEF Counted, Tables
  <2>9. Written("planning", t, 2)
    BY <1>1, <1>6
  <2> HIDE DEF t, y
  <2> QED
    BY <2>7, <2>8, <2>9, ReplayLast
<1> QED
  BY <1>5, <1>6

LEMMA PromoteReplay ==
  ASSUME Typed, Referring, RebuildMatchesLive, NEW a \in Actors,
         NEW state \in OpenStates, PromoteProject(a, state)
  PROVE  RebuildMatchesLive'
<1> DEFINE decision == [kind |-> "promote", evidence |-> {}, by |-> a]
           item == NewDeliverable(a, TRUE, state)
           p == [live.project EXCEPT !.mode = "exploitation",
                                     !.version = @ + 3]
           rows == Append(live.deliverables, item)
           n == Len(live.deliverables) + 1
           u == [live EXCEPT !.decisions = Append(@, decision)]
           v == [u EXCEPT !.deliverables = rows]
           t == [v EXCEPT !.project = p]
           r == [ok |-> TRUE, tables |-> Counted(u, 1)]
           s == [ok |-> TRUE, tables |-> Counted(v, 2)]
           created == [deliverable |-> item, by |-> a]
           promoted == [type |-> "project.promoted", project |-> p]
<1>1. t = [live EXCEPT !.decisions = Append(@, decision),
                       !.deliverables = Append(@, item), !.project = p]
  BY Rows DEF Tables
<1>2. /\ Written("planning", t, 3)
      /\ live.project.mode = "exploration" /\ live.project.state = "active"
      /\ live.forecastHead[0] # 0
      /\ rebuilt' = ReplayProject(
                      ReplayCreated(
                        ReplayDecision(rebuilt, [decision |-> decision]),
                        created),
                      promoted)
  BY <1>1 DEF PromoteProject
<1>3. /\ item \in DeliverableRow /\ item.version = 1 /\ item.creator = a
      /\ item.required /\ item.state \notin {"cancelled", "waived"}
  <2>1. item \in DeliverableRow
    BY AddDeliverableEffect
  <2> QED
    BY <2>1 DEF NewDeliverable, OpenStates
<1>4. /\ rows \in Seq(DeliverableRow) /\ n \in DOMAIN rows /\ rows[n] = item
  <2> HIDE DEF item
  <2>1. /\ rows \in Seq(DeliverableRow) /\ Len(live.deliverables) \in Nat
        /\ DOMAIN rows = 1 .. n /\ rows[n] = item
    BY <1>3, Rows, Appended
  <2> QED
    BY <2>1
<1>5. u \in Tables /\ v \in Tables
  <2>1. decision \in DecisionRow
    BY DEF DecisionRow
  <2>2. u \in Tables
    BY <2>1, Rows, Appended, Put
  <2> QED
    BY <1>4, <2>2, Put
<1>6. ReplayDecision(rebuilt, [decision |-> decision]) = r
  BY DecisionReplayed
<1>7. ReplayCreated(r, created) = s
  <2>1. r.ok /\ r.tables.project.version + 1 = live.project.version + 2
    BY <1>5, CountedIs
  <2>2. created.deliverable = item /\ created.by = a /\ r.tables = Counted(u, 1)
        /\ Counted(u, 1).deliverables = live.deliverables
    <3>1. u.deliverables = live.deliverables
      BY Rows DEF Tables
    <3> HIDE DEF u
    <3> QED
      BY <1>5, <3>1, CountedIs
  <2> HIDE DEF created, item, r
  <2>3. ReplayCreated(r, created)
          = Step(r, TRUE, [Counted(u, 1) EXCEPT !.deliverables = rows])
    BY <1>3, <2>1, <2>2 DEF ReplayCreated, Step
  <2>4. ReplayCreated(r, created) =
          [ok |-> TRUE, tables |-> Counted([Counted(u, 1)
                                              EXCEPT !.deliverables = rows], 2)]
    BY <2>1, <2>3, StepTo
  <2> HIDE DEF u, rows
  <2> QED
    BY <1>5, <2>4, CountedPut
<1>8. /\ Counted(v, 2).project.version = live.project.version + 2
      /\ live.project.version \in Nat
      /\ Counted(v, 2).project.mode = "exploration"
      /\ Counted(v, 2).project.state = "active"
      /\ Counted(v, 2).forecastHead[0] # 0
      /\ Counted(v, 2).deliverables = rows
  <2>1. /\ v.project = live.project /\ v.forecastHead = live.forecastHead
        /\ v.deliverables = rows
    BY Rows DEF Tables
  <2> HIDE DEF u, v, rows
  <2>2. /\ live.project.version \in Nat
        /\ Counted(v, 2).project.version = live.project.version + 2
        /\ Counted(v, 2).project.mode = v.project.mode
        /\ Counted(v, 2).project.state = v.project.state
        /\ Counted(v, 2).forecastHead = v.forecastHead
        /\ Counted(v, 2).deliverables = v.deliverables
    BY <1>5, CountedIs
  <2> QED
    BY <1>2, <2>1, <2>2
<1>9. RequiredDeliverables(Counted(v, 2)) # {}
  <2> HIDE DEF v, rows, item, n
  <2> QED
    BY <1>3, <1>4, <1>8 DEF RequiredDeliverables
<1>10. /\ p.version = live.project.version + 3
       /\ p.mode = "exploitation" /\ p.state = "active"
  BY <1>2, Rows DEF ProjectRow
<1>11. [Counted(v, 2) EXCEPT !.project = p] = t
  <2> HIDE DEF v, p
  <2> QED
    BY <1>5 DEF Counted, Tables
<1>12. rebuilt' = Step(s, TRUE, t)
  <2>1. rebuilt' = ReplayProject(s, promoted)
    BY <1>2, <1>6, <1>7
  <2>2. /\ promoted.type = "project.promoted" /\ promoted.project = p
        /\ s.ok /\ s.tables = Counted(v, 2)
    OBVIOUS
  <2> HIDE DEF promoted, s, t, v, p
  <2>3. p.version = s.tables.project.version + 1
    BY <1>8, <1>10, <2>2
  <2> QED
    BY <1>8, <1>9, <1>10, <1>11, <2>1, <2>2, <2>3 DEF ReplayProject, Step
<1>13. rebuilt' = [ok |-> TRUE, tables |-> Counted(t, 3)]
  <2>1. s.ok /\ s.tables.project.version + 1 = live.project.version + 3
    BY <1>8
  <2> HIDE DEF s, t
  <2> QED
    BY <1>12, <2>1, StepTo
<1> HIDE DEF t
<1> QED
  BY <1>2, <1>13, ReplayLast

-----------------------------------------------------------------------------
(* The heads, and what review freezes.                                     *)

LEMMA HeadsKept ==
  ASSUME Heads, UNCHANGED ForecastTables PROVE Heads'
BY DEF Heads, ForecastTables

LEMMA ReforecastHeads ==
  ASSUME Typed, Heads, NEW scope \in Scopes, Reforecast(scope) PROVE Heads'
<1> DEFINE item == [scope |-> scope, supersedes |-> live.forecastHead[scope]]
<1>1. /\ live'.forecasts = Append(live.forecasts, item)
      /\ live'.forecastHead =
           [live.forecastHead EXCEPT ![scope] = Len(live.forecasts) + 1]
  BY ReforecastEffect
<1>2. item \in ForecastRow /\ item.scope = scope
  BY Rows DEF ForecastRow
<1> HIDE DEF item
<1>3. /\ DOMAIN live.forecasts = 1 .. Len(live.forecasts)
      /\ DOMAIN live'.forecasts = 1 .. Len(live.forecasts) + 1
      /\ Len(live.forecasts) \in Nat
      /\ \A i \in 1 .. Len(live.forecasts) :
           live'.forecasts[i] = live.forecasts[i]
      /\ live'.forecasts[Len(live.forecasts) + 1] = item
  BY <1>1, <1>2, Rows, Appended
<1>4. ASSUME NEW s \in Scopes, live'.forecastHead[s] # 0
      PROVE  /\ live'.forecastHead[s] \in DOMAIN live'.forecasts
             /\ live'.forecasts[live'.forecastHead[s]].scope = s
  <2>1. CASE s = scope
    <3>1. live'.forecastHead[s] = Len(live.forecasts) + 1
      BY <1>1, <2>1, Rows
    <3> QED
      BY <1>2, <1>3, <2>1, <3>1
  <2>2. CASE s # scope
    <3>1. live'.forecastHead[s] = live.forecastHead[s]
      BY <1>1, <2>2, Rows
    <3> QED
      BY <1>3, <1>4, <3>1 DEF Heads
  <2> QED
    BY <2>1, <2>2
<1> QED
  BY <1>4 DEF Heads

\* What FrozenInReview says of a step.
FrozenStep ==
  \A d \in DOMAIN live.deliverables :
    /\ ~InState(d, OpenStates) =>
         /\ GatesOf(live', d) = GatesOf(live, d)
         /\ \A g \in GatesOf(live, d) : Contract(live', g) = Contract(live, g)
         /\ live'.deliverables[d].required = Deliverable(d).required
    /\ InState(d, {"accepted", "waived", "cancelled"}) =>
         live'.deliverables[d] = Deliverable(d)

LEMMA FrozenKept ==
  ASSUME live'.deliverables = live.deliverables, live'.gates = live.gates
  PROVE  FrozenStep
BY DEF FrozenStep, GatesOf, Contract, Deliverable

LEMMA FrozenAdded ==
  ASSUME Typed, NEW item \in DeliverableRow,
         live'.deliverables = Append(live.deliverables, item),
         live'.gates = live.gates
  PROVE  FrozenStep
<1>1. \A d \in DOMAIN live.deliverables :
        live'.deliverables[d] = live.deliverables[d]
  BY Rows, Appended
<1> QED
  BY <1>1 DEF FrozenStep, GatesOf, Contract, Deliverable

LEMMA FrozenChanged ==
  ASSUME Typed, NEW d \in DOMAIN live.deliverables, NEW item \in DeliverableRow,
         live'.deliverables = [live.deliverables EXCEPT ![d] = item],
         live'.gates = live.gates,
         ~InState(d, {"accepted", "waived", "cancelled"}),
         \/ InState(d, OpenStates)
         \/ item.required = live.deliverables[d].required
  PROVE  FrozenStep
<1>1. /\ live'.deliverables[d] = item
      /\ \A i \in DOMAIN live.deliverables :
           i # d => live'.deliverables[i] = live.deliverables[i]
  BY Rows, Replaced
<1> QED
  BY <1>1 DEF FrozenStep, GatesOf, Contract, Deliverable, InState

LEMMA FrozenGateAdded ==
  ASSUME Typed, NEW d \in DOMAIN live.deliverables, NEW item \in GateRow,
         live'.deliverables = live.deliverables, item.deliverable = d,
         live'.gates = Append(live.gates, item), InState(d, OpenStates)
  PROVE  FrozenStep
<1>1. /\ DOMAIN live'.gates = 1 .. Len(live.gates) + 1
      /\ DOMAIN live.gates = 1 .. Len(live.gates) /\ Len(live.gates) \in Nat
      /\ \A i \in 1 .. Len(live.gates) : live'.gates[i] = live.gates[i]
      /\ live'.gates[Len(live.gates) + 1] = item
  BY Rows, Appended
<1>2. ASSUME NEW i \in DOMAIN live.deliverables, i # d
      PROVE  /\ GatesOf(live', i) = GatesOf(live, i)
             /\ \A g \in GatesOf(live, i) :
                  Contract(live', g) = Contract(live, g)
  BY <1>1, <1>2 DEF GatesOf, Contract
<1> QED
  BY <1>2 DEF FrozenStep, Deliverable, InState

LEMMA FrozenGateChanged ==
  ASSUME Typed, NEW g \in DOMAIN live.gates, NEW item \in GateRow,
         live'.deliverables = live.deliverables,
         live'.gates = [live.gates EXCEPT ![g] = item],
         item.deliverable = live.gates[g].deliverable,
         item.hard = live.gates[g].hard,
         item.independent = live.gates[g].independent,
         item.claims = live.gates[g].claims
  PROVE  FrozenStep
<1>1. /\ DOMAIN live'.gates = DOMAIN live.gates
      /\ \A i \in DOMAIN live.gates :
           /\ live'.gates[i].deliverable = live.gates[i].deliverable
           /\ Contract(live', i) = Contract(live, i)
  BY Rows, Replaced DEF Contract
<1>2. \A d : GatesOf(live', d) = GatesOf(live, d)
  BY <1>1 DEF GatesOf
<1> QED
  BY <1>1, <1>2 DEF FrozenStep, GatesOf, Deliverable, InState

-----------------------------------------------------------------------------
(* Corrections form chains.                                                *)

\* A sequence whose entry i has key[i] and replaces entry sup[i] (0: none) of
\* the same key, and whose current entry of key k is head[k] (0: none).
Chained(n, key, sup, head) ==
  /\ \A i \in 1 .. n : /\ sup[i] \in 0 .. n
                       /\ head[key[i]] # 0 /\ sup[i] # head[key[i]]
  /\ \A i, j \in 1 .. n : key[i] = key[j] /\ sup[i] = sup[j] => i = j
  /\ \A i \in 1 .. n : i # head[key[i]] =>
       \E j \in 1 .. n : key[j] = key[i] /\ sup[j] = i

\* A new entry replaces the current one of its key and becomes current.
LEMMA ChainExtended ==
  ASSUME NEW n \in Nat, NEW key, NEW sup, NEW head,
         NEW key1, NEW sup1, NEW head1, Chained(n, key, sup, head),
         \A i \in 1 .. n : key1[i] = key[i] /\ sup1[i] = sup[i],
         head[key1[n + 1]] \in 0 .. n, sup1[n + 1] = head[key1[n + 1]],
         head1[key1[n + 1]] = n + 1,
         \A i \in 1 .. n : key[i] # key1[n + 1] => head1[key[i]] = head[key[i]]
  PROVE  Chained(n + 1, key1, sup1, head1)
<1>1. ASSUME NEW i \in 1 .. n + 1
      PROVE  /\ sup1[i] \in 0 .. n + 1
             /\ head1[key1[i]] # 0 /\ sup1[i] # head1[key1[i]]
  <2>1. CASE i = n + 1
    BY <2>1
  <2>2. CASE i \in 1 .. n
    <3>1. sup1[i] \in 0 .. n /\ head[key[i]] # 0 /\ sup1[i] # head[key[i]]
      BY <2>2 DEF Chained
    <3> QED
      BY <2>2, <3>1
  <2> QED
    BY <2>1, <2>2
<1>2. ASSUME NEW i \in 1 .. n + 1, NEW j \in 1 .. n,
             key1[i] = key1[j], sup1[i] = sup1[j]
      PROVE  i = j
  <2>1. CASE i = n + 1
    BY <1>2, <2>1 DEF Chained
  <2>2. CASE i \in 1 .. n
    BY <1>2, <2>2 DEF Chained
  <2> QED
    BY <2>1, <2>2
<1>3. \A i, j \in 1 .. n + 1 : key1[i] = key1[j] /\ sup1[i] = sup1[j] => i = j
  <2>1. \A i \in 1 .. n + 1 : i = n + 1 \/ i \in 1 .. n
    OBVIOUS
  <2> QED
    BY <1>2, <2>1
<1>4. ASSUME NEW i \in 1 .. n + 1, i # head1[key1[i]]
      PROVE  \E j \in 1 .. n + 1 : key1[j] = key1[i] /\ sup1[j] = i
  <2>1. i \in 1 .. n
    BY <1>4
  <2>2. CASE key[i] = key1[n + 1] /\ i = head[key[i]]
    BY <2>1, <2>2
  <2>3. CASE i # head[key[i]]
    <3>1. PICK j \in 1 .. n : key[j] = key[i] /\ sup[j] = i
      BY <2>1, <2>3 DEF Chained
    <3> QED
      BY <2>1, <3>1
  <2> QED
    BY <1>4, <2>1, <2>2, <2>3
<1> QED
  BY <1>1, <1>3, <1>4 DEF Chained

\* In a chain every entry but the current one is replaced once.
LEMMA ChainCounted ==
  ASSUME NEW n \in Nat, NEW key, NEW sup, NEW head, Chained(n, key, sup, head),
         NEW i \in 1 .. n, NEW S,
         S = {j \in 1 .. n : sup[j] = i /\ key[i] = key[j]}
  PROVE  Cardinality(S) = IF i = head[key[i]] THEN 0 ELSE 1
<1>1. CASE i = head[key[i]]
  <2>1. S = {}
    BY <1>1 DEF Chained
  <2> QED
    BY <1>1, <2>1, FS_EmptySet
<1>2. CASE i # head[key[i]]
  <2>1. PICK j \in 1 .. n : key[j] = key[i] /\ sup[j] = i
    BY <1>2 DEF Chained
  <2>2. S = {j}
    BY <2>1 DEF Chained
  <2> QED
    BY <1>2, <2>2, FS_Singleton
<1> QED
  BY <1>1, <1>2

DateTables == <<live.dates, live.dateHead>>

ForecastChain ==
  Chained(Len(live.forecasts),
          [i \in DOMAIN live.forecasts |-> live.forecasts[i].scope],
          [i \in DOMAIN live.forecasts |-> live.forecasts[i].supersedes],
          live.forecastHead)

DateHeads == \A k \in DateKinds : live.dateHead[k] \in 0 .. Len(live.dates)

DateChain ==
  Chained(Len(live.dates),
          [i \in DOMAIN live.dates |-> live.dates[i].kind],
          [i \in DOMAIN live.dates |-> live.dates[i].supersedes],
          live.dateHead)

EvidenceChain ==
  \A e, f \in DOMAIN live.evidence :
    /\ live.evidence[e].supersedes = live.evidence[f].supersedes
    /\ live.evidence[e].supersedes # 0
    => e = f

Chains == ForecastChain /\ DateHeads /\ DateChain /\ EvidenceChain

\* Only a correction of evidence, a forecast or a date adds to a chain.
LEMMA ChainsKept ==
  ASSUME Chains, UNCHANGED ForecastTables, UNCHANGED DateTables,
         live'.evidence = live.evidence
  PROVE  Chains'
BY DEF Chains, ForecastChain, DateHeads, DateChain, EvidenceChain,
       ForecastTables, DateTables

LEMMA ChainsAreCorrections ==
  ASSUME Typed, Chains
  PROVE  CorrectionsAreChains
<1>1. ASSUME NEW e \in DOMAIN live.evidence
      PROVE  Cardinality({f \in DOMAIN live.evidence :
                            live.evidence[f].supersedes = e}) <= 1
  <2> DEFINE S == {f \in DOMAIN live.evidence :
                     live.evidence[f].supersedes = e}
  <2>0. e # 0
    BY Rows
  <2>1. ASSUME S = {} PROVE Cardinality(S) <= 1
    <3>1. Cardinality(S) = 0
      BY <2>1, FS_EmptySet
    <3> QED
      BY <3>1
  <2>2. ASSUME S # {} PROVE Cardinality(S) <= 1
    <3>1. PICK f \in S : TRUE
      BY <2>2
    <3>2. S = {f}
      BY <2>0, <3>1 DEF Chains, EvidenceChain
    <3>3. Cardinality(S) = 1
      BY <3>2, FS_Singleton
    <3> HIDE DEF S
    <3> QED
      BY <3>3
  <2> QED
    BY <2>1, <2>2
<1>2. ASSUME NEW f \in DOMAIN live.forecasts
      PROVE  Cardinality(Following(live.forecasts, f, SameScope)) =
               IF f = live.forecastHead[live.forecasts[f].scope] THEN 0 ELSE 1
  <2> DEFINE key == [i \in DOMAIN live.forecasts |-> live.forecasts[i].scope]
             sup == [i \in DOMAIN live.forecasts |->
                       live.forecasts[i].supersedes]
             S == Following(live.forecasts, f, SameScope)
             n == Len(live.forecasts)
  <2>1. n \in Nat /\ DOMAIN live.forecasts = 1 .. n
    BY Rows
  <2>2. S = {j \in 1 .. n : sup[j] = f /\ key[f] = key[j]}
    BY <2>1 DEF Following, SameScope
  <2>3. Chained(n, key, sup, live.forecastHead)
    BY DEF Chains, ForecastChain
  <2>4. key[f] = live.forecasts[f].scope
    OBVIOUS
  <2> HIDE DEF n, key, sup, S
  <2>5. Cardinality(S) = IF f = live.forecastHead[key[f]] THEN 0 ELSE 1
    BY <2>1, <2>2, <2>3, ChainCounted
  <2> QED
    BY <2>4, <2>5 DEF S
<1>3. ASSUME NEW f \in DOMAIN live.dates
      PROVE  Cardinality(Following(live.dates, f, SameKind)) =
               IF f = live.dateHead[live.dates[f].kind] THEN 0 ELSE 1
  <2> DEFINE key == [i \in DOMAIN live.dates |-> live.dates[i].kind]
             sup == [i \in DOMAIN live.dates |-> live.dates[i].supersedes]
             S == Following(live.dates, f, SameKind)
             n == Len(live.dates)
  <2>1. n \in Nat /\ DOMAIN live.dates = 1 .. n
    BY Rows
  <2>2. S = {j \in 1 .. n : sup[j] = f /\ key[f] = key[j]}
    BY <2>1 DEF Following, SameKind
  <2>3. Chained(n, key, sup, live.dateHead)
    BY DEF Chains, DateChain
  <2>4. key[f] = live.dates[f].kind
    OBVIOUS
  <2> HIDE DEF n, key, sup, S
  <2>5. Cardinality(S) = IF f = live.dateHead[key[f]] THEN 0 ELSE 1
    BY <2>1, <2>2, <2>3, ChainCounted
  <2> QED
    BY <2>4, <2>5 DEF S
<1> QED
  BY <1>1, <1>2, <1>3 DEF CorrectionsAreChains

LEMMA ForecastChainKept ==
  ASSUME Typed, Heads, ForecastChain, NEW scope \in Scopes, Reforecast(scope)
  PROVE  ForecastChain'
<1> DEFINE item == [scope |-> scope, supersedes |-> live.forecastHead[scope]]
           n == Len(live.forecasts)
           key == [i \in DOMAIN live.forecasts |-> live.forecasts[i].scope]
           sup == [i \in DOMAIN live.forecasts |->
                     live.forecasts[i].supersedes]
           head == live.forecastHead
           key1 == [i \in DOMAIN live'.forecasts |-> live'.forecasts[i].scope]
           sup1 == [i \in DOMAIN live'.forecasts |->
                      live'.forecasts[i].supersedes]
           head1 == live'.forecastHead
<1>1. /\ live'.forecasts = Append(live.forecasts, item)
      /\ head1 = [head EXCEPT ![scope] = n + 1]
  BY ReforecastEffect
<1>2. /\ item \in ForecastRow /\ item.scope = scope
      /\ item.supersedes = head[scope]
  BY Rows DEF ForecastRow
<1>3. /\ n \in Nat /\ DOMAIN live.forecasts = 1 .. n
      /\ DOMAIN live'.forecasts = 1 .. n + 1 /\ Len(live'.forecasts) = n + 1
      /\ \A i \in 1 .. n : live'.forecasts[i] = live.forecasts[i]
      /\ live'.forecasts[n + 1] = item
  <2> HIDE DEF item
  <2> QED
    BY <1>1, <1>2, Rows, Appended, SMTT(30)
<1>4. /\ \A i \in 1 .. n : key1[i] = key[i] /\ sup1[i] = sup[i]
      /\ key1[n + 1] = scope /\ sup1[n + 1] = head[scope]
  BY <1>2, <1>3
<1>5. head[scope] \in 0 .. n
  BY <1>3 DEF Heads
<1>6. /\ head1[scope] = n + 1
      /\ \A i \in 1 .. n : key[i] # scope => head1[key[i]] = head[key[i]]
  <2>1. \A i \in 1 .. n : key[i] \in Scopes
    <3>1. \A i \in 1 .. n : live.forecasts[i] \in ForecastRow
      BY <1>3, Rows
    <3> QED
      BY <1>3, <3>1 DEF ForecastRow
  <2> QED
    BY <1>1, <2>1, Rows, SMTT(30)
<1>7. Chained(n, key, sup, head)
  BY DEF ForecastChain
<1> HIDE DEF n, key, sup, head, key1, sup1, head1
<1>8. Chained(n + 1, key1, sup1, head1)
  BY <1>3, <1>4, <1>5, <1>6, <1>7, ChainExtended
<1> QED
  BY <1>3, <1>8 DEF ForecastChain, key1, sup1, head1

LEMMA DateChainKept ==
  ASSUME Typed, DateHeads, DateChain, NEW kind \in DateKinds, SetDate(kind)
  PROVE  DateHeads' /\ DateChain'
<1> DEFINE item == [kind |-> kind, supersedes |-> live.dateHead[kind]]
           n == Len(live.dates)
           key == [i \in DOMAIN live.dates |-> live.dates[i].kind]
           sup == [i \in DOMAIN live.dates |-> live.dates[i].supersedes]
           head == live.dateHead
           key1 == [i \in DOMAIN live'.dates |-> live'.dates[i].kind]
           sup1 == [i \in DOMAIN live'.dates |-> live'.dates[i].supersedes]
           head1 == live'.dateHead
<1>1. /\ live'.dates = Append(live.dates, item)
      /\ head1 = [head EXCEPT ![kind] = n + 1]
  BY Rows DEF SetDate, Written, Tables
<1>2. /\ item \in DateRow /\ item.kind = kind
      /\ item.supersedes = head[kind]
  BY Rows DEF DateRow
<1>3. /\ n \in Nat /\ DOMAIN live.dates = 1 .. n
      /\ DOMAIN live'.dates = 1 .. n + 1 /\ Len(live'.dates) = n + 1
      /\ \A i \in 1 .. n : live'.dates[i] = live.dates[i]
      /\ live'.dates[n + 1] = item
  <2> HIDE DEF item
  <2> QED
    BY <1>1, <1>2, Rows, Appended
<1>4. /\ \A i \in 1 .. n : key1[i] = key[i] /\ sup1[i] = sup[i]
      /\ key1[n + 1] = kind /\ sup1[n + 1] = head[kind]
  BY <1>2, <1>3
<1>5. head[kind] \in 0 .. n
  BY DEF DateHeads
<1>6. /\ head1[kind] = n + 1
      /\ \A k \in DateKinds : k # kind => head1[k] = head[k]
  BY <1>1, Rows
<1>7. \A i \in 1 .. n : key[i] # kind => head1[key[i]] = head[key[i]]
  <2>1. \A i \in 1 .. n : key[i] \in DateKinds
    <3>1. \A i \in 1 .. n : live.dates[i] \in DateRow
      BY <1>3, Rows
    <3> QED
      BY <1>3, <3>1 DEF DateRow
  <2> QED
    BY <1>6, <2>1
<1>8. Chained(n, key, sup, head)
  BY DEF DateChain
<1>9. DateHeads'
  <2>1. \A k \in DateKinds : head1[k] \in 0 .. n + 1
    BY <1>3, <1>6 DEF DateHeads
  <2> QED
    BY <1>3, <2>1 DEF DateHeads
<1> HIDE DEF n, key, sup, head, key1, sup1, head1
<1>10. Chained(n + 1, key1, sup1, head1)
  BY <1>3, <1>4, <1>5, <1>6, <1>7, <1>8, ChainExtended
<1> QED
  BY <1>3, <1>9, <1>10 DEF DateChain, key1, sup1, head1

LEMMA EvidenceChainKept ==
  ASSUME Typed, EvidenceChain, NEW a \in Actors, NEW claim \in Claims,
         NEW supports \in SUBSET TargetRow,
         NEW old \in {0} \cup DOMAIN live.evidence,
         CreateEvidence(a, claim, supports, old)
  PROVE  EvidenceChain'
<1>1. PICK item \in EvidenceRow :
        /\ item.supersedes = old
        /\ live'.evidence = Append(live.evidence, item)
  BY CreateEvidenceEffect
<1>2. old # 0 => ~Superseded(live, old)
  BY CreateEvidenceEffect
<1> DEFINE n == Len(live.evidence)
<1>3. /\ n \in Nat /\ DOMAIN live.evidence = 1 .. n
      /\ DOMAIN live'.evidence = 1 .. n + 1
      /\ \A i \in 1 .. n : live'.evidence[i] = live.evidence[i]
      /\ live'.evidence[n + 1] = item
  BY <1>1, Rows, Appended
<1>4. ASSUME NEW e \in 1 .. n + 1, NEW f \in 1 .. n,
             live'.evidence[e].supersedes = live'.evidence[f].supersedes,
             live'.evidence[e].supersedes # 0
      PROVE  e = f
  <2>1. CASE e = n + 1
    BY <1>1, <1>2, <1>3, <1>4, <2>1 DEF Superseded
  <2>2. CASE e \in 1 .. n
    BY <1>3, <1>4, <2>2 DEF EvidenceChain
  <2> QED
    BY <2>1, <2>2
<1>5. \A i \in 1 .. n + 1 : i = n + 1 \/ i \in 1 .. n
  BY <1>3
<1> QED
  BY <1>3, <1>4, <1>5 DEF EvidenceChain

\* The commands other than SetDate leave the dates alone.
LEMMA PlanningKeepsDates ==
  ASSUME Typed,
         \/ \E a \in Actors : RecordDecision(a)
         \/ \E command : Lifecycle(command)
         \/ \E a, state : PromoteProject(a, state)
         \/ \E a, required, state : CreateDeliverable(a, required, state)
         \/ \E d, required, state : ReviseDeliverable(d, required, state)
         \/ \E d : CancelDeliverable(d)
         \/ \E scope : Reforecast(scope)
  PROVE  UNCHANGED DateTables
<1>1. ASSUME NEW a, RecordDecision(a) PROVE UNCHANGED DateTables
  BY <1>1, Rows DEF RecordDecision, Written, Tables, DateTables
<1>2. ASSUME NEW command, Lifecycle(command) PROVE UNCHANGED DateTables
  BY <1>2, Rows DEF Lifecycle, Written, Tables, DateTables
<1>3. ASSUME NEW a, NEW state, PromoteProject(a, state)
      PROVE  UNCHANGED DateTables
  BY <1>3, Rows DEF PromoteProject, Written, Tables, DateTables
<1>4. ASSUME NEW a, NEW required, NEW state,
             CreateDeliverable(a, required, state)
      PROVE  UNCHANGED DateTables
  BY <1>4, Rows DEF CreateDeliverable, Written, Tables, DateTables
<1>5. ASSUME NEW d, NEW required, NEW state,
             ReviseDeliverable(d, required, state)
      PROVE  UNCHANGED DateTables
  BY <1>5, Rows DEF ReviseDeliverable, Written, Tables, DateTables
<1>6. ASSUME NEW d, CancelDeliverable(d) PROVE UNCHANGED DateTables
  BY <1>6, Rows DEF CancelDeliverable, Written, Tables, DateTables
<1>7. ASSUME NEW scope, Reforecast(scope) PROVE UNCHANGED DateTables
  BY <1>7, Rows DEF Reforecast, Written, Tables, DateTables
<1> QED
  BY <1>1, <1>2, <1>3, <1>4, <1>5, <1>6, <1>7

LEMMA ReviewKeepsDates ==
  ASSUME Typed, ReviewNext PROVE UNCHANGED DateTables
<1>1. ASSUME NEW a, NEW claim, NEW supports, NEW old,
             CreateEvidence(a, claim, supports, old)
      PROVE  UNCHANGED DateTables
  BY <1>1, Rows DEF CreateEvidence, Written, Tables, DateTables
<1>2. ASSUME NEW d, NEW contract, CreateGate(d, contract)
      PROVE  UNCHANGED DateTables
  BY <1>2, Rows DEF CreateGate, Written, Tables, DateTables
<1>3. ASSUME NEW a, NEW g, NEW outcome, NEW ids, NEW blocking,
             RecordVerdict(a, g, outcome, ids, blocking)
      PROVE  UNCHANGED DateTables
  BY <1>3, Rows DEF RecordVerdict, Written, Tables, DateTables
<1>4. ASSUME NEW f, NEW action, NEW ids, DisposeFinding(f, action, ids)
      PROVE  UNCHANGED DateTables
  BY <1>4, Rows DEF DisposeFinding, Written, Tables, DateTables
<1>5. ASSUME NEW a, NEW d, NEW kind, NEW ids, Submit(a, d, kind, ids)
      PROVE  UNCHANGED DateTables
  BY <1>5, Rows DEF Submit, Written, Tables, DateTables
<1>6. ASSUME NEW a, NEW d, NEW ids, WaiveDeliverable(a, d, ids)
      PROVE  UNCHANGED DateTables
  BY <1>6, Rows DEF WaiveDeliverable, Written, Tables, DateTables
<1>7. ASSUME NEW a, NEW g, NEW ids, WaiveGate(a, g, ids)
      PROVE  UNCHANGED DateTables
  BY <1>7, Rows DEF WaiveGate, Written, Tables, DateTables
<1>8. ASSUME NEW d, NEW f, BounceDeliverable(d, f)
      PROVE  UNCHANGED DateTables
  BY <1>8, Rows DEF BounceDeliverable, Written, Tables, DateTables
<1>9. ASSUME NEW d, ApproveDeliverable(d)
      PROVE  UNCHANGED DateTables
  BY <1>9, Rows DEF ApproveDeliverable, Written, Tables, DateTables
<1> QED
  BY <1>1, <1>2, <1>3, <1>4, <1>5, <1>6, <1>7, <1>8, <1>9 DEF ReviewNext

-----------------------------------------------------------------------------
(* The theorems.                                                           *)

Inv == Typed /\ ReviewInv /\ Heads /\ RebuildMatchesLive

\* What every command does.
Good == Inv' /\ FrozenStep

LEMMA InitInv ==
  ASSUME Init PROVE Inv
<1>1. NewProject \in Tables
  BY DEF NewProject, Tables, ProjectRow, Scopes, DateKinds
<1>2. /\ live = NewProject
      /\ budget \in Budget
  BY WorkspaceConstants DEF Init, Budget
<1>3. /\ live.deliverables = <<>> /\ live.gates = <<>> /\ live.findings = <<>>
      /\ live.verdicts = <<>>
      /\ \A s \in Scopes : live.forecastHead[s] = 0
  BY <1>2 DEF NewProject
<1>4. Typed
  BY <1>1, <1>2 DEF Typed
<1>5. ReviewInv
  BY <1>3, WorkspaceConstants
     DEF ReviewInv, Referring, Submitted, GatesStayPassed, PassedByVerdict,
         FindingsHoldUp
<1>6. Heads
  BY <1>3 DEF Heads
<1>7. RebuildMatchesLive
  BY DEF Init, NoReplay, RebuildMatchesLive
<1> QED
  BY <1>4, <1>5, <1>6, <1>7 DEF Inv

LEMMA QuietGood ==
  ASSUME Inv,
         \/ \E a \in Actors : RecordDecision(a)
         \/ \E command \in {"activated", "held", "resumed"} : Lifecycle(command)
         \/ \E kind \in DateKinds : SetDate(kind)
  PROVE  Good
<1>1. Typed /\ ReviewInv /\ Heads /\ RebuildMatchesLive
  BY DEF Inv
<1>2. Typed' /\ UNCHANGED ReviewTables /\ UNCHANGED ForecastTables
  BY <1>1, QuietEffect
<1>3. ReviewInv' /\ Heads'
  BY <1>1, <1>2, ReviewKept, HeadsKept
<1>4. RebuildMatchesLive'
  BY <1>1, RecordDecisionReplay, LifecycleReplay, SetDateReplay
<1>5. FrozenStep
  BY <1>2, FrozenKept DEF ReviewTables
<1> QED
  BY <1>2, <1>3, <1>4, <1>5 DEF Good, Inv

LEMMA ReforecastGood ==
  ASSUME Inv, NEW scope \in {0} \cup DOMAIN live.deliverables, Reforecast(scope)
  PROVE  Good
<1>1. /\ Typed /\ ReviewInv /\ Heads /\ RebuildMatchesLive /\ Referring
  BY DEF Inv, ReviewInv
<1>2. scope \in Scopes
  BY <1>1, ScopesHold
<1>3. Typed' /\ UNCHANGED ReviewTables
  BY <1>1, <1>2, ReforecastEffect
<1>4. ReviewInv' /\ Heads' /\ RebuildMatchesLive'
  BY <1>1, <1>2, <1>3, ReviewKept, ReforecastHeads, ReforecastReplay
<1>5. FrozenStep
  BY <1>3, FrozenKept DEF ReviewTables
<1> QED
  BY <1>3, <1>4, <1>5 DEF Good, Inv

LEMMA AddDeliverableGood ==
  ASSUME Inv, NEW a \in Actors, NEW state \in OpenStates,
         NEW required \in BOOLEAN,
         \/ required /\ PromoteProject(a, state)
         \/ CreateDeliverable(a, required, state)
  PROVE  Good
<1>1. /\ Typed /\ ReviewInv /\ Heads /\ RebuildMatchesLive /\ Referring
  BY DEF Inv, ReviewInv
<1>2. /\ Typed' /\ UNCHANGED ForecastTables /\ live'.gates = live.gates
      /\ NewDeliverable(a, required, state) \in DeliverableRow
      /\ live'.deliverables =
           Append(live.deliverables, NewDeliverable(a, required, state))
  BY <1>1, AddDeliverableEffect
<1>3. ReviewInv' /\ Heads'
  BY <1>1, <1>2, AddDeliverableReview, HeadsKept
<1>4. RebuildMatchesLive'
  BY <1>1, PromoteReplay, CreateDeliverableReplay
<1>5. FrozenStep
  BY <1>1, <1>2, FrozenAdded
<1> QED
  BY <1>2, <1>3, <1>4, <1>5 DEF Good, Inv

LEMMA ChangeDeliverableGood ==
  ASSUME Inv, NEW d \in DOMAIN live.deliverables,
         \/ \E required \in BOOLEAN, state \in OpenStates :
              ReviseDeliverable(d, required, state)
         \/ CancelDeliverable(d)
         \/ \E f \in DOMAIN live.findings : BounceDeliverable(d, f)
         \/ ApproveDeliverable(d)
  PROVE  Good
<1>1. /\ Typed /\ ReviewInv /\ Heads /\ RebuildMatchesLive
  BY DEF Inv
<1>2. PICK item \in DeliverableRow :
        /\ live'.deliverables = [live.deliverables EXCEPT ![d] = item]
        /\ \/ InState(d, OpenStates)
           \/ /\ InState(d, {"submitted"})
              /\ item.required = live.deliverables[d].required
  BY <1>1, ChangeDeliverableEffect
<1>3. Typed' /\ UNCHANGED ForecastTables /\ live'.gates = live.gates
  BY <1>1, ChangeDeliverableEffect
<1>4. ReviewInv' /\ Heads'
  BY <1>1, <1>3, ChangeDeliverableReview, HeadsKept
<1>5. RebuildMatchesLive'
  BY <1>1, ReviseDeliverableReplay, CancelDeliverableReplay, ReviewReplay
<1>6. FrozenStep
  <2>1. ~InState(d, {"accepted", "waived", "cancelled"})
    BY <1>2 DEF InState, OpenStates
  <2> QED
    BY <1>1, <1>2, <1>3, <2>1, FrozenChanged
<1> QED
  BY <1>3, <1>4, <1>5, <1>6 DEF Good, Inv

LEMMA CreateEvidenceGood ==
  ASSUME Inv, NEW a \in Actors, NEW claim \in Claims, NEW cited \in Targets,
         NEW old \in {0} \cup DOMAIN live.evidence,
         CreateEvidence(a, claim, {cited}, old)
  PROVE  Good
<1>1. /\ Typed /\ ReviewInv /\ Heads /\ RebuildMatchesLive
      /\ {cited} \in SUBSET TargetRow
  BY TargetsTyped DEF Inv
<1>2. /\ Typed' /\ UNCHANGED ForecastTables
      /\ live'.deliverables = live.deliverables /\ live'.gates = live.gates
  BY <1>1, CreateEvidenceEffect
<1>3. ReviewInv' /\ Heads' /\ RebuildMatchesLive'
  BY <1>1, <1>2, CreateEvidenceReview, HeadsKept, CreateEvidenceReplay
<1> QED
  BY <1>2, <1>3, FrozenKept DEF Good, Inv

LEMMA CreateGateGood ==
  ASSUME Inv, NEW d \in DOMAIN live.deliverables, NEW contract \in Contracts,
         CreateGate(d, contract)
  PROVE  Good
<1>1. /\ Typed /\ ReviewInv /\ Heads /\ RebuildMatchesLive
  BY DEF Inv
<1>2. PICK item \in GateRow : /\ item.deliverable = d
                              /\ live'.gates = Append(live.gates, item)
  BY <1>1, CreateGateEffect
<1>3. /\ Typed' /\ UNCHANGED ForecastTables /\ BeforeReview(d)
      /\ live'.deliverables = live.deliverables
  BY <1>1, CreateGateEffect
<1>4. ReviewInv' /\ Heads' /\ RebuildMatchesLive'
  BY <1>1, <1>3, CreateGateReview, HeadsKept, CreateGateReplay
<1>5. InState(d, OpenStates)
  BY <1>3 DEF BeforeReview, OpenStates
<1>6. FrozenStep
  BY <1>1, <1>2, <1>3, <1>5, FrozenGateAdded
<1> QED
  BY <1>3, <1>4, <1>6 DEF Good, Inv

LEMMA VerdictGood ==
  ASSUME Inv, NEW a \in Actors, NEW g \in DOMAIN live.gates,
         NEW ids \in SUBSET DOMAIN live.evidence,
         NEW outcome \in {"pass", "fail"},
         \E blocking \in BOOLEAN : RecordVerdict(a, g, outcome, ids, blocking)
  PROVE  Good
<1>1. /\ Typed /\ ReviewInv /\ Heads /\ RebuildMatchesLive /\ Referring
  BY DEF Inv, ReviewInv
<1>2. VerdictWritten(g, outcome, ids)
  BY <1>1, VerdictEffect
<1>3. PICK gate \in GateRow :
        /\ gate = Judged(g, outcome)
        /\ live'.gates = [live.gates EXCEPT ![g] = gate]
  BY <1>2 DEF VerdictWritten
<1>4. /\ Typed' /\ UNCHANGED ForecastTables
      /\ live'.deliverables = live.deliverables
  BY <1>2 DEF VerdictWritten
<1>5. ReviewInv' /\ Heads' /\ RebuildMatchesLive'
  BY <1>1, <1>4, VerdictReview, HeadsKept, VerdictReplay
<1>6. /\ gate.deliverable = live.gates[g].deliverable
      /\ gate.hard = live.gates[g].hard
      /\ gate.independent = live.gates[g].independent
      /\ gate.claims = live.gates[g].claims
  <2>1. live.gates[g] \in GateRow
    BY <1>1, Rows
  <2> QED
    BY <1>3, <2>1 DEF Judged, GateRow
<1>7. FrozenStep
  BY <1>1, <1>3, <1>4, <1>6, FrozenGateChanged
<1> QED
  BY <1>4, <1>5, <1>7 DEF Good, Inv

LEMMA WaiveGateGood ==
  ASSUME Inv, NEW a \in Actors, NEW g \in DOMAIN live.gates,
         NEW ids \in SUBSET DOMAIN live.evidence, WaiveGate(a, g, ids)
  PROVE  Good
<1>1. /\ Typed /\ ReviewInv /\ Heads /\ RebuildMatchesLive /\ Referring
  BY DEF Inv, ReviewInv
<1>2. PICK item \in GateRow :
        /\ item = [live.gates[g] EXCEPT !.state = "waived", !.version = @ + 1,
                     !.waiver = Len(live.decisions) + 1]
        /\ live'.gates = [live.gates EXCEPT ![g] = item]
  BY <1>1, WaiveGateEffect
<1>3. /\ Typed' /\ UNCHANGED ForecastTables
      /\ live'.deliverables = live.deliverables
  BY <1>1, WaiveGateEffect
<1>4. ReviewInv' /\ Heads' /\ RebuildMatchesLive'
  BY <1>1, <1>3, WaiveGateReview, HeadsKept, WaiveGateReplay
<1>5. /\ item.deliverable = live.gates[g].deliverable
      /\ item.hard = live.gates[g].hard
      /\ item.independent = live.gates[g].independent
      /\ item.claims = live.gates[g].claims
  <2>1. live.gates[g] \in GateRow
    BY <1>1, Rows
  <2> QED
    BY <1>2, <2>1 DEF GateRow
<1>6. FrozenStep
  BY <1>1, <1>2, <1>3, <1>5, FrozenGateChanged
<1> QED
  BY <1>3, <1>4, <1>6 DEF Good, Inv

LEMMA DisposeGood ==
  ASSUME Inv, NEW f \in DOMAIN live.findings,
         NEW action \in {"resolve", "withdraw"},
         NEW ids \in SUBSET DOMAIN live.evidence, DisposeFinding(f, action, ids)
  PROVE  Good
<1>1. /\ Typed /\ ReviewInv /\ Heads /\ RebuildMatchesLive /\ Referring
  BY DEF Inv, ReviewInv
<1>2. /\ Typed' /\ UNCHANGED ForecastTables
      /\ live'.deliverables = live.deliverables /\ live'.gates = live.gates
  BY <1>1, DisposeEffect
<1>3. ReviewInv' /\ Heads' /\ RebuildMatchesLive'
  BY <1>1, <1>2, DisposeReview, HeadsKept, DisposeReplay
<1> QED
  BY <1>2, <1>3, FrozenKept DEF Good, Inv

LEMMA SubmitGood ==
  ASSUME Inv, NEW a \in Actors, NEW d \in DOMAIN live.deliverables,
         NEW kind \in {"submit", "resubmit"},
         NEW ids \in SUBSET DOMAIN live.evidence, Submit(a, d, kind, ids)
  PROVE  Good
<1>1. /\ Typed /\ ReviewInv /\ Heads /\ RebuildMatchesLive /\ Referring
  BY DEF Inv, ReviewInv
<1>written. SubmissionWritten(d)
  BY <1>1, SubmitEffect
<1>2. PICK item \in DeliverableRow :
        /\ item.required = live.deliverables[d].required
        /\ live'.deliverables = [live.deliverables EXCEPT ![d] = item]
  BY <1>written DEF SubmissionWritten
<1>3. /\ Typed' /\ UNCHANGED ForecastTables /\ live'.gates = live.gates
      /\ InState(d, {"ready", "bounced"})
  BY <1>written DEF SubmissionWritten
<1>4. ReviewInv' /\ Heads' /\ RebuildMatchesLive'
  BY <1>1, <1>3, SubmitReview, HeadsKept, SubmitReplay
<1>5. ~InState(d, {"accepted", "waived", "cancelled"})
  BY <1>3 DEF InState
<1>6. FrozenStep
  BY <1>1, <1>2, <1>3, <1>5, FrozenChanged
<1> QED
  BY <1>3, <1>4, <1>6 DEF Good, Inv

LEMMA WaiveDeliverableGood ==
  ASSUME Inv, NEW a \in Actors, NEW d \in DOMAIN live.deliverables,
         NEW ids \in SUBSET DOMAIN live.evidence, WaiveDeliverable(a, d, ids)
  PROVE  Good
<1>1. /\ Typed /\ ReviewInv /\ Heads /\ RebuildMatchesLive /\ Referring
  BY DEF Inv, ReviewInv
<1>2. PICK item \in DeliverableRow :
        /\ item.required = live.deliverables[d].required
        /\ live'.deliverables = [live.deliverables EXCEPT ![d] = item]
  BY <1>1, WaiveDeliverableEffect
<1>3. /\ Typed' /\ UNCHANGED ForecastTables /\ live'.gates = live.gates
      /\ InState(d, {"ready", "submitted", "bounced"})
  BY <1>1, WaiveDeliverableEffect
<1>4. ReviewInv' /\ Heads' /\ RebuildMatchesLive'
  BY <1>1, <1>3, WaiveDeliverableReview, HeadsKept, WaiveDeliverableReplay
<1>5. ~InState(d, {"accepted", "waived", "cancelled"})
  BY <1>3 DEF InState
<1>6. FrozenStep
  BY <1>1, <1>2, <1>3, <1>5, FrozenChanged
<1> QED
  BY <1>3, <1>4, <1>6 DEF Good, Inv

LEMMA PlanningGood ==
  ASSUME Inv, PlanningNext PROVE Good
<1>1. CASE \/ \E a \in Actors : RecordDecision(a)
           \/ \E command \in {"activated", "held", "resumed"} :
                Lifecycle(command)
           \/ \E kind \in DateKinds : SetDate(kind)
  BY <1>1, QuietGood
<1>2. ASSUME NEW a \in Actors, NEW state \in OpenStates,
             PromoteProject(a, state)
      PROVE  Good
  BY <1>2, AddDeliverableGood
<1>3. ASSUME NEW a \in Actors, NEW required \in BOOLEAN,
             NEW state \in OpenStates, CreateDeliverable(a, required, state)
      PROVE  Good
  BY <1>3, AddDeliverableGood
<1>4. ASSUME NEW d \in DOMAIN live.deliverables,
             \/ \E required \in BOOLEAN, state \in OpenStates :
                  ReviseDeliverable(d, required, state)
             \/ CancelDeliverable(d)
      PROVE  Good
  BY <1>4, ChangeDeliverableGood
<1>5. ASSUME NEW scope \in {0} \cup DOMAIN live.deliverables, Reforecast(scope)
      PROVE  Good
  BY <1>5, ReforecastGood
<1> QED
  BY <1>1, <1>2, <1>3, <1>4, <1>5 DEF PlanningNext

LEMMA ReviewGood ==
  ASSUME Inv, ReviewNext PROVE Good
<1>1. ASSUME NEW a \in Actors, NEW claim \in Claims, NEW cited \in Targets,
             NEW old \in {0} \cup DOMAIN live.evidence,
             CreateEvidence(a, claim, {cited}, old)
      PROVE  Good
  BY <1>1, CreateEvidenceGood
<1>2. ASSUME NEW d \in DOMAIN live.deliverables, NEW contract \in Contracts,
             CreateGate(d, contract)
      PROVE  Good
  BY <1>2, CreateGateGood
<1>3. ASSUME NEW ids \in SUBSET DOMAIN live.evidence, NEW a \in Actors,
             NEW g \in DOMAIN live.gates, NEW blocking \in BOOLEAN,
             RecordVerdict(a, g, "fail", ids, blocking)
      PROVE  Good
  BY <1>3, VerdictGood
<1>4. ASSUME NEW ids \in SUBSET DOMAIN live.evidence, NEW a \in Actors,
             NEW g \in DOMAIN live.gates,
             RecordVerdict(a, g, "pass", ids, FALSE)
      PROVE  Good
  BY <1>4, VerdictGood
<1>5. ASSUME NEW ids \in SUBSET DOMAIN live.evidence, NEW a \in Actors,
             NEW g \in DOMAIN live.gates, WaiveGate(a, g, ids)
      PROVE  Good
  BY <1>5, WaiveGateGood
<1>6. ASSUME NEW ids \in SUBSET DOMAIN live.evidence,
             NEW f \in DOMAIN live.findings,
             NEW action \in {"resolve", "withdraw"},
             DisposeFinding(f, action, ids)
      PROVE  Good
  BY <1>6, DisposeGood
<1>7. ASSUME NEW ids \in SUBSET DOMAIN live.evidence, NEW a \in Actors,
             NEW d \in DOMAIN live.deliverables,
             NEW kind \in {"submit", "resubmit"}, Submit(a, d, kind, ids)
      PROVE  Good
  BY <1>7, SubmitGood
<1>8. ASSUME NEW ids \in SUBSET DOMAIN live.evidence, NEW a \in Actors,
             NEW d \in DOMAIN live.deliverables, WaiveDeliverable(a, d, ids)
      PROVE  Good
  BY <1>8, WaiveDeliverableGood
<1>9. ASSUME NEW d \in DOMAIN live.deliverables,
             \/ \E f \in DOMAIN live.findings : BounceDeliverable(d, f)
             \/ ApproveDeliverable(d)
      PROVE  Good
  BY <1>9, ChangeDeliverableGood
<1> QED
  BY <1>1, <1>2, <1>3, <1>4, <1>5, <1>6, <1>7, <1>8, <1>9 DEF ReviewNext

LEMMA StutterInv ==
  ASSUME Inv, UNCHANGED vars PROVE Inv'
<1>1. live' = live /\ rebuilt' = rebuilt /\ budget' = budget
  BY DEF vars
<1>2. Typed' /\ Heads' /\ RebuildMatchesLive'
  BY <1>1 DEF Inv, Typed, Heads, RebuildMatchesLive
<1>3. ReviewInv'
  BY <1>1, ReviewKept DEF Inv, ReviewTables
<1> QED
  BY <1>2, <1>3 DEF Inv

LEMMA PlanningChains ==
  ASSUME Inv, Chains, PlanningNext PROVE Chains'
<1>1. Typed /\ Heads /\ Referring /\ ForecastChain /\ DateHeads /\ DateChain
  BY DEF Inv, ReviewInv, Chains
<1>2. CASE \/ \E a \in Actors : RecordDecision(a)
           \/ \E command \in {"activated", "held", "resumed"} :
                Lifecycle(command)
  <2>1. UNCHANGED ReviewTables /\ UNCHANGED ForecastTables
    BY <1>1, <1>2, QuietEffect
  <2>2. UNCHANGED DateTables
    BY <1>1, <1>2, PlanningKeepsDates
  <2> QED
    BY <2>1, <2>2, ChainsKept DEF ReviewTables
<1>3. ASSUME NEW kind \in DateKinds, SetDate(kind) PROVE Chains'
  <2>1. UNCHANGED ReviewTables /\ UNCHANGED ForecastTables
    BY <1>1, <1>3, QuietEffect
  <2>2. ForecastChain' /\ EvidenceChain'
    BY <2>1 DEF ReviewTables, ForecastTables, ForecastChain, EvidenceChain,
                Chains
  <2>3. DateHeads' /\ DateChain'
    BY <1>1, <1>3, DateChainKept
  <2> QED
    BY <2>2, <2>3 DEF Chains
<1>4. ASSUME NEW a \in Actors, NEW state \in OpenStates,
             NEW required \in BOOLEAN,
             \/ required /\ PromoteProject(a, state)
             \/ CreateDeliverable(a, required, state)
      PROVE  Chains'
  <2>1. live'.evidence = live.evidence /\ UNCHANGED ForecastTables
    BY <1>1, <1>4, AddDeliverableEffect
  <2>2. UNCHANGED DateTables
    BY <1>1, <1>4, PlanningKeepsDates
  <2> QED
    BY <2>1, <2>2, ChainsKept
<1>5. ASSUME NEW d \in DOMAIN live.deliverables,
             \/ \E required \in BOOLEAN, state \in OpenStates :
                  ReviseDeliverable(d, required, state)
             \/ CancelDeliverable(d)
      PROVE  Chains'
  <2>1. live'.evidence = live.evidence /\ UNCHANGED ForecastTables
    BY <1>1, <1>5, ChangeDeliverableEffect
  <2>2. UNCHANGED DateTables
    BY <1>1, <1>5, PlanningKeepsDates
  <2> QED
    BY <2>1, <2>2, ChainsKept
<1>6. ASSUME NEW scope \in {0} \cup DOMAIN live.deliverables, Reforecast(scope)
      PROVE  Chains'
  <2>1. scope \in Scopes
    BY <1>1, ScopesHold
  <2>2. ForecastChain'
    BY <1>1, <1>6, <2>1, ForecastChainKept
  <2>3. UNCHANGED ReviewTables /\ UNCHANGED DateTables
    BY <1>1, <1>6, <2>1, ReforecastEffect, PlanningKeepsDates
  <2>4. DateHeads' /\ DateChain' /\ EvidenceChain'
    BY <2>3 DEF ReviewTables, DateTables, DateHeads, DateChain, EvidenceChain,
                Chains
  <2> QED
    BY <2>2, <2>4 DEF Chains
<1>7. CASE \E a \in Actors, state \in OpenStates : PromoteProject(a, state)
  BY <1>4, <1>7
<1> QED
  BY <1>2, <1>3, <1>4, <1>5, <1>6, <1>7 DEF PlanningNext

LEMMA ReviewChains ==
  ASSUME Inv, Chains, ReviewNext PROVE Chains'
<1>1. Typed /\ Referring /\ EvidenceChain
  BY DEF Inv, ReviewInv, Chains
<1>2. UNCHANGED DateTables
  BY <1>1, ReviewKeepsDates
<1>3. ASSUME NEW a \in Actors, NEW claim \in Claims, NEW cited \in Targets,
             NEW old \in {0} \cup DOMAIN live.evidence,
             CreateEvidence(a, claim, {cited}, old)
      PROVE  Chains'
  <2>1. {cited} \in SUBSET TargetRow
    BY <1>1, TargetsTyped
  <2>2. EvidenceChain' /\ UNCHANGED ForecastTables
    BY <1>1, <1>3, <2>1, EvidenceChainKept, CreateEvidenceEffect
  <2>3. ForecastChain' /\ DateHeads' /\ DateChain'
    BY <1>2, <2>2 DEF ForecastTables, DateTables, ForecastChain, DateHeads,
                      DateChain, Chains
  <2> QED
    BY <2>2, <2>3 DEF Chains
<1> DEFINE Kept == live'.evidence = live.evidence /\ UNCHANGED ForecastTables
<1>4. ASSUME Kept PROVE Chains'
  BY <1>2, <1>4, ChainsKept
<1>5. ASSUME NEW d \in DOMAIN live.deliverables, NEW contract \in Contracts,
             CreateGate(d, contract)
      PROVE  Kept
  BY <1>1, <1>5, CreateGateEffect
<1>6. ASSUME NEW ids \in SUBSET DOMAIN live.evidence, NEW a \in Actors,
             NEW g \in DOMAIN live.gates, NEW outcome \in {"pass", "fail"},
             \E blocking \in BOOLEAN :
               RecordVerdict(a, g, outcome, ids, blocking)
      PROVE  Kept
  BY <1>1, <1>6, VerdictEffect DEF VerdictWritten
<1>7. ASSUME NEW ids \in SUBSET DOMAIN live.evidence, NEW a \in Actors,
             NEW g \in DOMAIN live.gates, WaiveGate(a, g, ids)
      PROVE  Kept
  BY <1>1, <1>7, WaiveGateEffect
<1>8. ASSUME NEW ids \in SUBSET DOMAIN live.evidence,
             NEW f \in DOMAIN live.findings,
             NEW action \in {"resolve", "withdraw"},
             DisposeFinding(f, action, ids)
      PROVE  Kept
  BY <1>1, <1>8, DisposeEffect
<1>9. ASSUME NEW ids \in SUBSET DOMAIN live.evidence, NEW a \in Actors,
             NEW d \in DOMAIN live.deliverables,
             NEW kind \in {"submit", "resubmit"}, Submit(a, d, kind, ids)
      PROVE  Kept
  BY <1>1, <1>9, SubmitEffect DEF SubmissionWritten
<1>10. ASSUME NEW ids \in SUBSET DOMAIN live.evidence, NEW a \in Actors,
              NEW d \in DOMAIN live.deliverables, WaiveDeliverable(a, d, ids)
       PROVE  Kept
  BY <1>1, <1>10, WaiveDeliverableEffect
<1>11. ASSUME NEW d \in DOMAIN live.deliverables,
              \/ \E f \in DOMAIN live.findings : BounceDeliverable(d, f)
              \/ ApproveDeliverable(d)
       PROVE  Kept
  BY <1>1, <1>11, ChangeDeliverableEffect
<1> HIDE DEF Kept
<1>12. ASSUME NEW ids \in SUBSET DOMAIN live.evidence, NEW a \in Actors,
              NEW g \in DOMAIN live.gates,
              \/ \E blocking \in BOOLEAN :
                   RecordVerdict(a, g, "fail", ids, blocking)
              \/ RecordVerdict(a, g, "pass", ids, FALSE)
       PROVE  Kept
  BY <1>6, <1>12
<1> QED
  BY <1>3, <1>4, <1>5, <1>7, <1>8, <1>9, <1>10, <1>11, <1>12 DEF ReviewNext

LEMMA InitChains ==
  ASSUME Init PROVE Chains
<1>1. /\ live.forecasts = <<>> /\ live.dates = <<>> /\ live.evidence = <<>>
      /\ \A k \in DateKinds : live.dateHead[k] = 0
  BY DEF Init, NewProject
<1>2. Len(live.dates) = 0 /\ Len(live.forecasts) = 0
  BY <1>1
<1>3. DateHeads
  BY <1>1, <1>2 DEF DateHeads
<1>4. ForecastChain
  BY <1>2 DEF ForecastChain, Chained
<1>5. DateChain
  BY <1>2 DEF DateChain, Chained
<1>6. EvidenceChain
  BY <1>1 DEF EvidenceChain
<1> QED
  BY <1>3, <1>4, <1>5, <1>6 DEF Chains

(***************************************************************************)
(* The inductive invariant.  What the runs check is not inductive alone:   *)
(* that an acceptance stays reviewed needs that gates stay passed, each by *)
(* its last verdict; that a replay accepts the next event needs that rows  *)
(* refer to rows that exist (Referring) and that the head of a scope is a  *)
(* forecast of that scope (Heads).  Chains, which follows the entries of a *)
(* chain by number, is a second layer.                                     *)
(***************************************************************************)

\* Every command keeps the inductive invariant.
THEOREM Invariant == Spec => []Inv
<1>1. Init => Inv
  BY InitInv
<1>2. Inv /\ [Next]_vars => Inv'
  BY PlanningGood, ReviewGood, StutterInv DEF Next, Good
<1> QED
  BY <1>1, <1>2, PTL DEF Spec

\* Every row that a command of planning.go or review.go writes has its type,
\* and no command leaves a forecast announced that it did not create.
THEOREM TypeCorrect == Spec => []Typed
<1>1. Inv => Typed
  BY DEF Inv
<1> QED
  BY <1>1, Invariant, PTL

\* Replay (durable.go:693): after any sequence of commands, of any length, on
\* any number of rows, replaying their events rebuilds exactly the tables the
\* commands wrote; no event of a command is ever refused.
THEOREM ReplayMatchesLive == Spec => []RebuildMatchesLive
<1>1. Inv => RebuildMatchesLive
  BY DEF Inv
<1> QED
  BY <1>1, Invariant, PTL

\* ApproveDeliverable (review.go): what was accepted stays reviewed, whatever
\* is recorded after its approval.
THEOREM AcceptedStaysReviewed == Spec => []AcceptedIsReviewed
<1>1. Inv => AcceptedIsReviewed
  <2> SUFFICES ASSUME Inv, NEW d \in DOMAIN live.deliverables,
                      InState(d, {"accepted"})
               PROVE  /\ live.submissionHead[d] # 0
                      /\ GatesOf(live, d) # {} /\ OpenFindings(live, d) = {}
                      /\ \A g \in GatesOf(live, d) :
                           LET last == LastVerdict(live, g)
                           IN  live.gates[g].hard =>
                                 /\ last # 0
                                 /\ live.verdicts[last].result = "pass"
                                 /\ EvidenceMeetsGate(live,
                                      live.verdicts[last].evidence, g)
    BY DEF AcceptedIsReviewed
  <2>1. ReviewInv
    BY DEF Inv
  <2>2. live.submissionHead[d] # 0
    BY <2>1 DEF ReviewInv, Submitted, InState
  <2>3. GatesOf(live, d) # {}
    BY <2>1 DEF ReviewInv, GatesStayPassed, GatesOf
  <2>4. OpenFindings(live, d) = {}
    BY <2>1 DEF ReviewInv, FindingsHoldUp, OpenFindings, InState
  <2>5. \A g \in GatesOf(live, d) :
          live.gates[g].hard => live.gates[g].state = "passed"
    BY <2>1 DEF ReviewInv, GatesStayPassed, GatesOf
  <2> QED
    BY <2>1, <2>2, <2>3, <2>4, <2>5 DEF ReviewInv, PassedByVerdict, GatesOf
<1> QED
  BY <1>1, Invariant, PTL

\* An open finding keeps its deliverable in review: approval (review.go) asks
\* for no open finding, waiverPreconditions for no blocking one.
THEOREM FindingsAlwaysHoldUp == Spec => []FindingsHoldUp
<1>1. Inv => FindingsHoldUp
  BY DEF Inv, ReviewInv
<1> QED
  BY <1>1, Invariant, PTL

\* docs/evidence-review-m2d.md: no command changes what a deliverable in review
\* is judged by, nor a terminal deliverable.
THEOREM ReviewFreezes == Spec => FrozenInReview
<1>1. Inv /\ [Next]_vars =>
        [\A d \in DOMAIN live.deliverables :
           /\ ~InState(d, OpenStates) =>
                /\ GatesOf(live', d) = GatesOf(live, d)
                /\ \A g \in GatesOf(live, d) : Contract(live', g) =
                                                Contract(live, g)
                /\ live'.deliverables[d].required = Deliverable(d).required
           /\ InState(d, {"accepted", "waived", "cancelled"}) =>
                live'.deliverables[d] = Deliverable(d)]_vars
  BY PlanningGood, ReviewGood DEF Next, Good, FrozenStep
<1> QED
  BY <1>1, Invariant, PTL DEF Spec, FrozenInReview

\* A correction of evidence, a forecast or a date replaces the current row of
\* its own chain only (evidence_no_fork, forecastHead, dateHead of durable.go):
\* no row is replaced twice, and every row that is not current is replaced.
THEOREM CorrectionsAlwaysChain == Spec => []CorrectionsAreChains
<1>1. Init => Inv /\ Chains
  BY InitInv, InitChains
<1>2. Inv /\ Chains /\ [Next]_vars => (Inv /\ Chains)'
  <2>1. ASSUME Chains, UNCHANGED vars PROVE Chains'
    <3>1. live' = live
      BY <2>1 DEF vars
    <3> QED
      BY <2>1, <3>1, ChainsKept DEF ForecastTables, DateTables
  <2> QED
    BY <2>1, PlanningGood, ReviewGood, StutterInv, PlanningChains,
       ReviewChains DEF Next, Good
<1>3. Inv /\ Chains => CorrectionsAreChains
  BY ChainsAreCorrections DEF Inv
<1> QED
  BY <1>1, <1>2, <1>3, PTL DEF Spec

(***************************************************************************)
(* The inductive invariant of CommandTx.  A snapshot may be stale, so      *)
(* nothing follows from what it shows alone: what holds is that a call     *)
(* which has passed the row lock sees the current version (RowsCurrent,    *)
(* because the lock is exclusive), and one which has stored its result is  *)
(* the first to do so for its identity (StoredFirst, because the identity  *)
(* lock is exclusive).                                                     *)
(***************************************************************************)
PendingFinite == \A k \in Calls : IsFiniteSet(pending[k])

\* The advisory lock is exclusive.
KeyExclusive ==
  \A k, j \in Calls :
    /\ pc[k] \in {"keyed", "writing", "stored"}
    /\ pc[j] \in {"keyed", "writing", "stored"}
    /\ Identity(request[k]) = Identity(request[j])
    => k = j

\* The row lock is exclusive.
RowExclusive ==
  \A k, j \in Calls :
    /\ pc[k] \in {"writing", "stored"}
    /\ pc[j] \in {"writing", "stored"}
    /\ target[k] = target[j]
    => k = j

\* A call that holds a row sees its current version, the expected one.
RowsCurrent ==
  \A k \in Calls : pc[k] \in {"writing", "stored"} =>
    /\ target[k] \in Projects
    /\ snapshot[k].version[target[k]] = version[target[k]]
    /\ Creates(request[k]) => version[target[k]] = 0
    /\ ~Creates(request[k]) => /\ target[k] = request[k].project
                               /\ version[target[k]] = request[k].expected
                               /\ version[target[k]] > 0

\* A project that does not exist is shown to no one.
SnapshotsPast ==
  \A k \in Calls : \A p \in Projects : snapshot[k].version[p] <= version[p]

\* A call that has stored its result is the first of its identity.
StoredFirst ==
  \A k \in Calls : pc[k] = "stored" => result[Identity(request[k])] = NoResult

\* idempotency_results and the effects correspond, one to one.
ResultsApplied ==
  /\ \A a \in applied : result[Identity(a.request)] = a
  /\ \A i \in Identities : result[i] # NoResult =>
       result[i] \in applied /\ Identity(result[i].request) = i

\* A result a snapshot shows is still there: the table is append-only.
SnapshotResults ==
  \A k \in Calls, i \in Identities :
    snapshot[k].result[i] # NoResult => result[i] = snapshot[k].result[i]

\* A success names a committed effect of the request it answers.
Answered ==
  \A k \in Calls : pc[k] = "idle" /\ reply[k].status = "success" =>
    reply[k].result \in applied /\ reply[k].result.request = request[k]

CommandInv ==
  /\ CommandTypeOK
  /\ PendingFinite
  /\ KeyExclusive
  /\ RowExclusive
  /\ RowsCurrent
  /\ SnapshotsPast
  /\ StoredFirst
  /\ ResultsApplied
  /\ SnapshotResults
  /\ Answered

-----------------------------------------------------------------------------
LEMMA CommandInitInv == CommandInit => CommandInv
<1> SUFFICES ASSUME CommandInit PROVE CommandInv
  OBVIOUS
<1>1. request \in [Calls -> Requests]
  BY CommandConstants DEF CommandInit
<1>2. CommandTypeOK
  BY <1>1, CommandConstants
  DEF CommandInit, CommandTypeOK, EmptyDatabase, Statuses, Effects
<1>3. PendingFinite
  BY FS_EmptySet DEF CommandInit, PendingFinite
<1> QED
  BY <1>2, <1>3
  DEF CommandInit, CommandInv, KeyExclusive, RowExclusive, RowsCurrent,
       SnapshotsPast,
      StoredFirst, ResultsApplied, SnapshotResults, Answered, EmptyDatabase

-----------------------------------------------------------------------------
(* A call that only answers, and answers success only with the committed   *)
(* effect of its request, preserves the invariant.                         *)
LEMMA AnswerStep ==
  ASSUME CommandInv, NEW k \in Calls, NEW status \in Statuses,
         NEW res \in Effects \cup {NoResult},
         Answer(k, status, res), UNCHANGED dbVars,
         status = "success" => res \in applied /\ res.request = request[k]
  PROVE  CommandInv'
<1> USE DEF Answer, dbVars
<1>1. CommandTypeOK'
  <2>1. EmptyDatabase \in [version : [Projects -> Nat],
                           result : [Identities -> Effects \cup {NoResult}]]
    BY DEF EmptyDatabase
  <2>2. snapshot' \in [Calls -> [version : [Projects -> Nat],
                       result : [Identities -> Effects \cup {NoResult}]]]
    BY <2>1 DEF CommandInv, CommandTypeOK
  <2>3. reply' \in [Calls -> [status : Statuses,
                              result : Effects \cup {NoResult}]]
    BY DEF CommandInv, CommandTypeOK
  <2>4. /\ pc' \in [Calls -> {"idle", "waiting", "keyed", "writing", "stored"}]
        /\ target' \in [Calls -> Projects \cup {NoProject}]
        /\ pending' \in [Calls -> SUBSET [project : Projects, version : Nat,
                                          sequence : Nat]]
    BY DEF CommandInv, CommandTypeOK
  <2> QED
    BY <2>2, <2>3, <2>4 DEF CommandInv, CommandTypeOK
<1>2. PendingFinite'
  BY FS_EmptySet DEF CommandInv, CommandTypeOK, PendingFinite
<1>3. KeyExclusive' /\ RowExclusive'
  BY DEF CommandInv, CommandTypeOK, KeyExclusive, RowExclusive
<1>4. RowsCurrent'
  BY DEF CommandInv, CommandTypeOK, RowsCurrent
<1>5. SnapshotsPast' /\ SnapshotResults'
  BY DEF CommandInv, CommandTypeOK, SnapshotsPast, SnapshotResults,
       EmptyDatabase
<1>6. StoredFirst' /\ ResultsApplied'
  BY DEF CommandInv, CommandTypeOK, StoredFirst, ResultsApplied
<1>7. Answered'
  BY DEF CommandInv, CommandTypeOK, Answered
<1> QED
  BY <1>1, <1>2, <1>3, <1>4, <1>5, <1>6, <1>7 DEF CommandInv

(* What a snapshot shows has its type.                                     *)
LEMMA SeenType ==
  ASSUME CommandTypeOK, NEW k \in Calls
  PROVE  /\ Identity(request[k]) \in Identities
         /\ SeenResult(k) \in Effects \cup {NoResult}
         /\ snapshot[k].version \in [Projects -> Nat]
<1>1. Identity(request[k]) \in Identities
  BY DEF CommandTypeOK, Identities
<1>2. snapshot[k] \in [version : [Projects -> Nat],
                       result : [Identities -> Effects \cup {NoResult}]]
  BY DEF CommandTypeOK
<1> QED
  BY <1>1, <1>2 DEF SeenResult

-----------------------------------------------------------------------------
(* Every step preserves the invariant, one lemma per step that is not a    *)
(* mere answer.                                                            *)
LEMMA ReceiveStep ==
  ASSUME CommandInv, NEW k \in Calls, NEW r \in Requests, Receive(k, r)
  PROVE  CommandInv'
<1> USE DEF Receive, dbVars
<1>1. CommandTypeOK'
  BY CommandConstants DEF CommandInv, CommandTypeOK
<1>2. PendingFinite' /\ KeyExclusive' /\ RowExclusive' /\ RowsCurrent'
  BY DEF CommandInv, CommandTypeOK, PendingFinite, KeyExclusive, RowExclusive,
       RowsCurrent
<1>3. SnapshotsPast' /\ SnapshotResults'
  BY DEF CommandInv, CommandTypeOK, SnapshotsPast, SnapshotResults
<1>4. StoredFirst' /\ ResultsApplied' /\ Answered'
  BY DEF CommandInv, CommandTypeOK, StoredFirst, ResultsApplied, Answered
<1> QED
  BY <1>1, <1>2, <1>3, <1>4 DEF CommandInv

LEMMA TakeKeyLockStep ==
  ASSUME CommandInv, NEW k \in Calls, TakeKeyLock(k)
  PROVE  CommandInv'
<1> USE DEF TakeKeyLock, dbVars
<1>1. CommandTypeOK' /\ PendingFinite' /\ SnapshotsPast' /\ SnapshotResults'
  BY DEF CommandInv, CommandTypeOK, PendingFinite, SnapshotsPast,
       SnapshotResults
<1>2. KeyExclusive'
  BY DEF CommandInv, CommandTypeOK, KeyExclusive, KeyLocked
<1>3. RowExclusive' /\ RowsCurrent'
  BY DEF CommandInv, CommandTypeOK, RowExclusive, RowsCurrent
<1>4. StoredFirst' /\ ResultsApplied' /\ Answered'
  BY DEF CommandInv, CommandTypeOK, StoredFirst, ResultsApplied, Answered
<1> QED
  BY <1>1, <1>2, <1>3, <1>4 DEF CommandInv

LEMMA LockRowStep ==
  ASSUME CommandInv, NEW k \in Calls, LockRow(k)
  PROVE  CommandInv'
<1> USE DEF LockRow, RowAvailable, Executes, dbVars
<1>1. request[k].project \in Projects
  BY CommandConstants DEF CommandInv, CommandTypeOK, Creates
<1>2. CommandTypeOK' /\ PendingFinite' /\ SnapshotsPast' /\ SnapshotResults'
  BY <1>1 DEF CommandInv, CommandTypeOK, PendingFinite, SnapshotsPast,
       SnapshotResults
<1>3. KeyExclusive'
  BY DEF CommandInv, CommandTypeOK, KeyExclusive
<1>4. RowExclusive'
  BY DEF CommandInv, CommandTypeOK, RowExclusive, RowLocked
<1>5. RowsCurrent'
  BY <1>1 DEF CommandInv, CommandTypeOK, RowsCurrent, ChangedSinceSnapshot
<1>6. StoredFirst' /\ ResultsApplied' /\ Answered'
  BY DEF CommandInv, CommandTypeOK, StoredFirst, ResultsApplied, Answered
<1> QED
  BY <1>2, <1>3, <1>4, <1>5, <1>6 DEF CommandInv

LEMMA InsertProjectStep ==
  ASSUME CommandInv, NEW k \in Calls, NEW p \in Projects, InsertProject(k, p)
  PROVE  CommandInv'
<1> USE DEF InsertProject, dbVars
<1>1. CommandTypeOK' /\ PendingFinite' /\ SnapshotsPast' /\ SnapshotResults'
  BY DEF CommandInv, CommandTypeOK, PendingFinite, SnapshotsPast,
       SnapshotResults
<1>2. KeyExclusive'
  BY DEF CommandInv, CommandTypeOK, KeyExclusive
<1>3. RowExclusive'
  BY DEF CommandInv, CommandTypeOK, RowExclusive, RowLocked
<1>4. snapshot[k].version[p] = version[p]
  BY SeenType DEF CommandInv, CommandTypeOK, SnapshotsPast
<1>5. RowsCurrent'
  BY <1>4 DEF CommandInv, CommandTypeOK, RowsCurrent
<1>6. StoredFirst' /\ ResultsApplied' /\ Answered'
  BY DEF CommandInv, CommandTypeOK, StoredFirst, ResultsApplied, Answered
<1> QED
  BY <1>1, <1>2, <1>3, <1>5, <1>6 DEF CommandInv

LEMMA InsertEventStep ==
  ASSUME CommandInv, NEW k \in Calls, InsertEvent(k)
  PROVE  CommandInv'
<1> USE DEF InsertEvent, dbVars
<1>1. Cardinality(pending[k]) \in Nat
  BY FS_CardinalityType DEF CommandInv, PendingFinite
<1>2. /\ target[k] \in Projects
      /\ snapshot[k].version[target[k]] \in Nat
  BY SeenType DEF CommandInv, CommandTypeOK, RowsCurrent
<1> DEFINE event == [project  |-> target[k],
                     version  |-> snapshot[k].version[target[k]]
                                    + Cardinality(pending[k]) + 1,
                     sequence |-> nextSequence]
<1>3. event \in [project : Projects, version : Nat, sequence : Nat]
  BY <1>1, <1>2 DEF CommandInv, CommandTypeOK
<1>4. pending' = [pending EXCEPT ![k] = @ \cup {event}]
  OBVIOUS
<1> HIDE DEF event
<1>5. CommandTypeOK'
  BY <1>3, <1>4 DEF CommandInv, CommandTypeOK
<1>6. PendingFinite'
  <2>1. IsFiniteSet(pending[k] \cup {event})
    BY FS_AddElement DEF CommandInv, PendingFinite
  <2> QED
    BY <1>4, <2>1 DEF CommandInv, CommandTypeOK, PendingFinite
<1>7. KeyExclusive' /\ RowExclusive' /\ RowsCurrent'
  BY DEF CommandInv, CommandTypeOK, KeyExclusive, RowExclusive, RowsCurrent
<1>8. SnapshotsPast' /\ SnapshotResults' /\ StoredFirst' /\ ResultsApplied'
      /\ Answered'
  BY DEF CommandInv, CommandTypeOK, SnapshotsPast, SnapshotResults,
       StoredFirst,
     ResultsApplied, Answered
<1> QED
  BY <1>5, <1>6, <1>7, <1>8 DEF CommandInv

LEMMA StoreResultStep ==
  ASSUME CommandInv, NEW k \in Calls, StoreResult(k)
  PROVE  CommandInv'
<1> USE DEF StoreResult, AllWritten, dbVars
<1>1. CommandTypeOK' /\ PendingFinite' /\ SnapshotsPast' /\ SnapshotResults'
  BY DEF CommandInv, CommandTypeOK, PendingFinite, SnapshotsPast,
       SnapshotResults
<1>2. KeyExclusive' /\ RowExclusive' /\ RowsCurrent'
  BY DEF CommandInv, CommandTypeOK, KeyExclusive, RowExclusive, RowsCurrent
<1>3. StoredFirst' /\ ResultsApplied' /\ Answered'
  BY DEF CommandInv, CommandTypeOK, StoredFirst, ResultsApplied, Answered
<1> QED
  BY <1>1, <1>2, <1>3 DEF CommandInv

LEMMA CommitStep ==
  ASSUME CommandInv, NEW k \in Calls, Commit(k)
  PROVE  CommandInv'
<1> DEFINE p == target[k]
           i == Identity(request[k])
           e == Effect(k)
<1>1. /\ p \in Projects
      /\ i \in Identities
      /\ snapshot[k].version[p] = version[p]
      /\ request[k].events \in Nat \ {0}
      /\ e \in Effects
      /\ e.request = request[k]
  BY SeenType, CommandConstants
  DEF CommandInv, CommandTypeOK, RowsCurrent, Commit, Effect, Effects
<1>2. /\ version' = [version EXCEPT ![p] = version[p] + request[k].events]
      /\ applied' = applied \cup {e}
      /\ history' = history \cup pending[k]
      /\ result' = [result EXCEPT ![i] = e]
  BY <1>1 DEF Commit
<1>3. \/ Answer(k, "success", e)
      \/ Answer(k, "none", NoResult)
  BY DEF Commit
<1>4. pc[k] = "stored" /\ result[i] = NoResult
  BY DEF Commit, CommandInv, StoredFirst
<1>5. \A a \in applied : Identity(a.request) # i
  BY <1>4, NoResultIsNoEffect DEF CommandInv, CommandTypeOK, ResultsApplied
<1> HIDE DEF p, i, e
<1>6. CommandTypeOK'
  <2>1. /\ version' \in [Projects -> Nat]
        /\ applied' \subseteq Effects
        /\ history' \subseteq [project : Projects, version : Nat,
                               sequence : Nat]
        /\ result' \in [Identities -> Effects \cup {NoResult}]
    BY <1>1, <1>2 DEF CommandInv, CommandTypeOK
  <2>2. EmptyDatabase \in [version : [Projects -> Nat],
                           result : [Identities -> Effects \cup {NoResult}]]
    BY DEF EmptyDatabase
  <2>3. snapshot' \in [Calls -> [version : [Projects -> Nat],
                       result : [Identities -> Effects \cup {NoResult}]]]
    BY <1>3, <2>2 DEF Answer, CommandInv, CommandTypeOK
  <2>4. reply' \in [Calls -> [status : Statuses,
                              result : Effects \cup {NoResult}]]
    <3>1. \E status \in Statuses, res \in Effects \cup {NoResult} :
            reply' = [reply EXCEPT ![k] = [status |-> status, result |-> res]]
      BY <1>1, <1>3 DEF Answer, Statuses
    <3> QED
      BY <3>1 DEF CommandInv, CommandTypeOK
  <2>5. /\ pc' \in [Calls -> {"idle", "waiting", "keyed", "writing", "stored"}]
        /\ target' \in [Calls -> Projects \cup {NoProject}]
        /\ pending' \in [Calls -> SUBSET [project : Projects, version : Nat,
                                          sequence : Nat]]
    BY <1>3 DEF Answer, CommandInv, CommandTypeOK
  <2> QED
    BY <1>3, <2>1, <2>3, <2>4, <2>5 DEF Answer, CommandInv, CommandTypeOK
<1>7. PendingFinite'
  BY <1>3, FS_EmptySet DEF Answer, CommandInv, CommandTypeOK, PendingFinite
<1>8. KeyExclusive' /\ RowExclusive'
  BY <1>3 DEF Answer, CommandInv, CommandTypeOK, KeyExclusive, RowExclusive
<1>9. RowsCurrent'
  <2> SUFFICES ASSUME NEW j \in Calls, pc'[j] \in {"writing", "stored"}
               PROVE  /\ target[j] \in Projects
                      /\ snapshot[j].version[target[j]] = version'[target[j]]
                      /\ Creates(request[j]) => version'[target[j]] = 0
                      /\ ~Creates(request[j]) =>
                           /\ target[j] = request[j].project
                           /\ version'[target[j]] = request[j].expected
                           /\ version'[target[j]] > 0
                      /\ j # k
    BY <1>3 DEF Answer, CommandInv, CommandTypeOK, RowsCurrent
  <2>1. j # k /\ pc[j] = pc'[j]
    BY <1>3 DEF Answer, CommandInv, CommandTypeOK
  <2>2. target[j] # p
    BY <1>4, <2>1 DEF CommandInv, RowExclusive, p
  <2>3. target[j] \in Projects
    BY <2>1 DEF CommandInv, RowsCurrent
  <2>4. version'[target[j]] = version[target[j]]
    BY <1>2, <2>2, <2>3 DEF CommandInv, CommandTypeOK
  <2> QED
    BY <2>1, <2>4 DEF CommandInv, RowsCurrent
<1>10. SnapshotsPast'
  <2>1. \A q \in Projects : version[q] <= version'[q]
    BY <1>1, <1>2 DEF CommandInv, CommandTypeOK
  <2> SUFFICES ASSUME NEW j \in Calls, NEW q \in Projects
               PROVE  snapshot'[j].version[q] <= version'[q]
    BY DEF SnapshotsPast
  <2>2. snapshot'[j] = IF j = k THEN EmptyDatabase ELSE snapshot[j]
    BY <1>3 DEF Answer, CommandInv, CommandTypeOK
  <2>3. CASE j = k
    BY <1>6, <2>2, <2>3 DEF CommandTypeOK, EmptyDatabase
  <2>4. CASE j # k
    <3>1. snapshot[j].version[q] <= version[q]
      BY DEF CommandInv, SnapshotsPast
    <3>2. snapshot[j].version[q] \in Nat /\ version[q] \in Nat
          /\ version'[q] \in Nat
      BY <1>6, SeenType DEF CommandInv, CommandTypeOK
    <3> QED
      BY <2>1, <2>2, <2>4, <3>1, <3>2
  <2> QED
    BY <2>3, <2>4
<1>11. SnapshotResults'
  <2> SUFFICES ASSUME NEW j \in Calls, NEW m \in Identities,
                      snapshot'[j].result[m] # NoResult
               PROVE  result'[m] = snapshot'[j].result[m]
    BY DEF SnapshotResults
  <2>1. snapshot'[j] = IF j = k THEN EmptyDatabase ELSE snapshot[j]
    BY <1>3 DEF Answer, CommandInv, CommandTypeOK
  <2>2. j # k
    BY <2>1 DEF EmptyDatabase
  <2>3. result[m] = snapshot[j].result[m] /\ result[m] # NoResult
    BY <2>1, <2>2 DEF CommandInv, SnapshotResults
  <2> QED
    BY <1>2, <1>4, <2>1, <2>2, <2>3 DEF CommandInv, CommandTypeOK
<1>12. StoredFirst'
  BY <1>2, <1>3, <1>4 DEF Answer, CommandInv, CommandTypeOK, StoredFirst,
       KeyExclusive, i
<1>13. ResultsApplied'
  BY <1>1, <1>2, <1>4, <1>5 DEF CommandInv, CommandTypeOK, ResultsApplied, i
<1>14. Answered'
  <2> SUFFICES ASSUME NEW j \in Calls, pc'[j] = "idle",
                      reply'[j].status = "success"
               PROVE  reply'[j].result \in applied'
                      /\ reply'[j].result.request = request'[j]
    BY DEF Answered
  <2>1. CASE j = k
    BY <1>1, <1>2, <1>3, <2>1 DEF Answer, CommandInv, CommandTypeOK
  <2>2. CASE j # k
    <3>1. /\ pc'[j] = pc[j]
          /\ reply'[j] = reply[j]
          /\ request' = request
      BY <1>3, <2>2 DEF Answer, CommandInv, CommandTypeOK
    <3> QED
      BY <1>2, <3>1 DEF CommandInv, Answered
  <2> QED
    BY <2>1, <2>2
<1> QED
  BY <1>6, <1>7, <1>8, <1>9, <1>10, <1>11, <1>12, <1>13, <1>14 DEF CommandInv

LEMMA CommandInvStep == CommandInv /\ [CommandNext]_commandVars => CommandInv'
<1> SUFFICES ASSUME CommandInv, [CommandNext]_commandVars PROVE CommandInv'
  OBVIOUS
<1> USE DEF Statuses
<1>1. ASSUME NEW k \in Calls, NEW r \in Requests, Receive(k, r) PROVE CommandInv'
  BY <1>1, ReceiveStep
<1>2. ASSUME NEW k \in Calls, TakeKeyLock(k) PROVE CommandInv'
  BY <1>2, TakeKeyLockStep
<1>3. ASSUME NEW k \in Calls, Replay(k) PROVE CommandInv'
  <2>1. /\ SeenResult(k) \in applied
        /\ SeenResult(k).request = request[k]
    BY <1>3, SeenType
    DEF Replay, CommandInv, ResultsApplied, SnapshotResults, SeenResult
  <2> QED
    BY <1>3, <2>1, AnswerStep, SeenType DEF Replay, CommandInv
<1>4. ASSUME NEW k \in Calls, KeyConflict(k) PROVE CommandInv'
  BY <1>4, AnswerStep DEF KeyConflict
<1>5. ASSUME NEW k \in Calls, ProjectMissing(k) PROVE CommandInv'
  BY <1>5, AnswerStep DEF ProjectMissing
<1>6. ASSUME NEW k \in Calls, RowChanged(k) PROVE CommandInv'
  BY <1>6, AnswerStep DEF RowChanged
<1>7. ASSUME NEW k \in Calls, VersionConflict(k) PROVE CommandInv'
  BY <1>7, AnswerStep DEF VersionConflict
<1>8. ASSUME NEW k \in Calls, LockRow(k) PROVE CommandInv'
  BY <1>8, LockRowStep
<1>9. ASSUME NEW k \in Calls, NEW p \in Projects, InsertProject(k, p)
      PROVE  CommandInv'
  BY <1>9, InsertProjectStep
<1>10. ASSUME NEW k \in Calls, InsertEvent(k) PROVE CommandInv'
  BY <1>10, InsertEventStep
<1>11. ASSUME NEW k \in Calls, StoreResult(k) PROVE CommandInv'
  BY <1>11, StoreResultStep
<1>12. ASSUME NEW k \in Calls, DuplicateResult(k) PROVE CommandInv'
  BY <1>12, AnswerStep DEF DuplicateResult
<1>13. ASSUME NEW k \in Calls, Commit(k) PROVE CommandInv'
  BY <1>13, CommitStep
<1>14. ASSUME NEW k \in Calls, Reject(k) PROVE CommandInv'
  BY <1>14, AnswerStep DEF Reject
<1>15. ASSUME NEW k \in Calls, Abort(k) PROVE CommandInv'
  BY <1>15, AnswerStep DEF Abort, FaultAnswers
<1>16. ASSUME NEW k \in Calls, Deny(k) PROVE CommandInv'
  BY <1>16, AnswerStep DEF Deny
<1>17. CASE UNCHANGED commandVars
  <2>1. CommandTypeOK' /\ PendingFinite' /\ KeyExclusive' /\ RowExclusive'
    BY <1>17 DEF CommandInv, commandVars, dbVars, callVars, CommandTypeOK,
         PendingFinite,
       KeyExclusive, RowExclusive
  <2>2. RowsCurrent' /\ SnapshotsPast' /\ StoredFirst' /\ ResultsApplied'
        /\ SnapshotResults' /\ Answered'
    BY <1>17 DEF CommandInv, commandVars, dbVars, callVars, RowsCurrent,
         SnapshotsPast,
       StoredFirst, ResultsApplied, SnapshotResults, Answered
  <2> QED
    BY <2>1, <2>2 DEF CommandInv
<1> QED
  BY <1>1, <1>2, <1>3, <1>4, <1>5, <1>6, <1>7, <1>8, <1>9, <1>10, <1>11,
     <1>12, <1>13, <1>14, <1>15, <1>16, <1>17 DEF CommandNext, CallStep

LEMMA CommandInvariance == CommandSpec => []CommandInv
  BY CommandInitInv, CommandInvStep, PTL DEF CommandSpec

-----------------------------------------------------------------------------
(***************************************************************************)
(* The version history.  Sequences are allocated before commit, in an      *)
(* order of their own; what orders the events of one project is its row    *)
(* lock: whoever inserts events for it sees all of its history behind it   *)
(* (Behind), and its own events follow each other (OwnOrder).              *)
(***************************************************************************)
InRow(k) == pc[k] \in {"writing", "stored"}

\* The versions of S are those after from, up to to.
Contiguous(S, from, to) ==
  /\ \A e \in S : from < e.version /\ e.version <= to
  /\ \A v \in Nat : from < v /\ v <= to => \E e \in S : e.version = v

\* Among the events of S, the order of versions is that of sequences.
Ordered(S) ==
  \A e, f \in S : e.version <= f.version =>
    e.sequence <= f.sequence /\ (e.version = f.version => e = f)

Of(p) == {e \in history : e.project = p}

OwnOrder ==
  \A k \in Calls :
    /\ ~InRow(k) => pending[k] = {}
    /\ InRow(k) =>
         /\ \A e \in pending[k] : e.project = target[k]
         /\ Contiguous(pending[k], version[target[k]],
                       version[target[k]] + Cardinality(pending[k]))
         /\ Ordered(pending[k])
    /\ pc[k] = "stored" => Cardinality(pending[k]) = request[k].events

Allocated ==
  /\ \A e \in history : e.sequence < nextSequence
  /\ \A k \in Calls : \A e \in pending[k] : e.sequence < nextSequence

Behind ==
  \A k \in Calls : InRow(k) =>
    \A e \in pending[k] : \A f \in Of(target[k]) : f.sequence < e.sequence

Whole == \A p \in Projects : Contiguous(Of(p), 0, version[p]) /\ Ordered(Of(p))

HistoryInv == OwnOrder /\ Allocated /\ Behind /\ Whole

LEMMA HistoryInit == CommandInit => HistoryInv
<1> SUFFICES ASSUME CommandInit PROVE HistoryInv
  OBVIOUS
<1>1. \A p \in Projects : Of(p) = {} /\ version[p] = 0
  BY DEF CommandInit, Of
<1>2. Whole
  BY <1>1 DEF Whole, Contiguous, Ordered
<1> QED
  BY <1>2 DEF CommandInit, HistoryInv, OwnOrder, Allocated, Behind, InRow

(* A call that answers without committing gives up its events.             *)
LEMMA HistoryAnswer ==
  ASSUME CommandInv, HistoryInv, NEW k \in Calls, NEW status,
         NEW res, Answer(k, status, res), UNCHANGED dbVars
  PROVE  HistoryInv'
<1> USE DEF Answer, dbVars
<1>1. \A j \in Calls : /\ InRow(j)' => j # k /\ InRow(j)
                       /\ j # k => /\ pending'[j] = pending[j]
                                   /\ target'[j] = target[j]
                                   /\ pc'[j] = pc[j]
  BY DEF CommandInv, CommandTypeOK, InRow
<1>2. pending'[k] = {} /\ ~InRow(k)' /\ pc'[k] # "stored"
  BY DEF CommandInv, CommandTypeOK, InRow
<1>3. \A p : Of(p)' = Of(p)
  BY DEF Of
<1>4. Whole'
  BY <1>3 DEF HistoryInv, Whole
<1>5. OwnOrder'
  <2> SUFFICES ASSUME NEW j \in Calls
               PROVE  /\ ~InRow(j)' => pending'[j] = {}
                      /\ InRow(j)' =>
                           /\ \A e \in pending'[j] : e.project = target'[j]
                           /\ Contiguous(pending'[j], version[target'[j]],
                                version[target'[j]] + Cardinality(pending'[j]))
                           /\ Ordered(pending'[j])
                      /\ pc'[j] = "stored" =>
                           Cardinality(pending'[j]) = request[j].events
    BY DEF OwnOrder, Contiguous, Ordered
  <2>1. CASE j = k
    BY <1>2, <2>1
  <2>2. CASE j # k
    BY <1>1, <2>2 DEF HistoryInv, OwnOrder, InRow
  <2> QED
    BY <2>1, <2>2
<1>6. Allocated'
  BY <1>1, <1>2 DEF HistoryInv, Allocated
<1>7. Behind'
  BY <1>1, <1>3 DEF HistoryInv, Behind
<1> QED
  BY <1>4, <1>5, <1>6, <1>7 DEF HistoryInv

(* A step that takes a call into its row: it has inserted nothing yet.     *)
LEMMA HistoryEnter ==
  ASSUME CommandInv, HistoryInv, NEW k \in Calls, NEW p \in Projects,
         pc[k] = "keyed",
         pc' = [pc EXCEPT ![k] = "writing"],
         target' = [target EXCEPT ![k] = p],
         UNCHANGED <<dbVars, nextSequence, request, pending>>
  PROVE  HistoryInv'
<1> USE DEF dbVars
<1>1. pending[k] = {}
  BY DEF HistoryInv, OwnOrder, InRow
<1>2. \A j \in Calls : j # k => /\ InRow(j)' <=> InRow(j)
                                /\ target'[j] = target[j]
                                /\ pc'[j] = pc[j]
  BY DEF CommandInv, CommandTypeOK, InRow
<1>3. target'[k] = p /\ pc'[k] = "writing" /\ InRow(k)'
  BY DEF CommandInv, CommandTypeOK, InRow
<1>4. Cardinality({}) = 0
  BY FS_EmptySet
<1>5. \A q : Of(q)' = Of(q)
  BY DEF Of
<1>6. Whole' /\ Allocated'
  BY <1>5 DEF HistoryInv, Whole, Allocated
<1>7. Behind'
  BY <1>1, <1>2, <1>5 DEF HistoryInv, Behind
<1>8. Contiguous({}, version[p], version[p] + 0) /\ Ordered({})
  BY DEF Contiguous, Ordered, CommandInv, CommandTypeOK
<1>9. OwnOrder'
  <2> SUFFICES ASSUME NEW j \in Calls
               PROVE  /\ ~InRow(j)' => pending[j] = {}
                      /\ InRow(j)' =>
                           /\ \A e \in pending[j] : e.project = target'[j]
                           /\ Contiguous(pending[j], version[target'[j]],
                                version[target'[j]] + Cardinality(pending[j]))
                           /\ Ordered(pending[j])
                      /\ pc'[j] = "stored" =>
                           Cardinality(pending[j]) = request[j].events
    BY DEF OwnOrder, Contiguous, Ordered
  <2>1. CASE j = k
    BY <1>1, <1>3, <1>4, <1>8, <2>1
  <2>2. CASE j # k
    BY <1>2, <2>2 DEF HistoryInv, OwnOrder
  <2> QED
    BY <2>1, <2>2
<1> QED
  BY <1>6, <1>7, <1>9 DEF HistoryInv

(* insertEvent: the new event is the next version, and its sequence is     *)
(* beyond all that were allocated.                                         *)
LEMMA HistoryInsert ==
  ASSUME CommandInv, HistoryInv, NEW k \in Calls, InsertEvent(k)
  PROVE  HistoryInv'
<1> DEFINE n == Cardinality(pending[k])
           event == [project  |-> target[k],
                     version  |-> snapshot[k].version[target[k]] + n + 1,
                     sequence |-> nextSequence]
<1>1. /\ target[k] \in Projects
      /\ snapshot[k].version[target[k]] = version[target[k]]
      /\ version[target[k]] \in Nat
      /\ pc[k] = "writing" /\ InRow(k)
  BY DEF InsertEvent, InRow, CommandInv, CommandTypeOK, RowsCurrent
<1>2. n \in Nat
  BY FS_CardinalityType DEF CommandInv, PendingFinite
<1>3. /\ pending' = [pending EXCEPT ![k] = @ \cup {event}]
      /\ nextSequence' = nextSequence + 1 /\ nextSequence \in Nat
      /\ UNCHANGED <<version, history, pc, request, target>>
  BY DEF InsertEvent, dbVars, CommandInv, CommandTypeOK
<1>4. /\ event.project = target[k]
      /\ event.version = version[target[k]] + n + 1
      /\ event.sequence = nextSequence
  BY <1>1
<1>5. \A e \in pending[k] : e.sequence < nextSequence
  BY DEF HistoryInv, Allocated
<1>6. \A j \in Calls : \A e \in pending[j] :
        e.version \in Nat /\ e.sequence \in Nat
  BY DEF CommandInv, CommandTypeOK
<1>7. Cardinality(pending[k] \cup {event}) = n + 1
  <2>1. event \notin pending[k]
    BY <1>3, <1>4, <1>5
  <2>2. IsFiniteSet(pending[k])
    BY DEF CommandInv, PendingFinite
  <2> HIDE DEF event
  <2> QED
    BY <2>1, <2>2, FS_AddElement
<1> HIDE DEF n, event
<1>8. pending'[k] = pending[k] \cup {event}
  BY <1>3 DEF CommandInv, CommandTypeOK
<1>9. \A j \in Calls : j # k => pending'[j] = pending[j]
  BY <1>3 DEF CommandInv, CommandTypeOK
<1>10. /\ Contiguous(pending[k], version[target[k]], version[target[k]] + n)
       /\ Ordered(pending[k])
       /\ \A e \in pending[k] : e.project = target[k]
  BY <1>1 DEF HistoryInv, OwnOrder, n
<1>11. Contiguous(pending'[k], version[target[k]], version[target[k]] + n + 1)
  BY <1>1, <1>2, <1>4, <1>6, <1>8, <1>10 DEF Contiguous
<1>12. Ordered(pending'[k])
  BY <1>1, <1>2, <1>3, <1>4, <1>5, <1>6, <1>8, <1>10 DEF Ordered, Contiguous
<1>13. \A p : Of(p)' = Of(p)
  BY <1>3 DEF Of
<1>14. OwnOrder'
  <2> SUFFICES ASSUME NEW j \in Calls
               PROVE  /\ ~InRow(j) => pending'[j] = {}
                      /\ InRow(j) =>
                           /\ \A e \in pending'[j] : e.project = target[j]
                           /\ Contiguous(pending'[j], version[target[j]],
                                version[target[j]] + Cardinality(pending'[j]))
                           /\ Ordered(pending'[j])
                      /\ pc[j] = "stored" =>
                           Cardinality(pending'[j]) = request[j].events
    BY <1>3 DEF OwnOrder, Contiguous, Ordered, InRow
  <2>1. CASE j = k
    <3>1. Cardinality(pending'[k]) = n + 1
      BY <1>7, <1>8
    <3>2. version[target[k]] + (n + 1) = version[target[k]] + n + 1
      BY <1>1, <1>2
    <3>3. \A e \in pending'[k] : e.project = target[k]
      BY <1>4, <1>8, <1>10
    <3> QED
      BY <1>1, <1>11, <1>12, <2>1, <3>1, <3>2, <3>3
  <2>2. CASE j # k
    BY <1>9, <2>2 DEF HistoryInv, OwnOrder
  <2> QED
    BY <2>1, <2>2
<1>15. Allocated'
  <2>1. \A e \in history : e.sequence \in Nat /\ e.sequence < nextSequence
    BY DEF HistoryInv, Allocated, CommandInv, CommandTypeOK
  <2>2. \A j \in Calls : \A e \in pending[j] : e.sequence < nextSequence
    BY DEF HistoryInv, Allocated
  <2> QED
    BY <1>3, <1>4, <1>6, <1>8, <1>9, <2>1, <2>2 DEF Allocated
<1>16. Behind'
  <2> SUFFICES ASSUME NEW j \in Calls, InRow(j), NEW e \in pending'[j],
                      NEW f \in Of(target[j])
               PROVE  f.sequence < e.sequence
    BY <1>3, <1>13 DEF Behind, InRow
  <2>1. f.sequence < nextSequence
    BY DEF HistoryInv, Allocated, Of
  <2>2. CASE j = k /\ e = event
    BY <1>4, <2>1, <2>2
  <2>3. CASE e \in pending[j]
    BY <2>3 DEF HistoryInv, Behind
  <2> QED
    BY <1>8, <1>9, <2>2, <2>3
<1>17. Whole'
  BY <1>3, <1>13 DEF HistoryInv, Whole
<1> QED
  BY <1>14, <1>15, <1>16, <1>17 DEF HistoryInv

(* Commit appends the call's events to the history of its project.         *)
LEMMA HistoryCommit ==
  ASSUME CommandInv, HistoryInv, NEW k \in Calls, Commit(k)
  PROVE  HistoryInv'
<1>0. /\ target[k] \in Projects /\ request[k].events \in Nat
      /\ pc[k] = "stored"
  BY CommandConstants DEF Commit, CommandInv, CommandTypeOK, RowsCurrent
<1>p. PICK p \in Projects : p = target[k]
  BY <1>0
<1>n. PICK n \in Nat : n = request[k].events
  BY <1>0
<1>1. /\ snapshot[k].version[p] = version[p]
      /\ version \in [Projects -> Nat]
      /\ InRow(k)
  BY <1>0, <1>p DEF InRow, CommandInv, CommandTypeOK, RowsCurrent
<1>2. /\ version' = [version EXCEPT ![p] = version[p] + n]
      /\ history' = history \cup pending[k]
      /\ pc' = [pc EXCEPT ![k] = "idle"]
      /\ target' = [target EXCEPT ![k] = NoProject]
      /\ pending' = [pending EXCEPT ![k] = {}]
      /\ UNCHANGED <<nextSequence, request>>
  BY <1>1, <1>p, <1>n DEF Commit, Answer
<1>3. /\ Contiguous(pending[k], version[p], version[p] + n)
      /\ Ordered(pending[k])
      /\ \A e \in pending[k] : e.project = p
      /\ \A e \in pending[k] : \A f \in Of(p) : f.sequence < e.sequence
  BY <1>0, <1>1, <1>p, <1>n DEF HistoryInv, OwnOrder, Behind
<1>4. Contiguous(Of(p), 0, version[p]) /\ Ordered(Of(p))
  BY DEF HistoryInv, Whole
<1>5. /\ \A e \in pending[k] : e.version \in Nat /\ e.sequence \in Nat
      /\ \A e \in history : e.version \in Nat /\ e.sequence \in Nat
  BY DEF CommandInv, CommandTypeOK
<1>6. Of(p)' = Of(p) \cup pending[k]
  BY <1>2, <1>3 DEF Of
<1>7. \A q : q # p => Of(q)' = Of(q)
  BY <1>2, <1>3 DEF Of
<1>8. Contiguous(Of(p)', 0, version'[p])
  <2>1. version'[p] = version[p] + n /\ version[p] \in Nat
    BY <1>1, <1>2
  <2>2. \A e \in Of(p) : e.version \in Nat
    BY <1>5 DEF Of
  <2> QED
    BY <1>1, <1>3, <1>4, <1>5, <1>6, <2>1, <2>2 DEF Contiguous
<1>9. Ordered(Of(p)')
  <2> SUFFICES ASSUME NEW e \in Of(p)', NEW f \in Of(p)',
                      e.version <= f.version
               PROVE  /\ e.sequence <= f.sequence
                      /\ e.version = f.version => e = f
    BY DEF Ordered
  <2>1. \A g \in Of(p) : g.version <= version[p] /\ g.version \in Nat
                         /\ g.sequence \in Nat
    BY <1>4, <1>5 DEF Contiguous, Of
  <2>2. \A g \in pending[k] : version[p] < g.version
    BY <1>3 DEF Contiguous
  <2>3. CASE e \in Of(p) /\ f \in Of(p)
    BY <1>4, <2>3 DEF Ordered
  <2>4. CASE e \in pending[k] /\ f \in pending[k]
    BY <1>3, <2>4 DEF Ordered
  <2>5. CASE e \in Of(p) /\ f \in pending[k]
    BY <1>1, <1>3, <1>5, <2>1, <2>2, <2>5
  <2>6. CASE e \in pending[k] /\ f \in Of(p)
    BY <1>1, <1>5, <2>1, <2>2, <2>6
  <2> QED
    BY <1>6, <2>3, <2>4, <2>5, <2>6
<1>10. Whole'
  <2>1. \A q \in Projects : q # p => version'[q] = version[q]
    BY <1>1, <1>2
  <2> SUFFICES ASSUME NEW q \in Projects
               PROVE  Contiguous(Of(q)', 0, version'[q]) /\ Ordered(Of(q)')
    BY DEF Whole, Contiguous, Ordered
  <2>2. CASE q = p
    BY <1>8, <1>9, <2>2
  <2>3. CASE q # p
    BY <1>7, <2>1, <2>3 DEF HistoryInv, Whole
  <2> QED
    BY <2>2, <2>3
<1>11. \A j \in Calls : /\ InRow(j)' => j # k /\ InRow(j)
                        /\ j # k => /\ pending'[j] = pending[j]
                                    /\ target'[j] = target[j]
                                    /\ pc'[j] = pc[j]
  BY <1>2 DEF CommandInv, CommandTypeOK, InRow
<1>12. pending'[k] = {} /\ ~InRow(k)' /\ pc'[k] # "stored"
  BY <1>2 DEF CommandInv, CommandTypeOK, InRow
<1>13. \A j \in Calls : InRow(j)' =>
         target[j] # p /\ version'[target[j]] = version[target[j]]
  <2> SUFFICES ASSUME NEW j \in Calls, InRow(j)'
               PROVE  target[j] # p /\ version'[target[j]] = version[target[j]]
    OBVIOUS
  <2>1. j # k /\ InRow(j)
    BY <1>11
  <2>2. target[j] # p
    BY <1>1, <1>p, <2>1 DEF CommandInv, RowExclusive, InRow
  <2>3. target[j] \in Projects
    BY <2>1 DEF CommandInv, RowsCurrent, InRow
  <2> QED
    BY <1>1, <1>2, <2>2, <2>3
<1>14. OwnOrder'
  <2> SUFFICES ASSUME NEW j \in Calls
               PROVE  /\ ~InRow(j)' => pending'[j] = {}
                      /\ InRow(j)' =>
                           /\ \A e \in pending'[j] : e.project = target'[j]
                           /\ Contiguous(pending'[j], version'[target'[j]],
                                version'[target'[j]]
                                  + Cardinality(pending'[j]))
                           /\ Ordered(pending'[j])
                      /\ pc'[j] = "stored" =>
                           Cardinality(pending'[j]) = request[j].events
    BY <1>2 DEF OwnOrder, Contiguous, Ordered
  <2>1. CASE j = k
    BY <1>12, <2>1
  <2>2. CASE j # k
    BY <1>11, <1>13, <2>2 DEF HistoryInv, OwnOrder, InRow
  <2> QED
    BY <2>1, <2>2
<1>15. Allocated'
  BY <1>2, <1>11, <1>12 DEF HistoryInv, Allocated
<1>16. Behind'
  BY <1>7, <1>11, <1>13 DEF HistoryInv, Behind
<1> QED
  BY <1>10, <1>14, <1>15, <1>16 DEF HistoryInv

LEMMA HistoryStep == CommandInv /\ HistoryInv /\ [CommandNext]_commandVars => HistoryInv'
<1> SUFFICES ASSUME CommandInv, HistoryInv, [CommandNext]_commandVars PROVE HistoryInv'
  OBVIOUS
<1>1. ASSUME UNCHANGED <<version, history, nextSequence, target, pending>>,
             \A j \in Calls : /\ InRow(j)' <=> InRow(j)
                              /\ InRow(j) => request'[j] = request[j]
                              /\ pc'[j] = "stored" =>
                                   pc[j] = "stored" \/ AllWritten(j)
      PROVE  HistoryInv'
  <2>1. \A p : Of(p)' = Of(p)
    BY <1>1 DEF Of
  <2>2. OwnOrder'
    BY <1>1 DEF HistoryInv, OwnOrder, Contiguous, Ordered, InRow, AllWritten
  <2>3. Allocated' /\ Whole' /\ Behind'
    BY <1>1, <2>1 DEF HistoryInv, Allocated, Whole, Behind
  <2> QED
    BY <2>2, <2>3 DEF HistoryInv
<1>2. ASSUME NEW k \in Calls, NEW r \in Requests, Receive(k, r)
      PROVE  HistoryInv'
  BY <1>1, <1>2 DEF Receive, dbVars, InRow, CommandInv, CommandTypeOK
<1>3. ASSUME NEW k \in Calls, TakeKeyLock(k) PROVE HistoryInv'
  BY <1>1, <1>3 DEF TakeKeyLock, dbVars, InRow, CommandInv, CommandTypeOK
<1>4. ASSUME NEW k \in Calls, StoreResult(k) PROVE HistoryInv'
  BY <1>1, <1>4 DEF StoreResult, AllWritten, dbVars, InRow, CommandInv,
       CommandTypeOK
<1>5. ASSUME NEW k \in Calls, LockRow(k) PROVE HistoryInv'
  <2>1. request[k].project \in Projects
    BY <1>5, CommandConstants
    DEF LockRow, RowAvailable, Executes, CommandInv, CommandTypeOK, Creates
  <2> QED
    BY <1>5, <2>1, HistoryEnter DEF LockRow, RowAvailable, Executes
<1>6. ASSUME NEW k \in Calls, NEW p \in Projects, InsertProject(k, p)
      PROVE  HistoryInv'
  BY <1>6, HistoryEnter DEF InsertProject
<1>7. ASSUME NEW k \in Calls, InsertEvent(k) PROVE HistoryInv'
  BY <1>7, HistoryInsert
<1>8. ASSUME NEW k \in Calls, Commit(k) PROVE HistoryInv'
  BY <1>8, HistoryCommit
<1>9. ASSUME NEW k \in Calls,
             \/ Replay(k) \/ KeyConflict(k) \/ Deny(k) \/ ProjectMissing(k)
             \/ RowChanged(k) \/ VersionConflict(k) \/ DuplicateResult(k)
             \/ Reject(k) \/ Abort(k)
      PROVE  HistoryInv'
  BY <1>9, HistoryAnswer
  DEF Replay, KeyConflict, Deny, ProjectMissing, RowChanged, VersionConflict,
      DuplicateResult, Reject, Abort
<1>10. CASE UNCHANGED commandVars
  BY <1>1, <1>10 DEF commandVars, dbVars, callVars, InRow
<1> QED
  BY <1>2, <1>3, <1>4, <1>5, <1>6, <1>7, <1>8, <1>9, <1>10
  DEF CommandNext, CallStep

-----------------------------------------------------------------------------
(* Every variable keeps its type.                                          *)
THEOREM CommandTypeCorrect == CommandSpec => []CommandTypeOK
<1> CommandInv => CommandTypeOK
  BY DEF CommandInv
<1> QED
  BY CommandInvariance, PTL

(* A caller told of success was told of the one effect its idempotency key *)
(* ever had, and that effect is of the request it sent: CreateProject,     *)
(* RecordDecision and executeProjectMutation keep an identity's effects to *)
(* one although their snapshots precede the identity lock.                 *)
THEOREM SuccessIsOriginalAlways == CommandSpec => []SuccessIsOriginal
<1>1. CommandInv => SuccessIsOriginal
  <2> SUFFICES ASSUME CommandInv, NEW k \in Calls, pc[k] = "idle",
                      reply[k].status = "success"
               PROVE  /\ reply[k].result.request = request[k]
                      /\ {a \in applied : Identity(a.request)
                                            = Identity(request[k])}
                           = {reply[k].result}
    BY DEF SuccessIsOriginal
  <2>1. reply[k].result \in applied /\ reply[k].result.request = request[k]
    BY DEF CommandInv, Answered
  <2>2. \A a \in applied : Identity(a.request) = Identity(request[k])
                             => a = reply[k].result
    BY <2>1 DEF CommandInv, ResultsApplied
  <2> QED
    BY <2>1, <2>2
<1> QED
  BY <1>1, CommandInvariance, PTL

(* Every project's events are its versions from 1 to the current one, each *)
(* once, and their sequence order is their version order, although         *)
(* sequences are allocated before commit and aborted commands leave gaps.  *)
THEOREM VersionHistoryAlways == CommandSpec => []VersionHistory
<1>1. CommandInv /\ HistoryInv => VersionHistory
  <2> SUFFICES ASSUME CommandInv, HistoryInv PROVE VersionHistory
    OBVIOUS
  <2>1. \A p \in Projects : {e.version : e \in Of(p)} = 1 .. version[p]
    <3> SUFFICES ASSUME NEW p \in Projects
                 PROVE  {e.version : e \in Of(p)} = 1 .. version[p]
      OBVIOUS
    <3>1. version[p] \in Nat /\ \A e \in Of(p) : e.version \in Nat
      BY DEF CommandInv, CommandTypeOK, Of
    <3>2. Contiguous(Of(p), 0, version[p])
      BY DEF HistoryInv, Whole
    <3> QED
      BY <3>1, <3>2 DEF Contiguous
  <2>2. \A e, f \in history :
          e.project = f.project /\ e.version <= f.version
            => e.sequence <= f.sequence /\ (e.version = f.version => e = f)
    <3> SUFFICES ASSUME NEW e \in history, NEW f \in history,
                        e.project = f.project, e.version <= f.version
                 PROVE  /\ e.sequence <= f.sequence
                        /\ e.version = f.version => e = f
      OBVIOUS
    <3>1. e \in Of(f.project) /\ f \in Of(f.project)
      BY DEF Of
    <3>2. f.project \in Projects
      BY DEF CommandInv, CommandTypeOK
    <3> QED
      BY <3>1, <3>2 DEF HistoryInv, Whole, Ordered
  <2> QED
    BY <2>1, <2>2 DEF VersionHistory, Of
<1>2. CommandSpec => []HistoryInv
  BY HistoryInit, HistoryStep, CommandInvariance, PTL DEF CommandSpec
<1> QED
  BY <1>1, <1>2, CommandInvariance, PTL

(* The transactions implement the ledger: Commit is Apply, every other     *)
(* step stutters.                                                          *)
THEOREM TransactionsImplementLedger == CommandSpec => ImplementsLedger
<1>1. CommandInit => Ledger!LedgerInit
  BY DEF CommandInit, Ledger!LedgerInit
<1>2. ASSUME CommandInv, NEW k \in Calls, Commit(k)
      PROVE  Ledger!LedgerNext
  <2>1. /\ pc[k] = "stored"
        /\ target[k] \in Projects
        /\ request[k] \in Requests
        /\ snapshot[k].version[target[k]] = version[target[k]]
        /\ result[Identity(request[k])] = NoResult
    BY <1>2 DEF Commit, CommandInv, CommandTypeOK, RowsCurrent, StoredFirst
  <2>2. ASSUME NEW a \in applied, Identity(a.request) = Identity(request[k])
        PROVE  FALSE
    <3>1. result[Identity(a.request)] = a
      BY <1>2 DEF CommandInv, ResultsApplied
    <3>2. a \in Effects
      BY <1>2 DEF CommandInv, CommandTypeOK
    <3> QED
      BY <2>1, <2>2, <3>1, <3>2, NoResultIsNoEffect
  <2>3. \/ Creates(request[k]) /\ version[target[k]] = 0
        \/ /\ ~Creates(request[k])
           /\ version[target[k]] = request[k].expected
           /\ version[target[k]] > 0
           /\ target[k] = request[k].project
    <3>1. RowsCurrent
      BY <1>2 DEF CommandInv
    <3> QED
      BY <2>1, <3>1 DEF RowsCurrent
  <2>4. /\ version' = [version EXCEPT ![target[k]] = @ + request[k].events]
        /\ applied' = applied \cup
             {[request |-> request[k], project |-> target[k],
               from |-> version[target[k]]]}
    BY <1>2, <2>1 DEF Commit, Effect
  <2>5. Ledger!Apply(request[k], target[k])
    BY <2>2, <2>3, <2>4
    DEF Ledger!Apply, Ledger!Creates, Creates, Ledger!Identity, Identity
  <2> QED
    BY <2>1, <2>5 DEF Ledger!LedgerNext
<1>3. CommandInv /\ [CommandNext]_commandVars => [Ledger!LedgerNext]_(Ledger!ledgerVars)
  <2> SUFFICES ASSUME CommandInv, [CommandNext]_commandVars,
                      ~ \E k \in Calls : Commit(k)
               PROVE  UNCHANGED Ledger!ledgerVars
    BY <1>2
  <2> QED
    BY DEF CommandNext, CallStep, Receive, TakeKeyLock, Replay, KeyConflict,
       ProjectMissing, RowChanged, VersionConflict, LockRow, InsertProject,
       InsertEvent, StoreResult, DuplicateResult, Deny, Reject, Abort,
       commandVars,
       dbVars, Ledger!ledgerVars
<1> QED
  BY <1>1, <1>3, CommandInvariance, PTL DEF CommandSpec, ImplementsLedger,
       Ledger!LedgerSpec
=============================================================================
