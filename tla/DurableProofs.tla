--------------------------- MODULE DurableProofs ---------------------------
(***************************************************************************)
(* The two specifications of Workplane's durable store (durable.go), which *)
(* share no variable.                                                      *)
(*                                                                         *)
(* Outbox for every number of consumers, hosts, writers and events: type   *)
(* correctness, what a checkpoint covers, that nothing commits behind one, *)
(* that registrations miss no event, and that the outbox implements        *)
(* CommittedFeed.                                                          *)
(*                                                                         *)
(* ReplayRuns for every set of replays, every bound on sequences and any   *)
(* number of faults: type correctness, that the head names a sound         *)
(* generation, and that it never loses an event it covered.                *)
(***************************************************************************)
EXTENDS Outbox, ReplayRuns, TLAPS

(***************************************************************************)
(* The inductive invariant of Outbox. CheckpointCovers alone is not        *)
(* inductive: that a new event commits ahead of every checkpoint depends   *)
(* on where the sequences of OPEN transactions lie (OpenAhead), which a    *)
(* checkpoint can change only while its transaction holds the horizon,     *)
(* when there is no open insertion (HorizonQuiet) and its job is a         *)
(* committed event with an effect (JobKnown).                              *)
(***************************************************************************)

\* Sequences are allocated in order, so the next one is above all others.
BelowNext ==
  /\ \A w \in Writers : \A e \in inserted[w] : e < nextSequence
  /\ \A e \in committed : e < nextSequence

\* Open transactions hold sequences ahead of every checkpoint.
OpenAhead ==
  \A w \in Writers : \A e \in inserted[w] : \A c \in Consumers :
    checkpoint[c] < e

\* While some checkpoint transaction holds the horizon nothing is inserted.
HorizonQuiet ==
  \A c \in Consumers, h \in Hosts :
    phase[c][h] = "horizon" => \A w \in Writers : inserted[w] = {}

\* Delivery rows belong to committed events.
RowsCommitted ==
  \A c \in Consumers : /\ backfill[c] \subseteq committed
                       /\ seeded[c] \subseteq committed

\* A loop that is not idle works on a committed event, and once it has
\* published, the effect is there.
JobKnown ==
  \A c \in Consumers, h \in Hosts :
    /\ phase[c][h] # "idle" => job[c][h] \in committed
    /\ phase[c][h] \in {"published", "serialized", "horizon"}
         => job[c][h] \in delivered[c]

\* A checkpoint names a committed event, or 0.
CheckpointKnown ==
  \A c \in Consumers : checkpoint[c] = 0 \/ checkpoint[c] \in committed

\* CheckpointCovers for all consumers; one that is not registered is at 0.
Covered ==
  \A c \in Consumers : \A e \in committed :
    e <= checkpoint[c] => e \in delivered[c]

Inv ==
  /\ TypeOK
  /\ BelowNext
  /\ OpenAhead
  /\ HorizonQuiet
  /\ RowsCommitted
  /\ JobKnown
  /\ CheckpointKnown
  /\ Covered
  /\ AckBehindCheckpoint
  /\ SeededEverywhere

-----------------------------------------------------------------------------
LEMMA InitInv == Init => Inv
  BY OutboxConstants DEF Init, Inv, TypeOK, BelowNext, OpenAhead,
     HorizonQuiet, RowsCommitted, JobKnown, CheckpointKnown, Covered,
     AckBehindCheckpoint, SeededEverywhere, Phases

(* Type correctness is preserved by every action.  JobKnown is needed: an  *)
(* idle loop's job is 0, which is no sequence.                             *)
LEMMA TypeStep == TypeOK /\ JobKnown /\ [Next]_vars => TypeOK'
<1> SUFFICES ASSUME TypeOK, JobKnown, [Next]_vars PROVE TypeOK'
  OBVIOUS
<1> USE OutboxConstants
<1>1. ASSUME NEW w \in Writers, BeginCommand(w) PROVE TypeOK'
  BY <1>1 DEF BeginCommand, TypeOK, enrolVars, rowVars, loopVars
<1>2. ASSUME NEW w \in Writers, InsertEvent(w) PROVE TypeOK'
  BY <1>2 DEF InsertEvent, TypeOK, Sequences, enrolVars, rowVars, loopVars
<1>3. ASSUME NEW w \in Writers, CommitCommand(w) PROVE TypeOK'
  <2>1. /\ inserted' \in [Writers -> SUBSET Sequences]
        /\ running' \subseteq Writers
        /\ committed' \subseteq Sequences
        /\ ahead' \subseteq Sequences
    BY <1>3 DEF CommitCommand, TypeOK
  <2>2. seeded' \in [Consumers -> SUBSET Sequences]
    BY <1>3 DEF CommitCommand, TypeOK
  <2> QED
    BY <1>3, <2>1, <2>2 DEF CommitCommand, TypeOK, enrolVars, loopVars
<1>4. ASSUME NEW w \in Writers, AbortCommand(w) PROVE TypeOK'
  BY <1>4 DEF AbortCommand, TypeOK, enrolVars, rowVars, loopVars
<1>5. ASSUME NEW c \in Consumers, BeginEnrol(c) PROVE TypeOK'
  BY <1>5 DEF BeginEnrol, TypeOK, writerVars, rowVars, loopVars
<1>6. ASSUME NEW c \in Consumers, CommitEnrol(c) PROVE TypeOK'
  BY <1>6 DEF CommitEnrol, TypeOK, writerVars, loopVars
<1>7. ASSUME NEW c \in Consumers, AbortEnrol(c) PROVE TypeOK'
  BY <1>7 DEF AbortEnrol, TypeOK, writerVars, rowVars, loopVars
<1>8. ASSUME NEW c \in Consumers, NEW h \in Hosts, ClaimSelect(c, h) PROVE
TypeOK'
  BY <1>8 DEF ClaimSelect, Eligible, TypeOK, Sequences, Phases, writerVars,
     enrolVars, rowVars
<1>9. ASSUME NEW c \in Consumers, NEW h \in Hosts, NothingToClaim(c, h) PROVE
TypeOK'
  BY <1>9 DEF NothingToClaim, vars, TypeOK, writerVars, enrolVars, rowVars,
     loopVars
<1>10. ASSUME NEW c \in Consumers, NEW h \in Hosts, ClaimCommit(c, h) PROVE
TypeOK'
  BY <1>10 DEF ClaimCommit, TypeOK, Phases, writerVars, enrolVars
<1>11. ASSUME NEW c \in Consumers, NEW h \in Hosts, Publish(c, h) PROVE TypeOK'
  <2>1. job[c][h] \in Sequences
    BY <1>11 DEF Publish, TypeOK, JobKnown
  <2>2. delivered' \in [Consumers -> SUBSET Sequences]
    BY <1>11, <2>1 DEF Publish, TypeOK
  <2>3. phase' \in [Consumers -> [Hosts -> Phases]]
    BY <1>11 DEF Publish, TypeOK, Phases
  <2> QED
    BY <1>11, <2>2, <2>3 DEF Publish, TypeOK, writerVars, enrolVars, rowVars
<1>12. ASSUME NEW c \in Consumers, NEW h \in Hosts, LockCheckpoint(c, h) PROVE
TypeOK'
  BY <1>12 DEF LockCheckpoint, TypeOK, Phases, writerVars, enrolVars, rowVars
<1>13. ASSUME NEW c \in Consumers, NEW h \in Hosts, LockCommitHorizon(c, h)
PROVE TypeOK'
  BY <1>13 DEF LockCommitHorizon, TypeOK, Phases, writerVars, enrolVars,
     rowVars
<1>14. ASSUME NEW c \in Consumers, NEW h \in Hosts, Acknowledge(c, h) PROVE
TypeOK'
  <2>1. job[c][h] \in Sequences
    BY <1>14 DEF Acknowledge, TypeOK, JobKnown
  <2>2. /\ acked' \in [Consumers -> SUBSET Sequences]
        /\ lapsed' \in [Consumers -> SUBSET Sequences]
    BY <1>14, <2>1 DEF Acknowledge, TypeOK
  <2>3. checkpoint' \in [Consumers -> 0 .. MaxSequence]
    BY <1>14, <2>1 DEF Acknowledge, TypeOK
  <2>4. owner' \in [Consumers -> [Sequences -> Hosts \cup {NoHost}]]
    BY <1>14, <2>1 DEF Acknowledge, TypeOK
  <2>5. /\ phase' \in [Consumers -> [Hosts -> Phases]]
        /\ job' \in [Consumers -> [Hosts -> 0 .. MaxSequence]]
    BY <1>14 DEF Acknowledge, TypeOK, Phases
  <2> QED
    BY <1>14, <2>2, <2>3, <2>4, <2>5 DEF Acknowledge, TypeOK, writerVars,
       enrolVars
<1>15. ASSUME NEW c \in Consumers, NEW h \in Hosts, ReleaseOutOfOrder(c, h)
PROVE TypeOK'
  <2>1. lapsed' \in [Consumers -> SUBSET Sequences]
    BY <1>15 DEF ReleaseOutOfOrder, TypeOK
  <2>2. owner' \in [Consumers -> [Sequences -> Hosts \cup {NoHost}]]
    BY <1>15 DEF ReleaseOutOfOrder, TypeOK
  <2>3. /\ phase' \in [Consumers -> [Hosts -> Phases]]
        /\ job' \in [Consumers -> [Hosts -> 0 .. MaxSequence]]
    BY <1>15 DEF ReleaseOutOfOrder, TypeOK, Phases
  <2> QED
    BY <1>15, <2>1, <2>2, <2>3 DEF ReleaseOutOfOrder, TypeOK, writerVars,
       enrolVars
<1>16. ASSUME NEW c \in Consumers, NEW h \in Hosts, LeaseLost(c, h) PROVE
TypeOK'
  BY <1>16 DEF LeaseLost, StopLoops, TypeOK, Phases, writerVars, enrolVars,
     rowVars
<1>17. ASSUME NEW e \in Sequences, BecomesAvailable(e) PROVE TypeOK'
  BY <1>17 DEF BecomesAvailable, TypeOK, writerVars, enrolVars, rowVars,
     loopVars
<1>18. ASSUME NEW h \in Hosts, Crash(h) PROVE TypeOK'
  BY <1>18 DEF Crash, StopLoops, TypeOK, Phases, writerVars, enrolVars,
     rowVars
<1>19. ASSUME NEW c \in Consumers, NEW e \in Sequences, LeaseExpires(c, e)
PROVE TypeOK'
  BY <1>19 DEF LeaseExpires, TypeOK, writerVars, enrolVars, loopVars
<1>20. CASE UNCHANGED vars
  BY <1>20 DEF TypeOK, vars, writerVars, enrolVars, rowVars, loopVars
<1> QED
  BY <1>1, <1>2, <1>3, <1>4, <1>5, <1>6, <1>7, <1>8, <1>9, <1>10, <1>11,
     <1>12, <1>13, <1>14, <1>15, <1>16, <1>17, <1>18, <1>19, <1>20 DEF Next,
     WriterNext, EnrolNext, LoopNext

(* The other conjuncts of Inv are preserved: first by the actions that     *)
(* disturb some of them, each with the conjuncts in question.              *)
LEMMA InvStep == Inv /\ [Next]_vars => Inv'
<1> SUFFICES ASSUME Inv, [Next]_vars PROVE Inv'
  OBVIOUS
<1> USE OutboxConstants
<1>1. TypeOK'
  BY TypeStep DEF Inv
<1>2. ASSUME NEW w \in Writers, BeginCommand(w) PROVE Inv'
  BY <1>1, <1>2 DEF Inv, BelowNext, OpenAhead, HorizonQuiet, RowsCommitted,
     JobKnown, CheckpointKnown, Covered, AckBehindCheckpoint,
     SeededEverywhere, BeginCommand, enrolVars, rowVars, loopVars
<1>3. ASSUME NEW w \in Writers, InsertEvent(w) PROVE Inv'
  <2>1. BelowNext'
    BY <1>3 DEF Inv, TypeOK, BelowNext, InsertEvent, Sequences
  <2>2. OpenAhead'
    BY <1>3 DEF Inv, TypeOK, OpenAhead, BelowNext, CheckpointKnown,
       InsertEvent
  <2>3. HorizonQuiet'
    BY <1>3 DEF Inv, HorizonQuiet, InsertEvent, HorizonHeld, loopVars
  <2> QED
    BY <1>1, <1>3, <2>1, <2>2, <2>3 DEF Inv, RowsCommitted, JobKnown,
       CheckpointKnown, Covered, AckBehindCheckpoint, SeededEverywhere,
       InsertEvent, enrolVars, rowVars, loopVars
<1>4. ASSUME NEW w \in Writers, CommitCommand(w) PROVE Inv'
  <2>1. BelowNext'
    BY <1>4 DEF Inv, BelowNext, CommitCommand
  <2>2. OpenAhead'
    BY <1>4 DEF Inv, OpenAhead, CommitCommand
  <2>3. HorizonQuiet'
    BY <1>4 DEF Inv, HorizonQuiet, CommitCommand, loopVars
  <2>4. RowsCommitted'
    BY <1>4 DEF Inv, RowsCommitted, CommitCommand, enrolVars
  <2>5. JobKnown'
    BY <1>4 DEF Inv, JobKnown, CommitCommand, loopVars
  <2>6. CheckpointKnown'
    BY <1>4 DEF Inv, CheckpointKnown, CommitCommand
  <2>7. Covered'
    BY <1>4 DEF Inv, TypeOK, Covered, OpenAhead, CommitCommand, Sequences
  <2>8. SeededEverywhere'
    BY <1>4 DEF Inv, TypeOK, SeededEverywhere, CommitCommand,
       CommandSerializable, enrolVars
  <2> QED
    BY <1>1, <1>4, <2>1, <2>2, <2>3, <2>4, <2>5, <2>6, <2>7, <2>8 DEF Inv,
       AckBehindCheckpoint, CommitCommand
<1>5. ASSUME NEW w \in Writers, AbortCommand(w) PROVE Inv'
  <2>1. BelowNext'
    BY <1>5 DEF Inv, BelowNext, AbortCommand
  <2>2. OpenAhead'
    BY <1>5 DEF Inv, OpenAhead, AbortCommand
  <2>3. HorizonQuiet'
    BY <1>5 DEF Inv, HorizonQuiet, AbortCommand, loopVars
  <2> QED
    BY <1>1, <1>5, <2>1, <2>2, <2>3 DEF Inv, RowsCommitted, JobKnown,
       CheckpointKnown, Covered, AckBehindCheckpoint, SeededEverywhere,
       AbortCommand, enrolVars, rowVars, loopVars
<1>6. ASSUME NEW c \in Consumers, BeginEnrol(c) PROVE Inv'
  <2>1. RowsCommitted'
    BY <1>6 DEF Inv, RowsCommitted, BeginEnrol, rowVars
  <2> QED
    BY <1>1, <1>6, <2>1 DEF Inv, BelowNext, OpenAhead, HorizonQuiet,
       JobKnown, CheckpointKnown, Covered, AckBehindCheckpoint,
       SeededEverywhere, BeginEnrol, writerVars, rowVars, loopVars
<1>7. ASSUME NEW c \in Consumers, CommitEnrol(c) PROVE Inv'
  <2>1. RowsCommitted'
    BY <1>7 DEF Inv, RowsCommitted, CommitEnrol
  <2>2. SeededEverywhere'
    BY <1>7 DEF Inv, TypeOK, SeededEverywhere, CommitEnrol, EnrolSerializable
  <2> QED
    BY <1>1, <1>7, <2>1, <2>2 DEF Inv, BelowNext, OpenAhead, HorizonQuiet,
       JobKnown, CheckpointKnown, Covered, AckBehindCheckpoint, CommitEnrol,
       writerVars, loopVars
<1>8. ASSUME NEW c \in Consumers, AbortEnrol(c) PROVE Inv'
  BY <1>1, <1>8 DEF Inv, BelowNext, OpenAhead, HorizonQuiet, RowsCommitted,
     JobKnown, CheckpointKnown, Covered, AckBehindCheckpoint,
     SeededEverywhere, AbortEnrol, writerVars, rowVars, loopVars
<1>9. ASSUME NEW c \in Consumers, NEW h \in Hosts, ClaimSelect(c, h) PROVE Inv'
  <2>1. HorizonQuiet'
    BY <1>9 DEF Inv, HorizonQuiet, ClaimSelect, writerVars
  <2>2. JobKnown'
    BY <1>9 DEF Inv, TypeOK, JobKnown, RowsCommitted, ClaimSelect, Eligible
  <2> QED
    BY <1>1, <1>9, <2>1, <2>2 DEF Inv, BelowNext, OpenAhead, RowsCommitted,
       CheckpointKnown, Covered, AckBehindCheckpoint, SeededEverywhere,
       ClaimSelect, writerVars, enrolVars, rowVars
<1>10. ASSUME NEW c \in Consumers, NEW h \in Hosts, NothingToClaim(c, h) PROVE
Inv'
  BY <1>1, <1>10 DEF Inv, BelowNext, OpenAhead, HorizonQuiet, RowsCommitted,
     JobKnown, CheckpointKnown, Covered, AckBehindCheckpoint,
     SeededEverywhere, NothingToClaim, vars, writerVars, enrolVars, rowVars,
     loopVars
<1>11. ASSUME NEW c \in Consumers, NEW h \in Hosts, ClaimCommit(c, h) PROVE Inv'
  <2>1. HorizonQuiet'
    BY <1>11 DEF Inv, HorizonQuiet, ClaimCommit, writerVars
  <2>2. JobKnown'
    BY <1>11 DEF Inv, JobKnown, ClaimCommit
  <2> QED
    BY <1>1, <1>11, <2>1, <2>2 DEF Inv, BelowNext, OpenAhead, RowsCommitted,
       CheckpointKnown, Covered, AckBehindCheckpoint, SeededEverywhere,
       ClaimCommit, writerVars, enrolVars
<1>12. ASSUME NEW c \in Consumers, NEW h \in Hosts, Publish(c, h) PROVE Inv'
  <2>1. HorizonQuiet'
    BY <1>12 DEF Inv, HorizonQuiet, Publish, writerVars
  <2>2. JobKnown'
    BY <1>12 DEF Inv, TypeOK, JobKnown, Publish
  <2>3. Covered'
    BY <1>12 DEF Inv, Covered, Publish
  <2>4. AckBehindCheckpoint'
    BY <1>12 DEF Inv, AckBehindCheckpoint, Publish, rowVars
  <2> QED
    BY <1>1, <1>12, <2>1, <2>2, <2>3, <2>4 DEF Inv, BelowNext, OpenAhead,
       RowsCommitted, CheckpointKnown, SeededEverywhere, Publish, writerVars,
       enrolVars, rowVars
<1>13. ASSUME NEW c \in Consumers, NEW h \in Hosts, LockCheckpoint(c, h) PROVE
Inv'
  <2>1. HorizonQuiet'
    BY <1>13 DEF Inv, HorizonQuiet, LockCheckpoint, writerVars
  <2>2. JobKnown'
    BY <1>13 DEF Inv, JobKnown, LockCheckpoint
  <2> QED
    BY <1>1, <1>13, <2>1, <2>2 DEF Inv, BelowNext, OpenAhead, RowsCommitted,
       CheckpointKnown, Covered, AckBehindCheckpoint, SeededEverywhere,
       LockCheckpoint, writerVars, enrolVars, rowVars
<1>14. ASSUME NEW c \in Consumers, NEW h \in Hosts, LockCommitHorizon(c, h)
PROVE Inv'
  <2>1. HorizonQuiet'
    BY <1>14 DEF HorizonQuiet, LockCommitHorizon, WriterActive, writerVars
  <2>2. JobKnown'
    BY <1>14 DEF Inv, JobKnown, LockCommitHorizon
  <2> QED
    BY <1>1, <1>14, <2>1, <2>2 DEF Inv, BelowNext, OpenAhead, RowsCommitted,
       CheckpointKnown, Covered, AckBehindCheckpoint, SeededEverywhere,
       LockCommitHorizon, writerVars, enrolVars, rowVars
<1>15. ASSUME NEW c \in Consumers, NEW h \in Hosts, Acknowledge(c, h) PROVE Inv'
  <2>1. OpenAhead'
    BY <1>15 DEF Inv, OpenAhead, HorizonQuiet, Acknowledge, writerVars
  <2>2. HorizonQuiet'
    BY <1>15 DEF Inv, HorizonQuiet, Acknowledge, writerVars
  <2>3. JobKnown'
    BY <1>15 DEF Inv, TypeOK, JobKnown, Acknowledge
  <2>4. CheckpointKnown'
    BY <1>15 DEF Inv, CheckpointKnown, JobKnown, Acknowledge
  <2>5. Covered'
    BY <1>15 DEF Inv, TypeOK, Covered, JobKnown, Acknowledge, MissingEarlier,
       Sequences
  <2>6. AckBehindCheckpoint'
    BY <1>15 DEF Inv, TypeOK, AckBehindCheckpoint, JobKnown, Acknowledge,
       Sequences
  <2> QED
    BY <1>1, <1>15, <2>1, <2>2, <2>3, <2>4, <2>5, <2>6 DEF Inv, BelowNext,
       RowsCommitted, SeededEverywhere, Acknowledge, writerVars, enrolVars
<1>16. ASSUME NEW c \in Consumers, NEW h \in Hosts, ReleaseOutOfOrder(c, h)
PROVE Inv'
  <2>1. HorizonQuiet'
    BY <1>16 DEF Inv, HorizonQuiet, ReleaseOutOfOrder, writerVars
  <2>2. JobKnown'
    BY <1>16 DEF Inv, TypeOK, JobKnown, ReleaseOutOfOrder
  <2> QED
    BY <1>1, <1>16, <2>1, <2>2 DEF Inv, BelowNext, OpenAhead, RowsCommitted,
       CheckpointKnown, Covered, AckBehindCheckpoint, SeededEverywhere,
       ReleaseOutOfOrder, writerVars, enrolVars
<1>17. ASSUME NEW c \in Consumers, NEW h \in Hosts, LeaseLost(c, h) PROVE Inv'
  <2>1. HorizonQuiet'
    BY <1>17 DEF Inv, HorizonQuiet, LeaseLost, writerVars
  <2>2. JobKnown'
    BY <1>17 DEF Inv, TypeOK, JobKnown, LeaseLost, StopLoops
  <2> QED
    BY <1>1, <1>17, <2>1, <2>2 DEF Inv, BelowNext, OpenAhead, RowsCommitted,
       CheckpointKnown, Covered, AckBehindCheckpoint, SeededEverywhere,
       LeaseLost, writerVars, enrolVars, rowVars
<1>18. ASSUME NEW e \in Sequences, BecomesAvailable(e) PROVE Inv'
  BY <1>1, <1>18 DEF Inv, BelowNext, OpenAhead, HorizonQuiet, RowsCommitted,
     JobKnown, CheckpointKnown, Covered, AckBehindCheckpoint,
     SeededEverywhere, BecomesAvailable, writerVars, enrolVars, rowVars,
     loopVars
<1>19. ASSUME NEW h \in Hosts, Crash(h) PROVE Inv'
  <2>1. HorizonQuiet'
    BY <1>19 DEF Inv, HorizonQuiet, Crash, StopLoops, writerVars
  <2>2. JobKnown'
    BY <1>19 DEF Inv, TypeOK, JobKnown, Crash, StopLoops
  <2> QED
    BY <1>1, <1>19, <2>1, <2>2 DEF Inv, BelowNext, OpenAhead, RowsCommitted,
       CheckpointKnown, Covered, AckBehindCheckpoint, SeededEverywhere,
       Crash, writerVars, enrolVars, rowVars
<1>20. ASSUME NEW c \in Consumers, NEW e \in Sequences, LeaseExpires(c, e)
PROVE Inv'
  BY <1>1, <1>20 DEF Inv, BelowNext, OpenAhead, HorizonQuiet, RowsCommitted,
     JobKnown, CheckpointKnown, Covered, AckBehindCheckpoint,
     SeededEverywhere, LeaseExpires, writerVars, enrolVars, loopVars
<1>21. CASE UNCHANGED vars
  BY <1>1, <1>21 DEF Inv, BelowNext, OpenAhead, HorizonQuiet, RowsCommitted,
     JobKnown, CheckpointKnown, Covered, AckBehindCheckpoint,
     SeededEverywhere, vars, writerVars, enrolVars, rowVars, loopVars
<1> QED
  BY <1>2, <1>3, <1>4, <1>5, <1>6, <1>7, <1>8, <1>9, <1>10, <1>11, <1>12,
       <1>13, <1>14, <1>15, <1>16, <1>17, <1>18, <1>19, <1>20, <1>21 DEF
       Next, WriterNext, EnrolNext, LoopNext

LEMMA Invariance == Spec => []Inv
  BY InitInv, InvStep, PTL DEF Spec

-----------------------------------------------------------------------------
(* Every variable keeps its type: in particular no loop of RunOutboxOnce   *)
(* works on an event outside the allocated sequences.                      *)
THEOREM TypeCorrect == Spec => []TypeOK
<1> Inv => TypeOK
  BY DEF Inv
<1> QED
  BY Invariance, PTL

(* A checkpoint covers every committed event at or below it, however       *)
(* commands, hosts, lapsed leases and crashes interleave: what             *)
(* RunOutboxOnce needs lock_domain_event_commit_horizon for.               *)
THEOREM CheckpointIsCovered == Spec => []CheckpointCovers
<1> Inv => CheckpointCovers
  BY DEF Inv, TypeOK, Covered, CheckpointCovers
<1> QED
  BY Invariance, PTL

(* An acknowledged row has its effect and lies behind the checkpoint.      *)
THEOREM AckIsBehindCheckpoint == Spec => []AckBehindCheckpoint
<1> Inv => AckBehindCheckpoint
  BY DEF Inv
<1> QED
  BY Invariance, PTL

(* A registration and the commands in flight leave no event without a      *)
(* delivery row (the seed trigger and EnsureConsumer's backfill).          *)
THEOREM RegistrationMissesNothing == Spec => []SeededEverywhere
<1> Inv => SeededEverywhere
  BY DEF Inv
<1> QED
  BY Invariance, PTL

-----------------------------------------------------------------------------
(* Only CommitCommand adds to the committed events, and it adds what its   *)
(* transaction inserted.                                                   *)
LEMMA OnlyCommitCommits ==
  ASSUME Next, committed' # committed
  PROVE  \E w \in Writers : CommitCommand(w)
  BY DEF Next, WriterNext, EnrolNext, LoopNext, BeginCommand, InsertEvent,
     AbortCommand, BecomesAvailable, BeginEnrol, CommitEnrol, AbortEnrol,
     ClaimSelect, NothingToClaim, ClaimCommit, Publish, LockCheckpoint,
     LockCommitHorizon, Acknowledge, ReleaseOutOfOrder, LeaseLost, Crash,
     LeaseExpires, vars

\* The step NoLateCommit allows.
CommitsAhead ==
  \A e \in committed' \ committed : \A c \in Consumers : checkpoint[c] < e

(* No transaction commits an event at or below any consumer's checkpoint:  *)
(* the purpose of migration 000005.                                        *)
THEOREM NothingCommitsLate == Spec => NoLateCommit
<1>1. Inv /\ [Next]_vars => [CommitsAhead]_vars
  <2> SUFFICES ASSUME Inv, Next, NEW e \in committed' \ committed,
                      NEW c \in Consumers
               PROVE  checkpoint[c] < e
    BY DEF CommitsAhead, vars
  <2>1. PICK w \in Writers : CommitCommand(w)
    BY OnlyCommitCommits
  <2> QED
    BY <2>1 DEF CommitCommand, Inv, OpenAhead
<1> QED
  BY <1>1, Invariance, PTL DEF Spec, NoLateCommit, CommitsAhead

(* The outbox implements the feed its readers rely on: the initial state   *)
(* maps to an initial state, CommitCommand to CommitEvents, an Acknowledge *)
(* that moves the checkpoint to AdvanceTo, and every other step stutters.  *)
THEOREM OutboxImplementsFeed == Spec => ImplementsFeed
<1>1. Init => Feed!FeedInit
  BY DEF Init, Feed!FeedInit
<1>2. Inv /\ [Next]_vars => [Feed!FeedNext]_(Feed!feedVars)
  <2> SUFFICES ASSUME Inv, [Next]_vars, ~UNCHANGED Feed!feedVars
               PROVE  Feed!FeedNext
    OBVIOUS
  <2>1. ASSUME NEW w \in Writers, CommitCommand(w) PROVE Feed!FeedNext
    <3>1. Feed!CommitEvents(inserted[w])
      BY <2>1 DEF CommitCommand, Inv, OpenAhead, Feed!CommitEvents
    <3>2. inserted[w] \in SUBSET Sequences
      BY DEF Inv, TypeOK
    <3> QED
      BY <3>1, <3>2 DEF Feed!FeedNext
  <2>2. ASSUME NEW c \in Consumers, NEW h \in Hosts, Acknowledge(c, h)
        PROVE  Feed!FeedNext
    <3>1. checkpoint' # checkpoint
      BY <2>2 DEF Acknowledge, Feed!feedVars
    <3>2. job[c][h] > checkpoint[c]
      BY <2>2, <3>1 DEF Acknowledge, Inv, TypeOK
    <3>3. Feed!AdvanceTo(c, job[c][h])
      BY <2>2, <3>2 DEF Acknowledge, Inv, JobKnown, Feed!AdvanceTo
    <3>4. job[c][h] \in committed
      BY <2>2 DEF Acknowledge, Inv, JobKnown
    <3> QED
      BY <3>3, <3>4 DEF Feed!FeedNext
  <2>3. \/ \E w \in Writers : CommitCommand(w)
        \/ \E c \in Consumers, h \in Hosts : Acknowledge(c, h)
    BY DEF Next, WriterNext, EnrolNext, LoopNext, BeginCommand, InsertEvent,
       AbortCommand, BecomesAvailable, BeginEnrol, CommitEnrol, AbortEnrol,
       ClaimSelect, NothingToClaim, ClaimCommit, Publish, LockCheckpoint,
       LockCommitHorizon, ReleaseOutOfOrder, LeaseLost, Crash, LeaseExpires,
       vars, Feed!feedVars
  <2> QED
    BY <2>1, <2>2, <2>3
<1> QED
  BY <1>1, <1>2, Invariance, PTL DEF Spec, ImplementsFeed, Feed!FeedSpec

-----------------------------------------------------------------------------
(* Shadow replay.                                                          *)

(***************************************************************************)
(* The inductive invariant of ReplayRuns. HeadNeverBack needs the conflict *)
(* check to say something about events, not about run identifiers: an old  *)
(* head shown by a snapshot was built from events the same snapshot shows  *)
(* (SnapshotConsistent), and between the check and the commit the head     *)
(* stays where the snapshot shows it, because the lock is exclusive        *)
(* (InstallingCurrent).                                                    *)
(***************************************************************************)
Holding(r) == pc[r] \in {"locked", "installed"}

\* The advisory lock is exclusive.
LockExclusive == \A r, s \in Runs : Holding(r) /\ Holding(s) => r = s

\* A run that is or was the head has returned.
HeadReturned == head # NoRun => pc[head] = "returned"

\* What a snapshot shows is committed, and the head it shows is covered by
\* the events it shows.
SnapshotConsistent ==
  \A r \in Runs :
    LET s == snapshot[r] IN
    /\ s.ledger \subseteq ledger
    /\ s.head # NoRun => /\ pc[s.head] = "returned"
                         /\ built[s.head] \subseteq s.ledger

\* A replay about to commit replaces the head of its snapshot with events
\* that can all be applied.
InstallingCurrent ==
  \A r \in Runs : pc[r] = "installed" =>
    head = snapshot[r].head /\ Unknown(r) = {}

ReplayInv ==
  /\ ReplayTypeOK
  /\ LockExclusive
  /\ HeadReturned
  /\ HeadIsSound
  /\ SnapshotConsistent
  /\ InstallingCurrent

-----------------------------------------------------------------------------
LEMMA ReplayInitInv == ReplayInit => ReplayInv
<1> SUFFICES ASSUME ReplayInit PROVE ReplayInv
  OBVIOUS
<1>1. ReplayTypeOK
  <2>1. [r \in Runs |-> EmptySnapshot] \in [Runs -> Snapshots]
    BY DEF EmptySnapshot, Snapshots
  <2>2. 0 \in 0 .. MaxReplayFaults
    BY ReplayConstants
  <2> QED
    BY <2>1, <2>2 DEF ReplayInit, ReplayTypeOK, Statuses
<1>2. LockExclusive /\ HeadReturned /\ HeadIsSound
  BY DEF ReplayInit, Holding, LockExclusive, HeadReturned, HeadIsSound
<1>3. SnapshotConsistent /\ InstallingCurrent
  BY DEF ReplayInit, SnapshotConsistent, InstallingCurrent, EmptySnapshot
<1> QED
  BY <1>1, <1>2, <1>3 DEF ReplayInv

LEMMA ReplayTypeStep ==
  ReplayTypeOK /\ [ReplayNext]_replayVars => ReplayTypeOK'
<1> SUFFICES ASSUME ReplayTypeOK, [ReplayNext]_replayVars PROVE ReplayTypeOK'
  OBVIOUS
<1> USE DEF ReplayTypeOK, LedgerSequences, Statuses, ledgerVars, runVars
<1>1. ASSUME NEW e \in LedgerSequences, CommitEvent(e) PROVE ReplayTypeOK'
  BY <1>1 DEF CommitEvent
<1>2. CASE ChangeLiveTables
  BY <1>2 DEF ChangeLiveTables
<1>3. ASSUME NEW r \in Runs, Start(r) PROVE ReplayTypeOK'
  BY <1>3 DEF Start
<1>4. ASSUME NEW r \in Runs, Begin(r) PROVE ReplayTypeOK'
  BY <1>4 DEF Begin, Snapshots
<1>5. ASSUME NEW r \in Runs,
             \/ TakeLock(r)
             \/ RefuseGeneration(r)
             \/ InstallGeneration(r)
             \/ InstallConflict(r)
      PROVE  ReplayTypeOK'
  BY <1>5 DEF TakeLock, RefuseGeneration, InstallGeneration, InstallConflict
<1>6. ASSUME NEW r \in Runs, RecordFailure(r) PROVE ReplayTypeOK'
  BY <1>6 DEF RecordFailure
<1>7. ASSUME NEW r \in Runs, CommitGeneration(r) PROVE ReplayTypeOK'
  BY <1>7 DEF CommitGeneration, Snapshots
<1>8. ASSUME NEW r \in Runs, Fail(r) PROVE ReplayTypeOK'
  BY <1>8, ReplayConstants DEF Fail
<1>9. CASE UNCHANGED replayVars
  BY <1>9 DEF replayVars
<1> QED
  BY <1>1, <1>2, <1>3, <1>4, <1>5, <1>6, <1>7, <1>8, <1>9
  DEF ReplayNext, ReplayStep

\* The commit of a generation, the one step that moves the head.
LEMMA CommitStep ==
  ASSUME ReplayInv, ReplayTypeOK', NEW r \in Runs, CommitGeneration(r)
  PROVE  /\ ReplayInv'
         /\ head # NoRun => built[head] \subseteq built'[head']
<1>1. /\ pc[r] = "installed" /\ head' = r /\ pc'[r] = "returned"
      /\ built' = [built EXCEPT ![r] = snapshot[r].ledger]
      /\ status' = [status EXCEPT ![r] = "succeeded"]
      /\ pc' = [pc EXCEPT ![r] = "returned"]
      /\ UNCHANGED <<ledger, unknown, snapshot>>
      /\ r # NoRun
  BY ReplayConstants DEF CommitGeneration, ledgerVars, ReplayInv, ReplayTypeOK
<1>2. head = snapshot[r].head /\ Unknown(r) = {}
  BY <1>1 DEF ReplayInv, InstallingCurrent
<1>3. head # NoRun => head # r /\ built[head] \subseteq snapshot[r].ledger
  BY <1>1, <1>2 DEF ReplayInv, HeadReturned, SnapshotConsistent
<1>4. built'[r] = snapshot[r].ledger /\ status'[r] = "succeeded"
  BY <1>1 DEF ReplayInv, ReplayTypeOK
<1>5. head # NoRun => built[head] \subseteq built'[head']
  BY <1>1, <1>3, <1>4
<1>6. LockExclusive'
  BY <1>1 DEF ReplayInv, ReplayTypeOK, LockExclusive, Holding
<1>7. HeadReturned'
  BY <1>1 DEF HeadReturned
<1>8. HeadIsSound'
  <2>1. snapshot[r].ledger \subseteq ledger \ unknown
    BY <1>2 DEF ReplayInv, SnapshotConsistent, Unknown
  <2> QED
    BY <1>1, <1>4, <2>1 DEF HeadIsSound
<1>9. SnapshotConsistent'
  BY <1>1 DEF ReplayInv, ReplayTypeOK, SnapshotConsistent, Snapshots
<1>10. InstallingCurrent'
  BY <1>1 DEF ReplayInv, ReplayTypeOK, InstallingCurrent, LockExclusive, Holding
<1> QED
  BY <1>5, <1>6, <1>7, <1>8, <1>9, <1>10 DEF ReplayInv

\* No other step changes a built generation or the head.
LEMMA OtherStep ==
  ASSUME ReplayInv, ReplayTypeOK', [ReplayNext]_replayVars,
         \A r \in Runs : ~CommitGeneration(r)
  PROVE  ReplayInv' /\ UNCHANGED <<built, head>>
<1> USE ReplayConstants DEF ledgerVars, runVars
<1>1. ASSUME NEW e \in LedgerSequences, CommitEvent(e)
      PROVE  ReplayInv' /\ UNCHANGED <<built, head>>
  <2>1. /\ e \notin ledger /\ ledger' = ledger \cup {e}
        /\ unknown' \in {unknown, unknown \cup {e}}
        /\ UNCHANGED <<runVars, pc, snapshot>>
    BY <1>1 DEF CommitEvent
  <2>2. \A r \in Runs : Unknown(r)' = Unknown(r)
    BY <2>1 DEF Unknown, ReplayInv, SnapshotConsistent
  <2>3. LockExclusive' /\ HeadReturned' /\ InstallingCurrent'
    BY <2>1, <2>2 DEF ReplayInv, LockExclusive, Holding, HeadReturned,
                      InstallingCurrent
  <2>4. HeadIsSound'
    BY <2>1 DEF ReplayInv, HeadIsSound
  <2>5. SnapshotConsistent'
    BY <2>1 DEF ReplayInv, SnapshotConsistent
  <2> QED
    BY <2>1, <2>3, <2>4, <2>5 DEF ReplayInv
<1>2. CASE ChangeLiveTables
  BY <1>2 DEF ChangeLiveTables, ReplayInv, LockExclusive, Holding,
              HeadReturned, HeadIsSound, SnapshotConsistent, InstallingCurrent, Unknown
<1>3. ASSUME NEW r \in Runs,
             pc' = [pc EXCEPT ![r] = "returned"]
               \/ (pc'  = [pc EXCEPT ![r] = "failing"] /\ pc[r] = "locked")
               \/ (pc'  = [pc EXCEPT ![r] = "started"] /\ pc[r] = "idle"),
             pc[r] # "returned",
             status' = status \/ \E v : status' = [status EXCEPT ![r] = v],
             UNCHANGED <<ledger, unknown, built, head, snapshot>>
      PROVE  ReplayInv'
  <2>1. LockExclusive' /\ HeadReturned'
    BY <1>3 DEF ReplayInv, ReplayTypeOK, LockExclusive, Holding, HeadReturned
  <2>2. HeadIsSound'
    BY <1>3 DEF ReplayInv, ReplayTypeOK, HeadIsSound, HeadReturned
  <2>3. SnapshotConsistent'
    BY <1>3 DEF ReplayInv, ReplayTypeOK, SnapshotConsistent, Snapshots
  <2>4. InstallingCurrent'
    BY <1>3 DEF ReplayInv, ReplayTypeOK, InstallingCurrent, Unknown
  <2> QED
    BY <2>1, <2>2, <2>3, <2>4 DEF ReplayInv
<1>4. ASSUME NEW r \in Runs, Start(r)
      PROVE  ReplayInv' /\ UNCHANGED <<built, head>>
  BY <1>3, <1>4 DEF Start
<1>5. ASSUME NEW r \in Runs, Begin(r)
      PROVE  ReplayInv' /\ UNCHANGED <<built, head>>
  <2>1. /\ pc[r] = "started" /\ pc' = [pc EXCEPT ![r] = "waiting"]
        /\ snapshot' = [snapshot EXCEPT ![r] =
             [ledger |-> ledger, drifted |-> drifted, head |-> head]]
        /\ UNCHANGED <<ledgerVars, runVars>>
    BY <1>5 DEF Begin
  <2>2. LockExclusive' /\ HeadReturned' /\ HeadIsSound'
    BY <2>1 DEF ReplayInv, ReplayTypeOK, LockExclusive, Holding,
                HeadReturned, HeadIsSound
  <2>3. SnapshotConsistent'
    <3>1. snapshot'[r].ledger = ledger /\ snapshot'[r].head = head
      BY <2>1 DEF ReplayInv, ReplayTypeOK
    <3>2. head # NoRun => built[head] \subseteq ledger /\ pc'[head] = "returned"
      BY <2>1 DEF ReplayInv, ReplayTypeOK, HeadIsSound, HeadReturned
    <3>3. \A s \in Runs \ {r} : snapshot'[s] = snapshot[s]
      BY <2>1 DEF ReplayInv, ReplayTypeOK
    <3> QED
      BY <2>1, <3>1, <3>2, <3>3
      DEF ReplayInv, ReplayTypeOK, SnapshotConsistent, Snapshots
  <2>4. InstallingCurrent'
    BY <2>1 DEF ReplayInv, ReplayTypeOK, InstallingCurrent, Unknown
  <2> QED
    BY <2>1, <2>2, <2>3, <2>4 DEF ReplayInv
<1>6. ASSUME NEW r \in Runs, TakeLock(r)
      PROVE  ReplayInv' /\ UNCHANGED <<built, head>>
  BY <1>6 DEF TakeLock, LockHeld, ReplayInv, ReplayTypeOK, LockExclusive,
              Holding,
              HeadReturned, HeadIsSound, SnapshotConsistent, Snapshots,
              InstallingCurrent, Unknown
<1>7. ASSUME NEW r \in Runs, RefuseGeneration(r)
      PROVE  ReplayInv' /\ UNCHANGED <<built, head>>
  BY <1>3, <1>7 DEF RefuseGeneration
<1>8. ASSUME NEW r \in Runs, RecordFailure(r)
      PROVE  ReplayInv' /\ UNCHANGED <<built, head>>
  BY <1>3, <1>8 DEF RecordFailure
<1>9. ASSUME NEW r \in Runs, InstallGeneration(r)
      PROVE  ReplayInv' /\ UNCHANGED <<built, head>>
  BY <1>9 DEF InstallGeneration, HeadMoved, Rebuildable, ReplayInv,
              ReplayTypeOK,
              LockExclusive, Holding, HeadReturned, HeadIsSound,
              SnapshotConsistent, Snapshots, InstallingCurrent, Unknown
<1>10. ASSUME NEW r \in Runs, InstallConflict(r)
       PROVE  ReplayInv' /\ UNCHANGED <<built, head>>
  BY <1>3, <1>10 DEF InstallConflict
<1>11. ASSUME NEW r \in Runs, Fail(r)
       PROVE  ReplayInv' /\ UNCHANGED <<built, head>>
  BY <1>3, <1>11 DEF Fail
<1>12. CASE UNCHANGED replayVars
  BY <1>12 DEF replayVars, ReplayInv, LockExclusive, Holding, HeadReturned,
               HeadIsSound, SnapshotConsistent, InstallingCurrent, Unknown
<1> QED
  BY <1>1, <1>2, <1>4, <1>5, <1>6, <1>7, <1>8, <1>9, <1>10, <1>11, <1>12
  DEF ReplayNext, ReplayStep

LEMMA ReplayInvStep == ReplayInv /\ [ReplayNext]_replayVars => ReplayInv'
  BY ReplayTypeStep, CommitStep, OtherStep DEF ReplayInv

LEMMA ReplayInvariance == ReplaySpec => []ReplayInv
  BY ReplayInitInv, ReplayInvStep, PTL DEF ReplaySpec

-----------------------------------------------------------------------------
(* Every variable of a replay keeps its type.                              *)
THEOREM ReplayTypeCorrect == ReplaySpec => []ReplayTypeOK
<1>1. ReplayInv => ReplayTypeOK
  BY DEF ReplayInv
<1> QED
  BY <1>1, ReplayInvariance, PTL

(* The head always names a generation that is recorded as succeeded and    *)
(* was rebuilt from committed events that can all be applied.              *)
THEOREM HeadAlwaysSound == ReplaySpec => []HeadIsSound
<1>1. ReplayInv => HeadIsSound
  BY DEF ReplayInv
<1> QED
  BY <1>1, ReplayInvariance, PTL

(* However many replays overlap, replacing the head never loses an event.  *)
THEOREM HeadOnlyGrows == ReplaySpec => HeadNeverBack
<1>1. ReplayInv /\ [ReplayNext]_replayVars =>
        [head # NoRun => /\ head' # NoRun
                         /\ built[head] \subseteq built'[head']]_replayVars
  <2> SUFFICES ASSUME ReplayInv, [ReplayNext]_replayVars, head # NoRun
               PROVE  head' # NoRun /\ built[head] \subseteq built'[head']
    OBVIOUS
  <2>1. ReplayTypeOK'
    BY ReplayTypeStep DEF ReplayInv
  <2>2. ASSUME NEW r \in Runs, CommitGeneration(r)
        PROVE  head' # NoRun /\ built[head] \subseteq built'[head']
    BY <2>1, <2>2, CommitStep, ReplayConstants DEF CommitGeneration
  <2>3. CASE \A r \in Runs : ~CommitGeneration(r)
    BY <2>1, <2>3, OtherStep
  <2> QED
    BY <2>2, <2>3
<1> QED
  BY <1>1, ReplayInvariance, PTL DEF ReplaySpec, HeadNeverBack
=============================================================================
