------------------------------- MODULE Outbox -------------------------------
(***************************************************************************)
(* The transactional outbox of Workplane (internal/app/durable.go and      *)
(* migrations/000002, 000003 and 000005).                                  *)
(*                                                                         *)
(* A command transaction inserts domain events.  Each takes its sequence   *)
(* from an identity column, which is not rolled back, so commit order and  *)
(* sequence order differ and aborted commands leave gaps.  Triggers write  *)
(* the outbox record and one delivery row per consumer the transaction     *)
(* sees.  On every host one loop per consumer claims a row under a lease,  *)
(* publishes it, and then, holding the consumer's checkpoint row and a     *)
(* SHARE lock on domain_events (the commit horizon), advances the          *)
(* checkpoint and acknowledges the row in one transaction.                 *)
(*                                                                         *)
(* Every action is one database transaction, or the part of one between    *)
(* two points where other transactions can intervene.  Events are named by *)
(* their sequence.  Time is abstracted: a lease is held or has lapsed, an  *)
(* event's available_at is in the future of the outbox clock or is not.    *)
(***************************************************************************)
EXTENDS Naturals, FiniteSets

CONSTANTS
  Consumers,   \* outbox consumers, e.g. projection-v1 and realtime-v1
  Migrated,    \* the consumers the migrations register
  Hosts,       \* outbox processes; a loop's worker name is host:consumer
  Writers,     \* API connections that run command transactions
  NoHost,      \* lease_owner IS NULL
  MaxSequence, \* bound: the largest sequence a run allocates
  MaxFaults    \* bound: crashes, and leases that lapse under a live loop

ASSUME OutboxConstants ==
  /\ Migrated \subseteq Consumers
  /\ NoHost \notin Hosts
  /\ MaxSequence \in Nat
  /\ MaxFaults \in Nat

VARIABLES
  nextSequence,  \* the identity generator of domain_events
  inserted,      \* inserted[w]: sequences w's open transaction has allocated
  sees,          \* sees[w]: consumers in the snapshot of w's transaction
  running,       \* the writers with an open command transaction
  committed,     \* outbox_records: the committed events
  ahead,         \* committed events whose available_at is still to come
  registered,    \* outbox_consumers
  enrolling,     \* consumers with an open EnsureConsumer transaction
  backfill,      \* backfill[c]: the events in that transaction's snapshot
  seeded,        \* seeded[c]: events with an outbox_delivery_state row
  owner,         \* owner[c][e]: lease_owner of that row
  lapsed,        \* lapsed[c]: leased events whose lease_until has passed
  acked,         \* acked[c]: events with delivered_at set
  delivered,     \* delivered[c]: consumer_deliveries, the logical effects
  checkpoint,    \* checkpoint[c]: consumer_checkpoints.last_sequence
  phase,         \* phase[c][h]: where host h's loop for c stands
  job,           \* job[c][h]: the event it works on, 0 when idle
  faults         \* faults so far

writerVars == <<nextSequence, inserted, sees, running>>
enrolVars  == <<registered, enrolling, backfill>>
rowVars    == <<seeded, owner, lapsed, acked>>
loopVars   == <<phase, job>>
vars == <<writerVars, committed, ahead, enrolVars, rowVars, delivered,
          checkpoint, loopVars, faults>>

Sequences == 1 .. MaxSequence

Phases == {"idle", "claiming", "claimed", "published", "serialized", "horizon"}

TypeOK ==
  /\ nextSequence \in 1 .. MaxSequence + 1
  /\ inserted \in [Writers -> SUBSET Sequences]
  /\ sees \in [Writers -> SUBSET Consumers]
  /\ running \subseteq Writers
  /\ committed \subseteq Sequences
  /\ ahead \subseteq Sequences
  /\ registered \subseteq Consumers
  /\ enrolling \subseteq Consumers
  /\ backfill \in [Consumers -> SUBSET Sequences]
  /\ seeded \in [Consumers -> SUBSET Sequences]
  /\ owner \in [Consumers -> [Sequences -> Hosts \cup {NoHost}]]
  /\ lapsed \in [Consumers -> SUBSET Sequences]
  /\ acked \in [Consumers -> SUBSET Sequences]
  /\ delivered \in [Consumers -> SUBSET Sequences]
  /\ checkpoint \in [Consumers -> 0 .. MaxSequence]
  /\ phase \in [Consumers -> [Hosts -> Phases]]
  /\ job \in [Consumers -> [Hosts -> 0 .. MaxSequence]]
  /\ faults \in 0 .. MaxFaults

-----------------------------------------------------------------------------
(* Command transactions: the writers of domain_events.                     *)

\* Some checkpoint transaction holds SHARE on domain_events.
HorizonHeld == \E c \in Consumers, h \in Hosts : phase[c][h] = "horizon"

\* Some command transaction holds ROW EXCLUSIVE on domain_events.
WriterActive == \E w \in Writers : inserted[w] # {}

\* BeginTx(LevelSerializable); the first statement takes the snapshot.
BeginCommand(w) ==
  /\ w \notin running
  /\ nextSequence <= MaxSequence
  /\ running' = running \cup {w}
  /\ sees' = [sees EXCEPT ![w] = registered]
  /\ UNCHANGED <<nextSequence, inserted, committed, ahead, enrolVars, rowVars,
                 delivered, checkpoint, loopVars, faults>>

\* insertEvent.  The first INSERT of a transaction waits for the SHARE locks;
\* a transaction that already holds ROW EXCLUSIVE does not queue again.
InsertEvent(w) ==
  /\ w \in running
  /\ nextSequence <= MaxSequence
  /\ inserted[w] # {} \/ ~HorizonHeld
  /\ inserted' = [inserted EXCEPT ![w] = @ \cup {nextSequence}]
  /\ nextSequence' = nextSequence + 1
  /\ UNCHANGED <<sees, running, committed, ahead, enrolVars, rowVars,
                 delivered, checkpoint, loopVars, faults>>

\* Serializable isolation: a command whose trigger read outbox_consumers
\* before a registration that did not backfill its events cannot commit.
CommandSerializable(w) == registered \subseteq sees[w]

\* tx.Commit.  The triggers' rows become visible with the events, which are
\* available to the outbox at once unless the API clock runs ahead of its.
CommitCommand(w) ==
  /\ inserted[w] # {}
  /\ CommandSerializable(w)
  /\ committed' = committed \cup inserted[w]
  /\ \E future \in {{}, inserted[w]} : ahead' = ahead \cup future
  /\ seeded' = [c \in Consumers |->
                  IF c \in sees[w] THEN seeded[c] \cup inserted[w]
                                   ELSE seeded[c]]
  /\ inserted' = [inserted EXCEPT ![w] = {}]
  /\ running' = running \ {w}
  /\ UNCHANGED <<nextSequence, sees, enrolVars, owner, lapsed, acked,
                 delivered, checkpoint, loopVars, faults>>

\* Any rejection, error or serialization failure: the allocated sequences
\* are never used again.
AbortCommand(w) ==
  /\ w \in running
  /\ inserted' = [inserted EXCEPT ![w] = {}]
  /\ running' = running \ {w}
  /\ UNCHANGED <<nextSequence, sees, committed, ahead, enrolVars, rowVars,
                 delivered, checkpoint, loopVars, faults>>

\* The outbox host's clock reaches available_at.
BecomesAvailable(e) ==
  /\ e \in ahead
  /\ ahead' = ahead \ {e}
  /\ UNCHANGED <<writerVars, committed, enrolVars, rowVars, delivered,
                 checkpoint, loopVars, faults>>

-----------------------------------------------------------------------------
(* EnsureConsumer: register a consumer and give it the existing events.    *)

BeginEnrol(c) ==
  /\ c \notin registered \cup enrolling
  /\ enrolling' = enrolling \cup {c}
  /\ backfill' = [backfill EXCEPT ![c] = committed]
  /\ UNCHANGED <<writerVars, committed, ahead, registered, rowVars, delivered,
                 checkpoint, loopVars, faults>>

\* Serializable isolation, seen from the registration: a command that
\* committed since the snapshot did not seed c and was not backfilled.
EnrolSerializable(c) == committed \subseteq backfill[c]

CommitEnrol(c) ==
  /\ c \in enrolling
  /\ EnrolSerializable(c)
  /\ registered' = registered \cup {c}
  /\ enrolling' = enrolling \ {c}
  /\ seeded' = [seeded EXCEPT ![c] = @ \cup backfill[c]]
  /\ UNCHANGED <<writerVars, committed, ahead, backfill, owner, lapsed, acked,
                 delivered, checkpoint, loopVars, faults>>

\* The registration fails and the loop that asked for it tries again later.
AbortEnrol(c) ==
  /\ c \in enrolling
  /\ enrolling' = enrolling \ {c}
  /\ UNCHANGED <<writerVars, committed, ahead, registered, backfill, rowVars,
                 delivered, checkpoint, loopVars, faults>>

-----------------------------------------------------------------------------
(* RunOutboxOnce on host h for consumer c: claim, publish, checkpoint.     *)

\* The row of e is locked by another host's claim that has not committed.
RowLocked(c, e) == \E h \in Hosts : phase[c][h] = "claiming" /\ job[c][h] = e

\* Faulty variant: the claim forgets rows whose lease has passed.
EligibleUnleased(c) ==
  {e \in seeded[c] \ (acked[c] \cup ahead) :
     owner[c][e] = NoHost /\ ~RowLocked(c, e)}

\* Rows the claim query may take: undelivered, due, and under no live lease.
Eligible(c) ==
  {e \in seeded[c] \ (acked[c] \cup ahead) :
     (owner[c][e] = NoHost \/ e \in lapsed[c]) /\ ~RowLocked(c, e)}

\* SELECT ... ORDER BY event_sequence FOR UPDATE SKIP LOCKED LIMIT 1.
ClaimSelect(c, h) ==
  /\ c \in registered
  /\ phase[c][h] = "idle"
  /\ \E e \in Eligible(c) :
       /\ \A other \in Eligible(c) : e <= other
       /\ job' = [job EXCEPT ![c][h] = e]
  /\ phase' = [phase EXCEPT ![c][h] = "claiming"]
  /\ UNCHANGED <<writerVars, committed, ahead, enrolVars, rowVars, delivered,
                 checkpoint, faults>>

\* ErrNoOutbox: the loop waits for its poll interval and asks again.
NothingToClaim(c, h) ==
  /\ c \in registered
  /\ phase[c][h] = "idle"
  /\ Eligible(c) = {}
  /\ UNCHANGED vars

\* The lease becomes visible.
ClaimCommit(c, h) ==
  /\ phase[c][h] = "claiming"
  /\ owner' = [owner EXCEPT ![c][job[c][h]] = h]
  /\ lapsed' = [lapsed EXCEPT ![c] = @ \ {job[c][h]}]
  /\ phase' = [phase EXCEPT ![c][h] = "claimed"]
  /\ UNCHANGED <<writerVars, committed, ahead, enrolVars, seeded, acked,
                 delivered, checkpoint, job, faults>>

\* The logical effect.  ON CONFLICT DO NOTHING makes a second publication of
\* the same event a duplicate attempt; the lease is not consulted.
Publish(c, h) ==
  /\ phase[c][h] = "claimed"
  /\ delivered' = [delivered EXCEPT ![c] = @ \cup {job[c][h]}]
  /\ phase' = [phase EXCEPT ![c][h] = "published"]
  /\ UNCHANGED <<writerVars, committed, ahead, enrolVars, rowVars, checkpoint,
                 job, faults>>

\* SELECT last_sequence ... FOR UPDATE: one checkpoint transaction per consumer.
LockCheckpoint(c, h) ==
  /\ phase[c][h] = "published"
  /\ \A other \in Hosts : phase[c][other] \notin {"serialized", "horizon"}
  /\ phase' = [phase EXCEPT ![c][h] = "serialized"]
  /\ UNCHANGED <<writerVars, committed, ahead, enrolVars, rowVars, delivered,
                 checkpoint, job, faults>>

\* Faulty variant: the checkpoint transaction before migration 000005.
LockNoHorizon(c, h) ==
  /\ phase[c][h] = "serialized"
  /\ phase' = [phase EXCEPT ![c][h] = "horizon"]
  /\ UNCHANGED <<writerVars, committed, ahead, enrolVars, rowVars, delivered,
                 checkpoint, job, faults>>

\* lock_domain_event_commit_horizon: wait for every open command that has
\* inserted an event.
LockCommitHorizon(c, h) ==
  /\ phase[c][h] = "serialized"
  /\ ~WriterActive
  /\ phase' = [phase EXCEPT ![c][h] = "horizon"]
  /\ UNCHANGED <<writerVars, committed, ahead, enrolVars, rowVars, delivered,
                 checkpoint, job, faults>>

\* Faulty variant: the query asks nothing.
MissingNothing(c, e) == FALSE

\* The missingEarlier query: a committed lower event without an effect.
MissingEarlier(c, e) == \E earlier \in committed \ delivered[c] : earlier < e

\* WHERE lease_owner=$3 AND delivered_at IS NULL.
HoldsLease(c, h, e) == owner[c][e] = h /\ e \notin acked[c]

\* Faulty variant: the checkpoint follows the acknowledged row even backwards.
AcknowledgeAnyDirection(c, h) ==
  LET e == job[c][h] IN
  /\ phase[c][h] = "horizon"
  /\ ~RowLocked(c, e)
  /\ ~MissingEarlier(c, e)
  /\ HoldsLease(c, h, e)
  /\ checkpoint' = [checkpoint EXCEPT ![c] = e]
  /\ acked' = [acked EXCEPT ![c] = @ \cup {e}]
  /\ owner' = [owner EXCEPT ![c][e] = NoHost]
  /\ lapsed' = [lapsed EXCEPT ![c] = @ \ {e}]
  /\ phase' = [phase EXCEPT ![c][h] = "idle"]
  /\ job' = [job EXCEPT ![c][h] = 0]
  /\ UNCHANGED <<writerVars, committed, ahead, enrolVars, seeded, delivered,
                 faults>>

\* Advance the checkpoint and acknowledge the row, in one commit.
Acknowledge(c, h) ==
  LET e == job[c][h] IN
  /\ phase[c][h] = "horizon"
  /\ ~RowLocked(c, e)
  /\ ~MissingEarlier(c, e)
  /\ HoldsLease(c, h, e)
  /\ checkpoint' = [checkpoint EXCEPT ![c] = IF e > @ THEN e ELSE @]
  /\ acked' = [acked EXCEPT ![c] = @ \cup {e}]
  /\ owner' = [owner EXCEPT ![c][e] = NoHost]
  /\ lapsed' = [lapsed EXCEPT ![c] = @ \ {e}]
  /\ phase' = [phase EXCEPT ![c][h] = "idle"]
  /\ job' = [job EXCEPT ![c][h] = 0]
  /\ UNCHANGED <<writerVars, committed, ahead, enrolVars, seeded, delivered,
                 faults>>

\* ErrOutOfOrder: give the lease back, leave the effect, and claim again.
ReleaseOutOfOrder(c, h) ==
  LET e == job[c][h] IN
  /\ phase[c][h] = "horizon"
  /\ ~RowLocked(c, e)
  /\ MissingEarlier(c, e)
  /\ HoldsLease(c, h, e)
  /\ owner' = [owner EXCEPT ![c][e] = NoHost]
  /\ lapsed' = [lapsed EXCEPT ![c] = @ \ {e}]
  /\ phase' = [phase EXCEPT ![c][h] = "idle"]
  /\ job' = [job EXCEPT ![c][h] = 0]
  /\ UNCHANGED <<writerVars, committed, ahead, enrolVars, seeded, acked,
                 delivered, checkpoint, faults>>

\* The process of host h stops: every loop's open transaction rolls back.
StopLoops(h) ==
  /\ phase' = [c \in Consumers |-> [phase[c] EXCEPT ![h] = "idle"]]
  /\ job' = [c \in Consumers |-> [job[c] EXCEPT ![h] = 0]]

\* Another host took the row over: the checkpoint transaction rolls back, the
\* loop returns the error and log.Fatal ends the process with all its loops;
\* the supervisor starts it again.
LeaseLost(c, h) ==
  /\ phase[c][h] = "horizon"
  /\ ~RowLocked(c, job[c][h])
  /\ ~HoldsLease(c, h, job[c][h])
  /\ StopLoops(h)
  /\ UNCHANGED <<writerVars, committed, ahead, enrolVars, rowVars, delivered,
                 checkpoint, faults>>

-----------------------------------------------------------------------------
(* Faults and time.                                                        *)

Working(h) == \E c \in Consumers : phase[c][h] # "idle"

\* A crash, a lost connection or any database error ends the process.
Crash(h) ==
  /\ faults < MaxFaults
  /\ Working(h)
  /\ StopLoops(h)
  /\ faults' = faults + 1
  /\ UNCHANGED <<writerVars, committed, ahead, enrolVars, rowVars, delivered,
                 checkpoint>>

\* Some live loop still works on e under the lease that lapses.
LeaseInUse(c, e) ==
  \E h \in Hosts : owner[c][e] = h /\ job[c][h] = e
                   /\ phase[c][h] \notin {"idle", "claiming"}

\* lease_until passes.  That is a fault only if it overtakes a live loop.
LeaseExpires(c, e) ==
  /\ owner[c][e] # NoHost
  /\ e \notin lapsed[c]
  /\ LeaseInUse(c, e) => faults < MaxFaults
  /\ lapsed' = [lapsed EXCEPT ![c] = @ \cup {e}]
  /\ faults' = IF LeaseInUse(c, e) THEN faults + 1 ELSE faults
  /\ UNCHANGED <<writerVars, committed, ahead, enrolVars, seeded, owner,
                 acked, delivered, checkpoint, loopVars>>

-----------------------------------------------------------------------------
Init ==
  /\ nextSequence = 1
  /\ inserted = [w \in Writers |-> {}]
  /\ sees = [w \in Writers |-> {}]
  /\ running = {}
  /\ committed = {}
  /\ ahead = {}
  /\ registered = Migrated
  /\ enrolling = {}
  /\ backfill = [c \in Consumers |-> {}]
  /\ seeded = [c \in Consumers |-> {}]
  /\ owner = [c \in Consumers |-> [e \in Sequences |-> NoHost]]
  /\ lapsed = [c \in Consumers |-> {}]
  /\ acked = [c \in Consumers |-> {}]
  /\ delivered = [c \in Consumers |-> {}]
  /\ checkpoint = [c \in Consumers |-> 0]
  /\ phase = [c \in Consumers |-> [h \in Hosts |-> "idle"]]
  /\ job = [c \in Consumers |-> [h \in Hosts |-> 0]]
  /\ faults = 0

WriterNext(w) ==
  BeginCommand(w) \/ InsertEvent(w) \/ CommitCommand(w) \/ AbortCommand(w)

EnrolNext(c) == BeginEnrol(c) \/ CommitEnrol(c) \/ AbortEnrol(c)

LoopNext(c, h) ==
  \/ ClaimSelect(c, h)
  \/ NothingToClaim(c, h)
  \/ ClaimCommit(c, h)
  \/ Publish(c, h)
  \/ LockCheckpoint(c, h)
  \/ LockCommitHorizon(c, h)
  \/ Acknowledge(c, h)
  \/ ReleaseOutOfOrder(c, h)
  \/ LeaseLost(c, h)

Next ==
  \/ \E w \in Writers : WriterNext(w)
  \/ \E e \in Sequences : BecomesAvailable(e)
  \/ \E c \in Consumers : EnrolNext(c)
  \/ \E c \in Consumers, h \in Hosts : LoopNext(c, h)
  \/ \E h \in Hosts : Crash(h)
  \/ \E c \in Consumers, e \in Sequences : LeaseExpires(c, e)

Spec == Init /\ [][Next]_vars

(***************************************************************************)
(* Fairness.  A command ends, clocks advance, and a loop that is not       *)
(* blocked takes its next step (RunOutboxLoop never waits longer than its  *)
(* poll interval and a stopped process is restarted).  The two lock waits  *)
(* are strongly fair because PostgreSQL queues lock requests: a waiting    *)
(* SHARE request is not overtaken by later writers.                        *)
(***************************************************************************)
Fairness ==
  /\ \A w \in Writers : WF_vars(CommitCommand(w) \/ AbortCommand(w))
  /\ \A e \in Sequences : WF_vars(BecomesAvailable(e))
  /\ \A c \in Consumers, e \in Sequences :
       WF_vars(LeaseExpires(c, e) /\ ~LeaseInUse(c, e))
  /\ \A c \in Consumers, h \in Hosts :
       /\ WF_vars(ClaimSelect(c, h))
       /\ WF_vars(ClaimCommit(c, h))
       /\ WF_vars(Publish(c, h))
       /\ SF_vars(LockCheckpoint(c, h))
       /\ SF_vars(LockCommitHorizon(c, h))
       /\ WF_vars(Acknowledge(c, h) \/ ReleaseOutOfOrder(c, h)
                    \/ LeaseLost(c, h))

FairSpec == Spec /\ Fairness

-----------------------------------------------------------------------------
(* Properties.                                                             *)

\* What RunOutboxOnce takes the commit horizon for: a checkpoint is a claim
\* about every committed event behind it, including events whose transactions
\* were open, or whose sequences were lower, when it was last advanced.
CheckpointCovers ==
  \A c \in registered : \A e \in committed :
    e <= checkpoint[c] => e \in delivered[c]

\* Migration 000005: no transaction commits an event behind a checkpoint that
\* some consumer has already passed, in whatever order sequences commit.
NoLateCommit ==
  [][\A e \in committed' \ committed : \A c \in Consumers :
       checkpoint[c] < e]_vars

\* A consumer registered while commands are in flight has a delivery row for
\* every committed event: the seed trigger and EnsureConsumer's backfill leave
\* no event between them.
SeededEverywhere == \A c \in registered : committed \subseteq seeded[c]

\* An acknowledged row is never claimed again, so it must already have its
\* effect and lie behind the checkpoint, whichever host acknowledged it.
AckBehindCheckpoint ==
  \A c \in Consumers : \A e \in acked[c] :
    e \in delivered[c] /\ e <= checkpoint[c]

\* The outbox implements the committed feed its readers rely on.
Feed == INSTANCE CommittedFeed WITH log <- committed, position <- checkpoint
ImplementsFeed == Feed!FeedSpec

\* Every committed event is eventually acknowledged, with the checkpoint at or
\* past it, for every registered consumer: neither a crash, a lapsed lease, an
\* out-of-order claim nor a gap left by an aborted command stalls the feed.
EventuallyAcknowledged ==
  \A c \in Consumers, e \in Sequences :
    (c \in registered /\ e \in committed)
      ~> (e \in acked[c] /\ checkpoint[c] >= e)
=============================================================================
