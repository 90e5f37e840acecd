----------------------------- MODULE ReplayRuns -----------------------------
(***************************************************************************)
(* Shadow replay of Workplane (DurableStore.Replay, internal/app/durable.go *)
(* and migrations/000003).                                                 *)
(*                                                                         *)
(* A replay first commits its projection_replay_runs row as 'building'.    *)
(* Then one SERIALIZABLE transaction waits for the replay advisory lock,   *)
(* rebuilds every projection from the ledger, compares the result with the *)
(* live tables, and replaces the projection head.  As in CommandTx the     *)
(* snapshot is taken when the lock statement starts, so a replay that      *)
(* waited for another rebuilds the ledger as it was before; the upsert of  *)
(* the head then meets a row its snapshot does not show and fails with     *)
(* 40001.  A generation that cannot be rebuilt is rolled back and recorded *)
(* as 'failed' by a statement of its own; any other error just returns.    *)
(*                                                                         *)
(* rebuildSnapshot is abstracted to its verdict: the ledger has an event   *)
(* it cannot apply, the result differs from the live tables, or neither.   *)
(***************************************************************************)
EXTENDS Naturals

CONSTANTS
  Runs,           \* replay run identifiers, one per call of Replay
  NoRun,          \* projection_heads has no row
  MaxLedger,      \* bound: the largest event sequence
  MaxReplayFaults \* bound: database errors and crashes

ASSUME ReplayConstants ==
  /\ NoRun \notin Runs
  /\ MaxLedger \in Nat
  /\ MaxReplayFaults \in Nat

VARIABLES
  ledger,    \* domain_events: committed sequences
  unknown,   \* sequences of events rebuildSnapshot cannot apply
  drifted,   \* the live tables differ from what the ledger rebuilds
  status,    \* status[r]: projection_replay_runs.status, "absent" without a row
  built,     \* built[r]: the events generation r was rebuilt from
  head,      \* the run projection_heads names
  pc,        \* pc[r]: where the call stands
  snapshot,  \* snapshot[r]: what its transaction sees
  replayFaults  \* faults so far

ledgerVars == <<ledger, unknown, drifted>>
runVars == <<status, built, head>>
replayVars == <<ledgerVars, runVars, pc, snapshot, replayFaults>>

LedgerSequences == 1 .. MaxLedger

Statuses == {"absent", "building", "succeeded", "failed"}

Snapshots == [ledger : SUBSET LedgerSequences, drifted : BOOLEAN,
              head : Runs \cup {NoRun}]

ReplayTypeOK ==
  /\ ledger \subseteq LedgerSequences
  /\ unknown \subseteq ledger
  /\ drifted \in BOOLEAN
  /\ status \in [Runs -> Statuses]
  /\ built \in [Runs -> SUBSET LedgerSequences]
  /\ head \in Runs \cup {NoRun}
  /\ pc \in [Runs -> {"idle", "started", "waiting", "locked", "failing",
                      "installed", "returned"}]
  /\ snapshot \in [Runs -> Snapshots]
  /\ replayFaults \in 0 .. MaxReplayFaults

EmptySnapshot == [ledger |-> {}, drifted |-> FALSE, head |-> NoRun]

-----------------------------------------------------------------------------
(* The ledger and the live tables, which other transactions change.        *)

\* Events commit in any order of their sequences (Outbox.tla); one may have a
\* schema version or a payload this build does not know.
CommitEvent(e) ==
  /\ e \notin ledger
  /\ ledger' = ledger \cup {e}
  /\ unknown' \in {unknown, unknown \cup {e}}
  /\ UNCHANGED <<drifted, runVars, pc, snapshot, replayFaults>>

\* A projection row appears without its event, or is repaired.
ChangeLiveTables ==
  /\ drifted' = ~drifted
  /\ UNCHANGED <<ledger, unknown, runVars, pc, snapshot, replayFaults>>

-----------------------------------------------------------------------------
(* DurableStore.Replay.                                                    *)

\* INSERT ... 'building', committed on its own.
Start(r) ==
  /\ pc[r] = "idle"
  /\ status' = [status EXCEPT ![r] = "building"]
  /\ pc' = [pc EXCEPT ![r] = "started"]
  /\ UNCHANGED <<ledgerVars, built, head, snapshot, replayFaults>>

\* BeginTx, and the snapshot of the advisory lock statement.
Begin(r) ==
  /\ pc[r] = "started"
  /\ snapshot' = [snapshot EXCEPT ![r] =
       [ledger |-> ledger, drifted |-> drifted, head |-> head]]
  /\ pc' = [pc EXCEPT ![r] = "waiting"]
  /\ UNCHANGED <<ledgerVars, runVars, replayFaults>>

\* Another open transaction holds 'workplane-projection-replay'.
LockHeld == \E r \in Runs : pc[r] \in {"locked", "installed"}

TakeLock(r) ==
  /\ pc[r] = "waiting"
  /\ ~LockHeld
  /\ pc' = [pc EXCEPT ![r] = "locked"]
  /\ UNCHANGED <<ledgerVars, runVars, snapshot, replayFaults>>

\* The events of its snapshot that r cannot apply.
Unknown(r) == snapshot[r].ledger \cap unknown

\* Faulty variant: an unknown event is skipped, and the checksum of the live
\* tables is not compared.
RebuildableAlways(r) == TRUE

\* rebuildSnapshot succeeds and both checksums agree.
Rebuildable(r) == Unknown(r) = {} /\ ~snapshot[r].drifted

\* The generation is refused: roll back.
RefuseGeneration(r) ==
  /\ pc[r] = "locked"
  /\ ~Rebuildable(r)
  /\ pc' = [pc EXCEPT ![r] = "failing"]
  /\ UNCHANGED <<ledgerVars, runVars, snapshot, replayFaults>>

\* persistReplayFailure, a statement outside any transaction.  The sequence
\* and the code it records are left out.
RecordFailure(r) ==
  /\ pc[r] = "failing"
  /\ status' = [status EXCEPT ![r] = "failed"]
  /\ pc' = [pc EXCEPT ![r] = "returned"]
  /\ UNCHANGED <<ledgerVars, built, head, snapshot, replayFaults>>

\* Faulty variant: READ COMMITTED, where the upsert replaces whatever is there.
HeadNeverMoved(r) == FALSE

\* projection_heads changed after r's snapshot.
HeadMoved(r) == head # snapshot[r].head

\* Write the shadow tables, 'succeeded' and the head, not yet visible.
InstallGeneration(r) ==
  /\ pc[r] = "locked"
  /\ Rebuildable(r)
  /\ ~HeadMoved(r)
  /\ pc' = [pc EXCEPT ![r] = "installed"]
  /\ UNCHANGED <<ledgerVars, runVars, snapshot, replayFaults>>

\* The upsert of the head fails with 40001: roll back and return the error.
InstallConflict(r) ==
  /\ pc[r] = "locked"
  /\ Rebuildable(r)
  /\ HeadMoved(r)
  /\ pc' = [pc EXCEPT ![r] = "returned"]
  /\ UNCHANGED <<ledgerVars, runVars, snapshot, replayFaults>>

\* tx.Commit: the run, its shadow tables and the head become visible at once.
CommitGeneration(r) ==
  /\ pc[r] = "installed"
  /\ status' = [status EXCEPT ![r] = "succeeded"]
  /\ built' = [built EXCEPT ![r] = snapshot[r].ledger]
  /\ head' = r
  /\ pc' = [pc EXCEPT ![r] = "returned"]
  /\ UNCHANGED <<ledgerVars, snapshot, replayFaults>>

\* A database error at any statement, or the end of the process: an open
\* transaction rolls back and nothing else is written.
Fail(r) ==
  /\ pc[r] \notin {"idle", "returned"}
  /\ replayFaults < MaxReplayFaults
  /\ replayFaults' = replayFaults + 1
  /\ pc' = [pc EXCEPT ![r] = "returned"]
  /\ UNCHANGED <<ledgerVars, runVars, snapshot>>

-----------------------------------------------------------------------------
ReplayInit ==
  /\ ledger = {}
  /\ unknown = {}
  /\ drifted = FALSE
  /\ status = [r \in Runs |-> "absent"]
  /\ built = [r \in Runs |-> {}]
  /\ head = NoRun
  /\ pc = [r \in Runs |-> "idle"]
  /\ snapshot = [r \in Runs |-> EmptySnapshot]
  /\ replayFaults = 0

ReplayStep(r) ==
  \/ Begin(r)
  \/ TakeLock(r)
  \/ RefuseGeneration(r)
  \/ RecordFailure(r)
  \/ InstallGeneration(r)
  \/ InstallConflict(r)
  \/ CommitGeneration(r)

ReplayNext ==
  \/ \E e \in LedgerSequences : CommitEvent(e)
  \/ ChangeLiveTables
  \/ \E r \in Runs : Start(r) \/ ReplayStep(r) \/ Fail(r)

ReplaySpec == ReplayInit /\ [][ReplayNext]_replayVars

-----------------------------------------------------------------------------
(* Properties.                                                             *)

\* The head never loses an event that it covered: a replay whose snapshot is
\* older than the head it would replace does not install, although it holds
\* the lock and its own checksums agree.
HeadNeverBack ==
  [][head # NoRun => /\ head' # NoRun
                     /\ built[head] \subseteq built'[head']]_replayVars

\* The head names a generation that is recorded as succeeded and was rebuilt
\* from events that can all be applied, and a run recorded as failed is never
\* the head, whatever fails between the statements of a replay.
HeadIsSound ==
  head # NoRun =>
    /\ status[head] = "succeeded"
    /\ built[head] \subseteq ledger \ unknown
=============================================================================
