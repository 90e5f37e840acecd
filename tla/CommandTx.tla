----------------------------- MODULE CommandTx -----------------------------
(***************************************************************************)
(* Command transactions of Workplane: CreateProject and RecordDecision     *)
(* (internal/app/handlers.go) and the planning and review commands that go *)
(* through executeProjectMutation (internal/app/planning.go).              *)
(*                                                                         *)
(* Each call runs one SERIALIZABLE transaction.  Its first statement takes *)
(* an advisory lock on the idempotency identity, but PostgreSQL takes the  *)
(* transaction's snapshot when that statement STARTS, before it waits: a   *)
(* call that waited for a duplicate reads the database as it was before    *)
(* the duplicate committed.  What then keeps the duplicate from a second   *)
(* effect is the row lock, which fails with 40001 on a row changed since   *)
(* the snapshot, and the primary key of idempotency_results.               *)
(*                                                                         *)
(* Authentication and validation precede Receive; authorization and the    *)
(* commands' own invariants are nondeterministic refusals.  A request      *)
(* stands for its canonical hash: path, body and If-Match.                 *)
(***************************************************************************)
EXTENDS Naturals, FiniteSets

CONSTANTS
  Projects,    \* project identifiers newUUID can return
  Requests,    \* requests: records with op, key, project, expected, events
  Calls,       \* concurrent handler invocations
  NoProject,   \* the project of a call that has none yet
  NoResult,    \* no row in idempotency_results
  Faults,      \* whether a statement may fail or the process crash
  MaxCalls     \* bound: requests received in a run

ASSUME CommandConstants ==
  /\ Requests # {}
  /\ NoProject \notin Projects
  /\ Faults \in BOOLEAN
  /\ MaxCalls \in Nat
  /\ \A r \in Requests :
       /\ r.events \in Nat \ {0}
       /\ r.expected \in Nat
       /\ r.op # "createProject" => r.project \in Projects

VARIABLES
  version,       \* version[p]: projects.version, 0 when there is no row
  applied,       \* committed effects: the rows the commands wrote
  history,       \* domain_events: project, version and sequence
  result,        \* result[i]: the idempotency_results row of identity i
  nextSequence,  \* the identity generator of domain_events
  pc,            \* pc[k]: where call k stands
  request,       \* request[k]: the request it handles, or handled last
  snapshot,      \* snapshot[k]: version and result as its transaction sees them
  target,        \* target[k]: the project it writes
  pending,       \* pending[k]: the events it has inserted
  reply,         \* reply[k]: its last answer
  received       \* requests received so far

dbVars == <<version, applied, history, result>>
callVars == <<pc, request, snapshot, target, pending, reply>>
commandVars == <<dbVars, nextSequence, callVars, received>>

\* (organization, actor,) operation and key: the primary key of
\* idempotency_results and the text the advisory lock hashes.
Identity(r) == <<r.op, r.key>>
Identities == {Identity(r) : r \in Requests}

\* The three handlers; the commands of the last one share
\* executeProjectMutation.
Creates(r) == r.op = "createProject"
Decides(r) == r.op = "recordDecision"
Plans(r) == ~Creates(r) /\ ~Decides(r)

Effects == [request : Requests, project : Projects, from : Nat]

ASSUME NoResultIsNoEffect == NoResult \notin Effects

Statuses == {"none", "success", "not_found", "version_conflict",
             "idempotency_conflict", "rejected", "unavailable"}

CommandTypeOK ==
  /\ version \in [Projects -> Nat]
  /\ applied \subseteq Effects
  /\ history \subseteq [project : Projects, version : Nat, sequence : Nat]
  /\ result \in [Identities -> Effects \cup {NoResult}]
  /\ nextSequence \in Nat
  /\ pc \in [Calls -> {"idle", "waiting", "keyed", "writing", "stored"}]
  /\ request \in [Calls -> Requests]
  /\ snapshot \in [Calls -> [version : [Projects -> Nat],
                             result : [Identities -> Effects \cup {NoResult}]]]
  /\ target \in [Calls -> Projects \cup {NoProject}]
  /\ pending \in [Calls -> SUBSET [project : Projects, version : Nat,
                                   sequence : Nat]]
  /\ reply \in [Calls -> [status : Statuses,
                          result : Effects \cup {NoResult}]]
  /\ received \in 0 .. MaxCalls

EmptyDatabase == [version |-> [p \in Projects |-> 0],
                  result  |-> [i \in Identities |-> NoResult]]

-----------------------------------------------------------------------------
\* The transaction of k ends and its caller is told status, with the result
\* if it succeeded.
Answer(k, status, res) ==
  /\ pc' = [pc EXCEPT ![k] = "idle"]
  /\ reply' = [reply EXCEPT ![k] = [status |-> status, result |-> res]]
  /\ target' = [target EXCEPT ![k] = NoProject]
  /\ pending' = [pending EXCEPT ![k] = {}]
  /\ snapshot' = [snapshot EXCEPT ![k] = EmptyDatabase]
  /\ UNCHANGED <<nextSequence, request, received>>

\* A request passes authentication and validation: BeginTx, and the snapshot
\* of the first statement.
Receive(k, r) ==
  /\ pc[k] = "idle"
  /\ received < MaxCalls
  /\ received' = received + 1
  /\ pc' = [pc EXCEPT ![k] = "waiting"]
  /\ request' = [request EXCEPT ![k] = r]
  /\ snapshot' = [snapshot EXCEPT ![k] = [version |-> version,
                                          result |-> result]]
  /\ UNCHANGED <<dbVars, nextSequence, target, pending, reply>>

\* Faulty variant: a session lock, which outlives the transaction.
KeyLockedBySession(r) ==
  \E k \in Calls : pc[k] # "waiting" /\ Identity(request[k]) = Identity(r)

\* Another open transaction holds the advisory lock of r's identity.
KeyLocked(r) ==
  \E k \in Calls : pc[k] \in {"keyed", "writing", "stored"}
                   /\ Identity(request[k]) = Identity(r)

\* pg_advisory_xact_lock returns.
TakeKeyLock(k) ==
  /\ pc[k] = "waiting"
  /\ ~KeyLocked(request[k])
  /\ pc' = [pc EXCEPT ![k] = "keyed"]
  /\ UNCHANGED <<dbVars, nextSequence, request, snapshot, target, pending,
                 reply, received>>

\* The row of k's identity that its snapshot shows.
SeenResult(k) == snapshot[k].result[Identity(request[k])]

\* Faulty variant: a used key answers whatever the body is.
ReplayAnyBody(k) ==
  /\ pc[k] = "keyed"
  /\ SeenResult(k) # NoResult
  /\ Answer(k, "success", SeenResult(k))
  /\ UNCHANGED dbVars

\* replayIdempotency finds a row with this request's hash.
Replay(k) ==
  /\ pc[k] = "keyed"
  /\ SeenResult(k) # NoResult
  /\ SeenResult(k).request = request[k]
  /\ Answer(k, "success", SeenResult(k))
  /\ UNCHANGED dbVars

\* The key was used with a different request.
KeyConflict(k) ==
  /\ pc[k] = "keyed"
  /\ SeenResult(k) # NoResult
  /\ SeenResult(k).request # request[k]
  /\ Answer(k, "idempotency_conflict", NoResult)
  /\ UNCHANGED dbVars

\* k goes on to execute a command on an existing project.
Executes(k) ==
  pc[k] = "keyed" /\ SeenResult(k) = NoResult /\ ~Creates(request[k])

\* The snapshot has no such project.
ProjectMissing(k) ==
  /\ Executes(k)
  /\ snapshot[k].version[request[k].project] = 0
  /\ Answer(k, "not_found", NoResult)
  /\ UNCHANGED dbVars

\* Another open transaction has locked or updated the row of p.
RowLocked(p) == \E k \in Calls : pc[k] \in {"writing", "stored"} /\ target[k] = p

\* RecordDecision authorizes inside its transaction, before it looks for an
\* earlier result; the other handlers authorize before the transaction.
Deny(k) ==
  /\ pc[k] = "keyed"
  /\ Decides(request[k])
  /\ Answer(k, "rejected", NoResult)
  /\ UNCHANGED dbVars

\* SELECT ... FOR UPDATE can lock the row: it exists in the snapshot and no
\* other transaction holds it.
RowAvailable(k) ==
  /\ Executes(k)
  /\ snapshot[k].version[request[k].project] > 0
  /\ ~RowLocked(request[k].project)

\* Faulty variant: READ COMMITTED, where a waiting SELECT FOR UPDATE goes on
\* with a changed row.
NeverChanged(k) == FALSE

\* The row changed after the snapshot: 40001.
ChangedSinceSnapshot(k) ==
  version[request[k].project] # snapshot[k].version[request[k].project]

\* RecordDecision answers not_found for every scanProject error;
\* planningMutationFailure answers version_conflict for 40001.
RowChanged(k) ==
  /\ RowAvailable(k)
  /\ ChangedSinceSnapshot(k)
  /\ Answer(k, IF Plans(request[k]) THEN "version_conflict" ELSE "not_found",
            NoResult)
  /\ UNCHANGED dbVars

\* If-Match names another version.
VersionConflict(k) ==
  /\ RowAvailable(k)
  /\ ~ChangedSinceSnapshot(k)
  /\ snapshot[k].version[request[k].project] # request[k].expected
  /\ Answer(k, "version_conflict", NoResult)
  /\ UNCHANGED dbVars

\* Faulty variant: a plain SELECT, which neither waits nor locks.
LockRowNever(k) ==
  /\ Executes(k)
  /\ snapshot[k].version[request[k].project] = request[k].expected
  /\ request[k].expected > 0
  /\ pc' = [pc EXCEPT ![k] = "writing"]
  /\ target' = [target EXCEPT ![k] = request[k].project]
  /\ UNCHANGED <<dbVars, nextSequence, request, snapshot, pending, reply,
                 received>>

\* The row is locked at the expected version.
LockRow(k) ==
  /\ RowAvailable(k)
  /\ ~ChangedSinceSnapshot(k)
  /\ snapshot[k].version[request[k].project] = request[k].expected
  /\ pc' = [pc EXCEPT ![k] = "writing"]
  /\ target' = [target EXCEPT ![k] = request[k].project]
  /\ UNCHANGED <<dbVars, nextSequence, request, snapshot, pending, reply,
                 received>>

\* CreateProject: INSERT INTO projects with a fresh identifier.
InsertProject(k, p) ==
  /\ pc[k] = "keyed"
  /\ SeenResult(k) = NoResult
  /\ Creates(request[k])
  /\ version[p] = 0
  /\ ~RowLocked(p)
  /\ pc' = [pc EXCEPT ![k] = "writing"]
  /\ target' = [target EXCEPT ![k] = p]
  /\ UNCHANGED <<dbVars, nextSequence, request, snapshot, pending, reply,
                 received>>

\* insertEvent: the next aggregate version and the next sequence.
InsertEvent(k) ==
  LET from == snapshot[k].version[target[k]] IN
  /\ pc[k] = "writing"
  /\ Cardinality(pending[k]) < request[k].events
  /\ pending' = [pending EXCEPT ![k] = @ \cup
       {[project  |-> target[k],
         version  |-> from + Cardinality(pending[k]) + 1,
         sequence |-> nextSequence]}]
  /\ nextSequence' = nextSequence + 1
  /\ UNCHANGED <<dbVars, pc, request, snapshot, target, reply, received>>

\* Every event of the command is inserted.
AllWritten(k) == pc[k] = "writing" /\ Cardinality(pending[k]) = request[k].events

\* storeIdempotency inserts the row of this identity.
StoreResult(k) ==
  /\ AllWritten(k)
  /\ result[Identity(request[k])] = NoResult
  /\ pc' = [pc EXCEPT ![k] = "stored"]
  /\ UNCHANGED <<dbVars, nextSequence, request, snapshot, target, pending,
                 reply, received>>

\* The row exists although the snapshot does not show it: a unique violation,
\* or 40001 because the key was read first, which only planningMutationFailure
\* tells apart.
DuplicateResult(k) ==
  /\ AllWritten(k)
  /\ result[Identity(request[k])] # NoResult
  /\ \/ Answer(k, "unavailable", NoResult)
     \/ Plans(request[k]) /\ Answer(k, "version_conflict", NoResult)
  /\ UNCHANGED dbVars

\* The effect k is about to commit.
Effect(k) == [request |-> request[k], project |-> target[k],
              from |-> snapshot[k].version[target[k]]]

\* tx.Commit, and the answer, which the caller may never see.
Commit(k) ==
  /\ pc[k] = "stored"
  /\ version' = [version EXCEPT ![target[k]] =
                   snapshot[k].version[target[k]] + request[k].events]
  /\ applied' = applied \cup {Effect(k)}
  /\ history' = history \cup pending[k]
  /\ result' = [result EXCEPT ![Identity(request[k])] = Effect(k)]
  /\ \/ Answer(k, "success", Effect(k))
     \/ Answer(k, "none", NoResult)

\* The command's own checks refuse it: RecordDecision looks at the mode and the
\* state before the version, the planning commands after it.
Reject(k) ==
  /\ \/ Decides(request[k]) /\ RowAvailable(k) /\ ~ChangedSinceSnapshot(k)
     \/ Plans(request[k]) /\ pc[k] = "writing" /\ pending[k] = {}
  /\ Answer(k, "rejected", NoResult)
  /\ UNCHANGED dbVars

\* What the caller is told when a statement fails: nothing after a crash,
\* unavailable in general, version_conflict for a 40001 of a planning command;
\* replayIdempotency answers a conflict of keys for any error of its query, and
\* RecordDecision not_found for any error of the two that read the project.
FaultAnswers(k) ==
  {"none", "unavailable"}
  \cup (IF pc[k] = "keyed" THEN {"idempotency_conflict"} ELSE {})
  \cup (IF pc[k] = "keyed" /\ Decides(request[k]) THEN {"not_found"} ELSE {})
  \cup (IF pc[k] # "waiting" /\ Plans(request[k]) THEN {"version_conflict"}
                                                 ELSE {})

\* A database error, a serialization failure elsewhere, an injected fault or a
\* crash: the transaction rolls back.
Abort(k) ==
  /\ Faults
  /\ pc[k] # "idle"
  /\ \E status \in FaultAnswers(k) : Answer(k, status, NoResult)
  /\ UNCHANGED dbVars

-----------------------------------------------------------------------------
CommandInit ==
  /\ version = [p \in Projects |-> 0]
  /\ applied = {}
  /\ history = {}
  /\ result = [i \in Identities |-> NoResult]
  /\ nextSequence = 1
  /\ pc = [k \in Calls |-> "idle"]
  /\ request = [k \in Calls |-> CHOOSE r \in Requests : TRUE]
  /\ snapshot = [k \in Calls |-> EmptyDatabase]
  /\ target = [k \in Calls |-> NoProject]
  /\ pending = [k \in Calls |-> {}]
  /\ reply = [k \in Calls |-> [status |-> "none", result |-> NoResult]]
  /\ received = 0

CallStep(k) ==
  \/ TakeKeyLock(k)
  \/ Replay(k)
  \/ KeyConflict(k)
  \/ Deny(k)
  \/ ProjectMissing(k)
  \/ RowChanged(k)
  \/ VersionConflict(k)
  \/ LockRow(k)
  \/ \E p \in Projects : InsertProject(k, p)
  \/ InsertEvent(k)
  \/ StoreResult(k)
  \/ DuplicateResult(k)
  \/ Commit(k)
  \/ Reject(k)

CommandNext ==
  \/ \E k \in Calls, r \in Requests : Receive(k, r)
  \/ \E k \in Calls : CallStep(k)
  \/ \E k \in Calls : Abort(k)

CommandSpec == CommandInit /\ [][CommandNext]_commandVars

\* A handler that can take a step takes one; the locks it waits for are those
\* of transactions that do the same.
FairCommandSpec ==
  CommandSpec /\ \A k \in Calls : WF_commandVars(CallStep(k))

-----------------------------------------------------------------------------
(* Properties.                                                             *)

\* The event ledger of a project has every version once, and its sequence
\* order is its version order: what replay's contiguity check and every reader
\* that follows sequences rely on (docs/DOMAIN.md section 8, point 5).
VersionHistory ==
  /\ \A p \in Projects :
       {e.version : e \in {f \in history : f.project = p}} = 1 .. version[p]
  /\ \A e, f \in history :
       e.project = f.project /\ e.version <= f.version
         => e.sequence <= f.sequence /\ (e.version = f.version => e = f)

\* A caller that was told of success was told of the one effect its key ever
\* had, and that effect is of the very request it sent, however many
\* duplicates and reused keys raced with it.
SuccessIsOriginal ==
  \A k \in Calls : pc[k] = "idle" /\ reply[k].status = "success" =>
    /\ reply[k].result.request = request[k]
    /\ {a \in applied : Identity(a.request) = Identity(request[k])}
         = {reply[k].result}

\* Transactions implement the ledger: at most one effect per identity, each
\* at the version its caller expected, at the instant it commits.
Ledger == INSTANCE CommandLedger
ImplementsLedger == Ledger!LedgerSpec

\* No call waits for ever: the identity lock and the row lock are always taken
\* in that order and always released.
EveryCallEnds == \A k \in Calls : pc[k] # "idle" ~> pc[k] = "idle"

\* docs/DOMAIN.md section 8, point 3: a repeated key with an identical body
\* returns the original result.  So a call whose request was in order when it
\* arrived, the project there at the version it expects, and has by now been
\* carried out for a duplicate of it is never told that the project does not
\* exist or has moved to another version.
Repeats(k) == LET res == result[Identity(request[k])]
              IN  res # NoResult /\ res.request = request[k]
InOrder(k) == LET r == request[k]
              IN  ~Creates(r) /\ snapshot[k].version[r.project] = r.expected
RepeatReturnsOriginal ==
  [][\A k \in Calls :
       pc[k] # "idle" /\ pc'[k] = "idle" /\ Repeats(k) /\ InOrder(k)
         => reply'[k].status \notin {"not_found", "version_conflict"}]_commandVars
=============================================================================
