# TLA+ models of the kensho projects

The repository holds three programs:

* **Workplane** (`src/projects/workplane`, Go and PostgreSQL): a ledger of
  projects, deliverables and evidence with a transactional outbox, shadow
  replay and realtime feeds. This is where the concurrency is.
* **chess-engine** (`src/projects/chess-engine`, Rust): a UCI engine and a
  local board that plays against it.
* **excel-lite** (`src/projects/excel-lite`, Rust): a spreadsheet.

The models follow the code of `src/`; `PROJECT.json` says, for each definition,
which lines it stands for. Paths below are relative to `src/projects/`.

## 1. Inventory

| Part | Its state | Its operations | What is hard | What makes it correct |
|---|---|---|---|---|
| Outbox (`workplane/internal/app/durable.go`, `migrations/000002`, `000003`, `000005`) | `domain_events`, `outbox_records`, one `outbox_delivery_state` row per event and consumer with its lease, `consumer_checkpoints`, `consumer_deliveries` | command inserts, `EnsureConsumer`, `RunOutboxOnce`, `RunOutboxLoop` | sequences are not allocated in commit order; leases lapse under slow workers; a process dies between any two transactions; consumers register while commands run | a checkpoint covers every committed event behind it, for ever; every committed event is acknowledged |
| Command transactions (`handlers.go`, `planning.go`) | project versions, domain events, `idempotency_results` | `CreateProject`, `RecordDecision`, and the commands of `executeProjectMutation` | duplicates and retries, lost replies, snapshots older than the locks they waited for | one effect per idempotency key, at the version the caller expected; contiguous versions in sequence order |
| Project and deliverable lifecycle (`planning.go`, `migrations/000006`) | mode and state, deliverables, forecasts, target, deadline | the planning commands | which command is legal in which state, over long sequences | accepted work was reviewed; what is under review stays as it is |
| Evidence and review (`review.go`, `migrations/000007`) | evidence and its corrections, gates, verdicts, submissions, findings | the review commands | a verdict on corrected evidence, a resubmission after a bounce | a gate passes only on evidence that meets it; findings hold an approval up |
| Ledger projection and integrity doctor (`durable.go`) | the rebuilt tables | `rebuildSnapshot`, doctor queries | events of one command that depend on each other | the rebuilt tables equal the live ones |
| Shadow replay (`durable.go`) | replay runs, shadow tables, the projection head | `Replay` | overlapping replays, failures between statements | the head names a sound generation and never loses an event |
| WebSocket stream (`realtime.go`) | the loop's position, unacknowledged window, batch | resume, poll, write, acknowledge, cut off, heartbeat | lost connections, slow consumers, events one may not read, a moved retention window | nothing skipped, nothing repeated, the window respected |
| SSE stream (`realtime.go`) | two goroutines, a message buffer, a terminal channel | the same without acknowledgements | a terminal message overtakes and discards what is buffered | the same, and no stream left open in silence |
| Authentication, sessions, authorization (`service.go`, `handlers.go`) | tokens, memberships | decision tables | little | they refuse |
| UCI loop (`chess-engine/crates/chess-uci/src/lib.rs`) | loop, reader thread, search thread, `pending_inputs` | the UCI commands | commands that arrive while a search ends | order, one `bestmove` per `go`, for the right position |
| Board and moves (`chess-engine/crates/chess-core`) | a position with its occupancy and hash | attacks, generation, make, unmake | castling rights, en passant pins, what unmaking must restore | the moves are those of chess, unmaking restores, caches stay in step |
| Search (`chess-engine/crates/chess-search`) | the stack of the recursion, the transposition table | iterative deepening, negamax, quiescence | bounds stored as scores, aborts, mate scores at other distances | a completed iteration has the minimax score; an announced mate can be forced |
| Local board (`chess-engine/apps/local-board`) | the game on the board, the child process, a reader thread | clicks, undo, resign, modes, start and stop of the engine | answers for a game that was undone, a child that dies while it thinks | board and engine play one game; the engine's turn ends |
| Recalculation (`excel-lite/xlite-core/src/recalc.rs`) | cells, dependency graph, dynamic edges | an edit and its dirty set, cycles, evaluation order | what an edit must dirty when cycles open and close | values equal an evaluation from nothing |
| History and structural edits (`history.rs`, `history/structural.rs`, `refshift.rs`, `xlite-app/src/workbook.rs`) | undo and redo stacks | edits, formats, sizes, insertions and deletions, undone and redone, saving and opening | long mixed sequences | undo restores; values are carried along |
| Functions (`excel-lite/xlite-core/src/functions`, `eval.rs`) | - | coercion, criteria, lookups, dates | kinds of values, wildcards, leap days | functions that should agree do |
| Generated code, web client, smoke programs, scripts, vendored code | - | - | - | no control to model |

How they interact. A command transaction inserts events into `domain_events`;
triggers write the outbox rows; an outbox loop per consumer on each host turns
them into logical effects and moves the consumer's checkpoint; the realtime
streams poll the events behind the checkpoint of `realtime-v1`; replay rebuilds
the projections from the same events. Everything meets in the database, so the
unit of interleaving is a statement that can wait or a transaction. The local
board writes UCI lines to the engine's UCI loop, which runs the search over
positions of the board. Excel-lite's workbook hands every command to the
history, which hands it to the recalculation.

## 2. Modules

```
CommandLedger <-- CommandTx  <-- WorkspaceProofs           commands
                  Projection <-- Workspace <-- WorkspaceProofs   what they write
CommittedFeed <-- Outbox    <-- DurableProofs              delivery
      ^---------- RealtimeSocket, RealtimeEvents
                     ^-- Realtime <-- RealtimeProofs       readers
                  ReplayRuns <-- DurableProofs             replay
                  UciLoop    <-- UciLoopProofs             chess engine
                  Board <-- LocalBoard <-- LocalBoardProofs      rules, window
                  Search     <-- SearchProofs              search
                  RefShift <-- Sheet <-- SheetProofs       spreadsheet
   CellValues <-- Lookups <-- Conditionals <-- SheetFunctions    functions
        ^-- Calendar <----------------------------^  ^-- SheetFunctionsProofs
MC<module>: the constants and definitions of the TLC runs
```

**CommittedFeed** is the contract between delivery and readers: the log only
grows, a checkpoint moves forward onto committed events, and a commit happens
ahead of every checkpoint. `Outbox` implements it (checked and proved); the
realtime modules *extend* it, so they assume exactly what the outbox provides.

**Outbox** has one action per transaction, split where another transaction can
come between: `InsertEvent` (the identity column, not rolled back, and the ROW
EXCLUSIVE lock), `CommitCommand`, `BeginEnrol`/`CommitEnrol` (`EnsureConsumer`),
`ClaimSelect`/`ClaimCommit`, `Publish`, `LockCheckpoint`, `LockCommitHorizon`
(the SHARE lock on `domain_events`), then `Acknowledge`, `ReleaseOutOfOrder` or
`LeaseLost`. `LeaseLost` ends the whole process, as the loop's error does in
`cmd/api/main.go`; `Crash` may happen anywhere. Time is two booleans per row: a
lease has lapsed or not, an event is available or not. Serializable conflicts
between a command's trigger and a registration are `CommandSerializable`.

**CommandTx** follows a call from `Receive` through the advisory lock, the row
lock, the inserts and the stored result to `Commit`. The point of the model is
*when the snapshot is taken*: PostgreSQL takes it when the advisory-lock
statement starts, before the wait, so a waiting duplicate reads an old
database. A statement fails with 40001 on a row changed since then
(`RowChanged`) or at commit (`ChangedSinceSnapshot`); each handler turns that
into an answer of its own. `Reject` is any refusal by authorization or by the
command's rules. **CommandLedger** is the abstract promise: each identity takes
effect at most once, at the version its caller expected.

**Workspace** has one action per planning and review command with what its
transaction checks, writes and appends. `CommandTx` shows that the commands of
one project take effect one after the other, so a command is one step here.
**Projection** holds the tables, what the commands read from them (which
evidence meets a gate, which findings are open), and `rebuildSnapshot`: one
operator per event type, each with the error it returns. `live` is what the
commands wrote, `rebuilt` what a replay of all their events computes; comparing
the two after every command is what a shadow replay does. Texts, dates, links
and digests are left out; targets and deadlines share their code and are one
table of dates.

**ReplayRuns** models every statement and error path of `Replay`; what
`rebuildSnapshot` computes is reduced to its verdict (cannot apply an event,
differs from the live tables, or neither), which `Workspace` shows to be
"neither" for everything the commands append.

**RealtimeSocket** and **RealtimeEvents** model one subscriber and the server
code that serves it, over `CommittedFeed`. The socket module has the loop of
`runWebSocket` record by record (`StepOver`, `Deliver`, `RateLimit`,
`EndBatch`) and the reader's acknowledgements; the SSE module the two
goroutines with their two channels and Go's free choice between ready ones.
**Realtime** composes them: one agent over one feed, free to present its
cursor on the other transport. Cursors are their sequences (they are signed and
bound to the subscriber and the transport); whether an event may be read is
decided afresh at each examination.

**UciLoop** models the loop and its threads. `Take` receives a command (pending
before channel) and sets the stop token if the command does; `SetAside` and
`Complete` are the two branches of `finish_active_search`'s receive loop; then
one action per command. A position or option is a value that can be told apart;
an answer records under which of them its search ran. The option stands for one
the loop hands to the engine, as it does `Hash`. `run_uci_loop` hands the
engine its position and *no* option (`lib.rs:223-231`), so the engine begins
with the one it was built with, `OwnOption`, and not with `UciOptions::default`;
the two agree only once a `setoption` was applied. A `go` is `infinite`, `timed`
(it has a deadline), `clockless` (it names only the other side's clock, for which
`deadline_for` sets none) or `fixed` (searched in the loop itself). The channel cannot close
(the loop holds a sender), so the branches for a closed one are unreachable and
left out, as is the one for a finished search that nobody started
(`EngineUpToDate` shows that there is none).

**Board** is chess-core with sets of squares for bitboards: attacks, pseudo
and legal moves, `make`, `unmake`, `validate_position`. The Zobrist hash is the
set of features whose keys are XORed, so that an update that is forgotten or
done twice shows. **LocalBoard** is the window: a frame polls the engine, asks
it for a move if one is due, and handles at most one click; in between, the
child reads, a line arrives, the child dies or a second passes. The child is
the UCI loop reduced to what it promises, a legal move per `go`, or
`bestmove 0000` in a position without one, which the window does not apply.

**Search** is the engine's search over any finite graph of positions with
captures, checks and evaluations, since nothing in the code depends on more.
The recursion is a stack of frames, because the table is written and an abort
unwinds between any two statements. Moves are tried in any order, which stands
for every ordering that killers and history produce. `Quiet` and `Minimax` say
what the values mean without window, table or order, `Forced` who can force
mate in how many plies. The code counts plies in a `u8`; `MaxPly`, at most 255,
bounds the recursion. Checks met by checks could take quiescence deeper; the
model stops there.

**Sheet** is the spreadsheet on one line of cells: `RecalcEngine` (graph, dirty
set, cycles, evaluation order, INDIRECT's dynamic edges), `History` with its
inverse commands, `WorkbookAdapter`'s commands, saving and opening.
**RefShift** is the arithmetic of insertions and deletions along one axis.

**CellValues**, **Lookups**, **Conditionals** and **Calendar** are pure
operators: coercion, comparison, wildcards and criteria; the lookup functions;
the functions with criteria; dates. Texts are sequences of code points from
`Characters`, any set that has ASCII in it. Case is folded in two ways, as in
the code: VLOOKUP, criteria and comparisons fold ASCII only (`Lower`), MATCH,
HLOOKUP and LOOKUP all of Unicode by `char::to_lowercase`, which is the constant
`LowerCase`: fixed in ASCII, and free to make several characters of one, or an
ASCII one, beyond it. `Search` takes the folding as a parameter. Wildcards match
character by character, each folded for itself (`lower_char`), while searches by
order compare whole folded texts (`lower_text`). The functions of one criterion
select by `Matching`, those of several by `Selected`, as they have loops of their
own. Numbers are integers, so text read as a number is an optional minus and
digits. **SheetFunctions** types cells into a sheet
of records or of dates in any order and compares the functions with their
definitions, which are written with quantifiers over rows and days, and with
each other.

Operators whose comment starts "Faulty variant" or "Variant" are wrong on
purpose: each replaces the definition after it to show that a property notices
(`mutants` in `PROJECT.json`). No specification uses them.

## 3. Runs

| Run | Bounds | What it shows |
|---|---|---|
| `workspace` | 1 project, 3 actors; five budgets, see below | a replay rebuilds the tables after every command; nothing is accepted unreviewed or with open findings; corrections are chains; what is under review is frozen |
| `outbox` | 1 consumer that registers late, 2 hosts, 2 writers, 2 events, 2 faults, fairness | no checkpoint passes an event without its effect, no commit lands behind a checkpoint; the outbox implements the feed; every committed event is acknowledged |
| `command` | 6 requests (reused key, two-event command), 2 concurrent calls, 3 received, faults, fairness | version history, one effect per key, the ledger is implemented, every call ends |
| `command_repeat` | 3 requests, 2 concurrent calls, no faults | **violated**: see Findings |
| `replay` | 3 replays, 2 events, 1 fault | the head is sound and never goes back |
| `realtime` | 3 events, window 1, buffer 2, batch 3, 2 frames, 1 fault, both transports, fairness | resume contract, window, no stream left open in silence, every event gets through |
| `uci` | every input of up to 4 lines out of 14, an engine with an option of its own, panics and failing output, fairness | order, answers, the engine's settings, every search that can end answered |
| `local_board` | 7 situations on small positions, 2 to 4 clicks, 0 or 1 fault, fairness | the moves are those of chess, unmaking restores, board and engine play one game, the engine's turn ends |
| `search` | 110 games of at most 9 positions, depth 3, quiescence of 2 plies, 3 table slots, 2 searches, aborts anywhere | completed iterations have the minimax score and a move that attains it; mates can be forced |
| `sheet` | 3 cells, 2 starting sheets, five mixes of commands | graph and values are those of the formulas; saving, undo and redo restore; structural edits carry values along |
| `sheet_indirect` | 3 cells, one edit | **violated**: see Findings |
| `functions` | records of 3 rows with 13 keys and 3 columns of amounts, 15 values looked up; starts at the edges of the calendar, 32 counts, 5 sets of holidays | lookups, criteria and dates agree with their definitions, and with each other where their foldings of case do |

Why the bounds are enough.

* *Workspace*: no single budget holds everything, so each takes one kind of
  long story: planning alone with two deliverables; four evidence records with
  corrections of corrections; promotion with two gates on two deliverables;
  and one deliverable bounced, resubmitted with corrected evidence and
  approved, with a second gate or without. Gates are hard and independent or
  neither; bot (an agent for alice) produces, carol reviews, so that
  independence matters.
* *Outbox*: out-of-order commit needs two open writers and two events; a
  lease that lapses under a live worker needs two hosts, and a second fault
  lets the second host fail as well. More consumers and longer sequences are
  covered by the proofs.
* *Commands*: a duplicate and the original are two calls; a third makes the
  project reach the version the next request expects.
* *Replay*: one that installs, one that waits with an old snapshot, one that
  starts after.
* *Realtime*: with a window of one, a buffer of two and three events a
  subscriber is cut off in the middle of a batch with an event before and
  behind it. The proofs cover larger ones.
* *UCI*: a search, a command that waits for it, one put aside, and one that
  arrives later. The order of longer inputs is proved.
* *Local board*: each position puts one rule within reach (castling through
  an attacked square, a pinned en passant capture, promotion with check);
  `PerftOfEndgame` compares the number of moves with a fixture of the
  repository. The situations with an engine put undo, resignation, new games
  and a mode change before, during and after its answer.
* *Search*: a transposition is reached in two ways at different depths, a slot
  is shared by three positions, a mate is found at one distance and used at
  another, the second search meets the first one's table. No game is longer
  than 10 plies, so `MaxPly` never stops one. Longer games are proved.
* *Sheet*: three cells hold a reference, a sum over it and a cycle; two
  commands before and one after a restart, or two insertions or deletions
  after an edit, reach every pair of inverse commands. The proofs cover any
  grid, any sheets to begin with and any number of commands.
* *Functions*: a key of every kind beside every other, duplicates, sorted and
  unsorted columns; beyond ASCII a letter with a lower case of its own (`Ä`), one
  that is folded to two characters (`İ`) and one folded to an ASCII letter (the
  sign of kelvin), each with the value it is and is not found by; ends of months, leap days, 1900's day that never was, the
  last days of 9999, counts across weekends in both directions.

The bounds on faults, frames, received calls, input lines, clicks and budgets
are named constants or fields that appear in guards only.

`CHECK_DEADLOCK FALSE` is used where a bounded environment runs out: all calls
received and answered (`CommandTx*`), all replays returned (`ReplayRuns`), all
input read and the loop returned (`Uci`), budgets spent (`Workspace`,
`Sheet*`), all searches done (`Search`). Elsewhere deadlock is checked.

### Fairness

* *Outbox*: a command ends, clocks advance, a loop that is not blocked takes its
  next step (it never sleeps longer than the poll interval, and a stopped
  process is started again). Leases lapse. The two lock waits are *strongly*
  fair: PostgreSQL queues lock requests, so a waiting SHARE request is not
  overtaken by later writers. Faults and new commands are not fair.
* *Commands*: a handler that can take a step takes it; receiving calls and
  failing are not fair.
* *Realtime*: the socket loop ticks, both SSE goroutines run, the client reads
  and reconnects on the transport it is using. Nothing makes it acknowledge or
  change transport. `select` picks at random among ready channels, so writing a
  buffered message is strongly fair; without that, a terminal message could
  overtake the buffer on every connection for ever.
* *UCI*: the loop's thread runs; a search ends once its token is set (it polls
  it) or if it is timed. An infinite search need not end, and neither need one
  without a clock of its own (the depth limit is its only end); nothing makes the
  user send another line. `EverySearchAnswered` asks no more: a clockless search
  must end only if the first command that waits for it is `stop` or `quit`,
  because another one waits without stopping it, and a `stop` behind that one
  is put aside.
* *Local board*: frames go on, because the window asks for a repaint every
  50 ms while a move is due; the child reads its input, the reader thread
  delivers a line that was written, and a second passes. Clicks and deaths are
  not fair.

## 4. Proofs

Eight modules of proofs, checked by TLAPS for every value of the constants that
satisfies the named assumptions (`OutboxConstants`, `CommandConstants`,
`NoResultIsNoEffect`, `WorkspaceConstants`, `ReplayConstants`,
`RealtimeConstants`, `LocalBoardConstants`, `SearchConstants`,
`EvaluationsBelowMates`, `LimitAssumption`, `SheetConstants`,
`UciConstants`, `RecordsAreRows`, `CellsAreValues`, `OperandsAreTexts`,
`CharactersAreCodePoints`, `LowerCaseFolds`: sets and bounds are
arbitrary; starting positions are any that `validate_position` accepts, sheets
hold any raw texts the model knows).

* **DurableProofs**, on the outbox: `TypeCorrect`, `CheckpointIsCovered`,
  `AckIsBehindCheckpoint`, `RegistrationMissesNothing`, `NothingCommitsLate`,
  `OutboxImplementsFeed`. A checkpoint's promise is not inductive alone: an
  open transaction may hold a low sequence. `Inv` adds `OpenAhead` (open
  sequences lie ahead of every checkpoint) and `HorizonQuiet` (while a
  checkpoint transaction holds the SHARE lock no writer has inserted), which is
  what the commit horizon is for, and facts that tie rows, jobs and checkpoints
  to committed events.
* **WorkspaceProofs**, on the transactions: `CommandTypeCorrect`,
  `SuccessIsOriginalAlways`, `TransactionsImplementLedger`,
  `VersionHistoryAlways`. `CommandInv` says that the two locks exclude (`KeyExclusive`, `RowExclusive`), that a call holding a row
  has read its current version (`RowsCurrent`), that snapshots lie in the past,
  and that stored results are exactly the effects (`ResultsApplied`,
  `SnapshotResults`). The step that matters is `CommitStep`: a key that is
  free in an old snapshot cannot be committed twice. The version history needs
  a second layer, `HistoryInv`: whoever inserts events for a project has all of
  its committed history behind it (`Behind`), and its own events follow each
  other (`OwnOrder`).
* **WorkspaceProofs**, on what commands write: `TypeCorrect`, `ReplayMatchesLive`,
  `AcceptedStaysReviewed`, `FindingsAlwaysHoldUp`, `ReviewFreezes`,
  `CorrectionsAlwaysChain`, for any number of people, claims, rows and
  commands. That an acceptance stays reviewed needs that it was submitted
  (`Submitted`), that its gates stay passed although later commands touch gates
  and evidence (`GatesStayPassed`), and that a passed gate's last verdict is
  the one that passed it (`PassedByVerdict`). That a replay never refuses an
  event needs that rows refer to rows that exist (`Referring`) and that the
  head of a scope is a forecast of that scope (`Heads`). `Chains` follows the
  entries of a chain of corrections by number; that each entry but the current
  one is replaced exactly once (`ChainCounted`) is the property.
* **DurableProofs**, on replay: `ReplayTypeCorrect`, `HeadAlwaysSound`,
  `HeadOnlyGrows`. `ReplayInv` says that the lock excludes, that a snapshot is consistent with the
  ledger, and that a run about to install has seen the head it replaces.
* **RealtimeProofs**: `TypesOfRealtime`, `ResumeSkipsNothing`,
  `ResumeRepeatsNothing`, `GivenUpIsAlwaysTold`, `WindowIsRespected`. That
  nothing is skipped depends on everything between server and agent, so
  `Contract` follows what is on its way (the frames, and on SSE the buffer
  behind them) as one sequence: whatever element the agent reads last before
  the connection breaks, all events its cursor covers are seen or refused by
  then (`Good`), the server has dealt with the feed up to `current`
  (`DealtWith`), and the batch is the feed's next piece without a gap
  (`NextBatch`). `Shape` says what a phase of a loop implies, `Delivered` what
  the cursor of `rate_limited` may repeat. The window is a second layer
  (`Window`): the events outstanding are among the server's pending ones.
* **UciLoopProofs**: `TypeCorrect`, `CommandsAlwaysInOrder`,
  `EngineAlwaysUpToDate`, `AnswersAlwaysMatch`. Commands are carried out in
  order although two queues and a hand hold them: `Order` says, place by place,
  that what is done, in hand, set aside and still in the channel are the lines
  of the input one after the other, `ChannelOrder` where the end of the search
  stands among them. On top, `SettingsCurrent` and `SearchUnderSettings` say
  that no setting changes while a search runs; the engine's option is the last
  one set, or its own.
* **LocalBoardProofs**: `PositionsAlwaysValid`, `UnmakeAlwaysRestores`,
  `BoardAlwaysOneGame`, `AlwaysOneSearch`, `MovesAlwaysFollowRules`, on any
  position of the full board.
  The argument goes outwards. A pseudo-legal move is `Possible`: a man of the
  side to move stands on its first square and nothing of its own on its last.
  Making a possible move keeps the bitboards `Coherent` (one man at most on a
  square, occupancies their unions), and unmaking gives back what was there. A
  legal move leaves no king to be taken, hence leads from a valid position to a
  valid one: castling rights still have their king and rook, an en passant
  square its pawn. Then every control keeps `GoodBoard`, which speaks of *all*
  positions undo can go back to and not of the one shown, and every step of
  window, reader thread and child keeps `GoodClient`: of the `go` lines not yet
  read, the answers written and those delivered there is one at most, and if
  the question is still there, the last `position` before it is the one asked
  about. `IInv` is both together; TLC found no state of `local_board` that
  breaks it.
  `MovesAlwaysFollowRules` compares two ways to generate moves: the code's, with
  rays and bitboards, making each move to see whether the king is left in
  check, and the rules', which only look at a diagram of the board, square by
  square. A ray lists the squares of a line in order, so what a slider reaches
  is what no man of the diagram stands before; the attacks looked up backwards
  from a square (`IsSquareAttacked`) are the attacks of the men of the diagram
  (`AttackedBy`); and `Make` does to the bitboards what `Played` does to the
  diagram. The rest needs the position to be valid: no king is there to be
  taken, an en passant square has its pawn, a right to castle its king and rook.
  That the code tries every promotion and the rules only the first one loses
  nothing: what a pawn becomes shields its own king alike.
* **SearchProofs**: `TypeCorrect`, `MatesAlwaysForced`, `ScoresAlwaysMinimax`,
  for any games, tables, limits and numbers of searches. What a cutoff returns
  is only a bound, what the table answers may come from another search, and an
  abort can leave anything unfinished; so the invariant says of every frame of
  the recursion what its numbers show at that moment. A *claim* (`Claims`) is
  that a value at a ply, if it is beyond the mate threshold, is a mate that
  `Forced` has in the plies it leaves. `MateInv`: a node's best score so far
  claims a mate as a lower bound, a losing one that all moves done are lost
  (`MovesScored`, `CapturesScored`), a waiting frame satisfies this without its
  current move (`Busy`), two neighbours have one window turned round
  (`Linked`), and a table entry claims, at ply 0, the side its bound is for
  (`EntryOK`). Shifting a mate on the way into the table and out of it is what
  makes one claim of the other (`ClaimsToTable`, `ClaimsFromTable`), whatever
  search the entry is from. `ValuesInv` has bounds by `Minimax` and `Quiet` in
  the place of claims. Fail-soft negamax and fail-hard quiescence need
  different ones, and a check at the horizon, which is searched one ply deeper,
  is worth the same as `Minimax` at depth 0 (`ExtendedIs`). An entry may answer
  a node of less depth; `EntryValued` says that an entry was stored at the one
  ply at which its position is met, hence with no more depth than is left
  there. That is the hypothesis `Plain` of `ScoresAreMinimax`, and why it is
  stated of the first search: a deeper or an older entry is a better answer
  than the iteration asked for, and the score is then no minimax of its depth.
  `EvaluationsBelowMates` is an assumption on the evaluation, which the code
  does not clamp: nine queens and all other men a game can have stay below
  12000, mates begin at 29000; only a set-up position with dozens of queens
  would exceed it, and its evaluation would be announced as a mate. TLC checked
  the parts of both invariants on small games before they were proved.
* **SheetProofs**: for lines of any length and any sheets,
  `ShiftIndexOrdered`, `RewriteSpanFollows`, `RewriteSpanExact`,
  `RewriteSpanGone`, `DeleteUndoesInsert` (what rewriting a reference keeps,
  adds and loses), `TypeCorrect`, `GraphKept`, `UndoRight`; and, for sheets into
  which no INDIRECT is typed, `ValuesRight`, `RoundTripRight`, `EditsCarry`.
  `IInv` has the types, the graph, which commands keep up step by step, and a
  chain through each stack of the history (`Links`): the entry on top leads from
  the contents of the sheet to those it replaced, the one below from there to
  the contents before. `ValueInv`, on top of it, says that every value is the
  one its formula gives (`Right`) and that a snapshot in the history, which is
  put back *without* a recalculation, has the values of any right sheet with the
  contents it leads to (`Fits`). Both halves need each other: an edit
  recomputes its dirty cells only, which is enough if the others were right, and
  they were put there by an undo perhaps. The evaluation is right because the
  dirty cells are closed under dependence and Kahn's queue hands out each of
  those on no cycle after the ones it reads. That two right sheets with the same
  contents have the same values is what saving and opening, and undo, rest on;
  that a shifted formula over shifted cells has the value it had, what
  insertions and deletions rest on.
  The hypothesis `NoIndirect` (nothing in `Raws` or `Starts` is INDIRECT) is
  what the run `sheet` also has. It cannot be dropped: see `sheet_indirect` and
  the note after it under Findings. The model's recursive definitions are
  functions over the numbers up to `Limit`, so that `UpTo`, an induction over a
  *set* of numbers, can follow them.

* **SheetFunctionsProofs**: for any number of rows, any keys, amounts, values
  looked up, operands and patterns, in any characters and for any lower case of
  those beyond ASCII, `LookupsAlwaysAgree` and `CriteriaAlwaysAgree`. The
  functions that fold Unicode agree; of VLOOKUP it is proved that it finds the
  first key equal up to the case of ASCII letters (or the last not beyond, in
  keys ordered so), that MATCH and HLOOKUP miss none of these, and that where all
  is ASCII it is HLOOKUP. The invariant is no more than `RecordsInv` (the records
  are a table of values); what has to be shown is what the functions compute.
  The code searches by scanning, not by halving: a scan upward that
  stops at the first key beyond finds, among keys ordered as it folds them, the
  last that is not (`SearchUp`, `SearchDown`), and any scan, ordered or not, gives
  the lookups of one folding one position (`MatchIs`, `VlookupIs`, `HlookupIs`,
  `LookupIs`); in ASCII the two foldings are one (`FoldedAsIs`, `SearchSame`). The
  order of texts is shown to be a total order (`TextLessTotal`,
  `TextLessTransitive`), and the table that `wildcard_match` fills in to say
  whether the text can be cut into the pattern's tokens (`MatchesCut`; a pattern
  without wildcards is matched by itself alone, `MatchesEqual`). For criteria:
  an operator is read as it was written, `<=` never as `<` (`CriterionIs`); the
  order of a cell and an operand is one of three whatever they hold
  (`CompareOrderIs`); sums do not depend on the cell taken first (`TotalOf`,
  `TotalApart`), and an average lies between the extremes (`TotalBounds`).
  `OperandsAreTexts` leaves out operands that begin with `=` or `>`: behind the
  operator `<` they would be read as part of it; and those that the code reads as
  numbers other than integers (fractions, exponents, `inf`, and `nan`, which is
  neither below nor above nor equal to any number). No induction over data is
  needed but `UpTo` and `Removing`, inductions over a set; recursive functions
  are shown to exist before their equations are used (`Recursion`,
  `SetRecursion`), because TLAPS gives a recursive definition no meaning unless
  they do.

Each proof of a behaviour follows the same line: `Init => Inv`, a lemma per
action (or per group of actions that leave the same variables alone),
`Inv /\ [Next]_vars => Inv'`, and the theorem by temporal logic. Refinement uses
the invariant and one step lemma: only a commit, or an acknowledgement, is a
step of the abstract module. The type invariants, `RegistrationMissesNothing`
and `AckIsBehindCheckpoint` are proved and in no run.

Model-checked only:

* every liveness property (TLAPS has no support for liveness under fairness);
* `DatesAgree`: that calendar arithmetic with its divisions by 146097, 1461 and
  153 and its exceptions at both ends agrees day by day, and that WORKDAY's
  count over days inverts NETWORKDAYS', is out of the provers' reach; TLC
  compares them at every edge of the calendar;
* values in sheets with INDIRECT, of which only `CircularIsCurrent` is stated,
  and refuted.

## 5. Findings

* `sheet_indirect`, a bug: `recalc_dirty` (`excel-lite/xlite-core/src/recalc.rs:316`)
  looks for cycles with the dynamic edges of the *previous* evaluation and
  flags the cells it finds `#CIRC!` without evaluating them, so their stale
  INDIRECT edges stay for ever. With B1 `=INDIRECT(A1)` and A1 once naming B1,
  no later value of A1 brings B1 back; `excel-lite/SPEC.md:428` says that
  breaking a cycle does. The stale edges also outlive insertions and deletions,
  where `rebuild_graph` (`recalc.rs:204-206`) keeps them under the positions
  the cells *had*: with A1 `=A4`, A2 `=INDIRECT(A1)` and A4 `3`, A2 has an edge
  to A3; insert a row in front, and the plain reference, now `=A5` at A2, is
  flagged `#CIRC!` although it reads a number. So `ValuesExact` is checked and
  proved for sheets without INDIRECT.
* `command_repeat`: `workplane/docs/DOMAIN.md:561` promises that a repeated key
  with an identical body returns the original result. A duplicate that overlaps
  the original is answered `not_found` (`handlers.go:275`) or
  `version_conflict` (`planning.go:239`): its snapshot predates the wait, and
  the row lock fails with 40001. There is still one effect only.

Seen while modelling, without a run of their own:

* *Replay*: a replay that loses the race for the head returns an error
  (`durable.go:481`) and its run stays `building`;
  `workplane/docs/durable-spine-m2a.md:38` says that every failed generation is
  durably recorded.
* *UCI*: if another command already waits for a timed search, `stop` is put
  aside behind it (`chess-uci/src/lib.rs:843`) and the search runs to its
  deadline; `chess-engine/SPEC.md:392` says that `stop` interrupts it. The loop
  announces `option name Hash type spin default 64` (`chess-uci/src/lib.rs:660`,
  from `UciOptions::default`, line 120) but applies no option to the engine
  before a `setoption`: `DefaultSearcher::default()` has a table of 65536 entries
  (`chess-search/src/lib.rs:22`), which is not what `set_hash_size_mb(64)` gives.
  `EngineUpToDate` therefore speaks of the loop's option only once one was set.
* *Workplane commands*: planning commands authorize before their transaction
  (`planning.go:181`). A bounced deliverable whose findings were all withdrawn
  can never be resubmitted. `ReviseDeliverable` may make the only required
  deliverable optional and `CancelDeliverable` then cancels it (`API.md:290`,
  `DOMAIN.md:209`). A gate of an accepted deliverable can be waived. On the
  independence of reviewers `evidence-review-m2d.md:36` and `API.md:279-281`
  differ.
* *Local board*: `is_running()` (`apps/local-board/src/lib.rs:797-800`) drains
  and drops a `bestmove` or an exit, `searching` stays true and the engine never
  replies; `EngineReplies` excludes this with `lost`. A `bestmove` for the old
  game is applied after a new game or an undo if it happens to be legal. Moving
  after resigning resumes the game.
* *Search*: quiescence looks for the end of the game only after its stand-pat
  cutoff (`chess-search/src/lib.rs:451-466`), so a stalemate whose evaluation is
  not zero gets a score that depends on the window; `Plain` in
  `ScoresAreMinimax` excludes it.
* *Excel-lite workbook*: undo of an edit loses the cell's format (`history.rs:12`,
  `SPEC.md:606`), and saving skips formatted blank cells (`SPEC.md:601`). CSV import keeps
  `=...` as text (`SPEC.md:591`). INDIRECT may be evaluated before the cell it
  comes to depend on. `RoundTrip` and `UndoRestores` are stated about what is
  kept.
* *Excel-lite functions*: VLOOKUP folds ASCII only (`vlookup.rs:96`, `128`),
  MATCH, HLOOKUP and LOOKUP all of Unicode (`match_fn.rs:165`, `hlookup.rs:131`,
  `lookup.rs:177`): for `ä` among keys with `Ä`, MATCH and HLOOKUP find it and
  VLOOKUP answers `#N/A`, although "exact text matching is case-insensitive"
  (`xlite-core/tests/conformance/fn_vlookup.toml:45`). `LookupsAgree` states what
  each finds. Exact MATCH folds character by character, approximate MATCH whole
  texts, so `İ` (folded to `i` and a combining dot) is found by order but not by
  equality when those two are looked up. AVERAGEIF ignores booleans, AVERAGEIFS and SUMIF
  count them; VLOOKUP has no wildcards, HLOOKUP and MATCH do, criteria know
  `*` and `?` but not `~`; NETWORKDAYS and WORKDAY reject a blank cell among
  the holidays; `">5"` matches texts and `"<5"` blanks; LOOKUP's lenient
  treatment of errors (`lookup.rs:61`) is never reached; ISO WEEKNUM counts
  1900's phantom day as a day but not as a weekday (`WeeksAgree` excludes that
  year).

## 6. Not modelled

* **Authentication, sessions, authorization**: decision tables over roles and
  tokens. They enter the models as who may do what (`May`) or as a refusal. No
  command modelled here changes a membership, so the check before the
  transaction cannot go stale within `Workspace`.
* **Integrity doctor**: read-only queries that compare the tables `Workspace`
  and `Outbox` relate by invariants.
* **Chess evaluation, perft, entry points**: an evaluation is one number, which
  the search treats alike whatever it is; perft counts the moves `Board`
  generates.
* **FEN, move text, principal variations, statistics, time allotment**:
  sequential conversions and arithmetic without control.
* **Excel-lite parser, CSV and XLSX**: sequential conversions of text; what a
  formula *is* enters `Sheet` as a value. **Mathematical, statistical,
  financial, text and logical functions**: single expressions over
  floating-point numbers or strings, which have no faithful counterpart in
  TLC's integers. **User interface**: drawing and its own caches, on top of the
  workbook's commands.
* **Generated code, web client, smoke programs, scripts, vendored code**.

This is also why the share of mapped lines stays low: most of the
repository's lines are those of the parsers, the numeric and text functions,
the user interfaces and their inline tests.

PostgreSQL, the network and the operating system are external: the modules
state what the code relies on (snapshot isolation with serializable conflicts,
row, table and advisory locks, identity columns that do not roll back,
connections that lose what was not read, a child process that may die and
whose pipe keeps the order of lines).
