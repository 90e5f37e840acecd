------------------------------ MODULE LocalBoard ------------------------------
(***************************************************************************)
(* The local board of the chess engine: a window that draws frames, a      *)
(* player who clicks in it, and a UCI engine in a child process.           *)
(*                                                                         *)
(* A frame is logic(), which polls the engine and then asks it for a move  *)
(* if one is due, and ui(), where at most one thing is clicked.  Between   *)
(* any two of these steps the engine reads its input, a line it wrote      *)
(* reaches the channel poll_events drains, the child dies, or the second   *)
(* passes before which the window does not start a child again.            *)
(*                                                                         *)
(* The child is the engine's UCI loop: go depth searches inside the loop,  *)
(* so it carries out its lines one by one and answers each go with a move  *)
(* that is legal in the position it was given (UciLoop).  Left out: the    *)
(* handshake, info lines, messages, orientation, paths.                    *)
(***************************************************************************)
EXTENDS Board

CONSTANTS
  Startpos,   \* startpos()
  Games       \* the situations a run starts from, with its bounds

\* One click or one key, as far as the player of a run may use them.
Controls == {"click", "promotion", "undo", "new", "resign", "mode", "start",
             "stop"}
Modes == {"white", "black", "both"}

ASSUME LocalBoardConstants ==
  /\ Startpos \in Positions /\ Valid(Startpos)
  /\ \A g \in Games : /\ g.position \in Positions /\ Valid(g.position)
                      /\ g.mode \in Modes
                      /\ g.controls \subseteq Controls
                      /\ g.clicks \in Nat /\ g.faults \in Nat

VARIABLES
  board,     \* BoardState
  client,    \* UciClient, EngineStatus.searching and the child behind them
  frame,     \* what the window does next: "poll", "request" or "ui"
  game       \* the controls and what is left of the run's bounds

vars == <<board, client, frame, game>>

-----------------------------------------------------------------------------
(* BoardState.                                                             *)

NoSelection == NoSquare
NoPending == {}

\* new_game, load_fen.
Fresh(position, mode) ==
  [position |-> position, base |-> position, positions |-> <<position>>,
   moves |-> <<>>, selected |-> NoSelection, targets |-> {},
   pending |-> NoPending, mode |-> mode, over |-> FALSE]

EngineSide(mode) == CASE mode = "white" -> "black"
                      [] mode = "black" -> "white"
                      [] OTHER -> "none"

IsHumanTurn(b) == b.mode \in {"both", b.position.side}
\* over: game_message is there.
IsEngineTurn(b) == EngineSide(b.mode) = b.position.side /\ ~ b.over

ClearInput(b) ==
  [b EXCEPT !.selected = NoSelection, !.targets = {}, !.pending = NoPending]

\* apply_move, with update_terminal_message.
ApplyMove(b, m) ==
  LET next == Make(b.position, m) IN
  [ClearInput(b) EXCEPT
     !.position = next,
     !.positions = Append(b.positions, next),
     !.moves = Append(b.moves, m),
     !.over = LegalMoves(next) = {}]

\* apply_engine_move_text: a move that is not legal here is only reported.
NoMove == [from |-> NoSquare, to |-> NoSquare, promotion |-> NoPromotion]
ApplyEngineMove(b, text) ==
  LET fits == {m \in LegalMoves(b.position) : Text(m) = text} IN
  IF text = NoMove THEN [b EXCEPT !.over = TRUE]
  ELSE IF fits = {} THEN b
  ELSE ApplyMove(b, CHOOSE m \in fits : TRUE)

Candidates(legal, from, to) == {m \in legal : m.from = from /\ m.to = to}
Selectable(b, s) == PieceAt(b.position, s).color = b.position.side

SelectSquare(b, s, legal) ==
  [b EXCEPT !.selected = s, !.targets = {m.to : m \in {m \in legal : m.from = s}}]

\* try_move without a promotion piece, for a move that is legal.
TryMove(b, candidates) ==
  LET m == CHOOSE m \in candidates : TRUE IN
  IF IsPromotion(m)
  THEN [b EXCEPT !.pending = candidates, !.selected = m.from,
                 !.targets = {m.to}]
  ELSE ApplyMove(b, m)

ClickSquare(b, s, legal) ==
  LET candidates == Candidates(legal, b.selected, s) IN
  IF b.pending # NoPending \/ ~ IsHumanTurn(b) THEN b
  ELSE IF b.selected = s THEN ClearInput(b)
  ELSE IF b.selected # NoSelection /\ candidates # {} THEN TryMove(b, candidates)
  ELSE IF Selectable(b, s) THEN SelectSquare(b, s, legal)
  ELSE b

ChoosePromotion(b, kind, legal) ==
  LET m == CHOOSE m \in b.pending : TRUE
      fits == {x \in Candidates(legal, m.from, m.to) : x.promotion = kind}
  IN IF fits = {} THEN [b EXCEPT !.pending = NoPending]
     ELSE ApplyMove(b, CHOOSE x \in fits : TRUE)

\* Faulty variant: the move stays in the list that is sent to the engine.
UndoKeepingMove(b) ==
  LET left == Front(b.positions) IN
  [ClearInput(b) EXCEPT !.positions = left, !.position = Last(left),
                        !.over = FALSE]

Undo(b) ==
  LET left == Front(b.positions) IN
  [ClearInput(b) EXCEPT !.positions = left, !.position = Last(left),
                        !.moves = Front(b.moves), !.over = FALSE]

\* resign_or_reset.
Resign(b) == IF b.over THEN Fresh(Startpos, b.mode)
             ELSE [ClearInput(b) EXCEPT !.over = TRUE]

SetPlayMode(b, mode) ==
  LET changed == [b EXCEPT !.mode = mode]
  IN IF IsHumanTurn(changed) THEN changed ELSE ClearInput(changed)

\* What the moves of position_command lead the engine to.
PositionOf(b) ==
  LET after[n \in 0 .. Len(b.moves)] ==
        IF n = 0 THEN b.base ELSE Make(after[n - 1], b.moves[n])
  IN after[Len(b.moves)]

-----------------------------------------------------------------------------
(* UciClient and EngineStatus.                                             *)

NoClient ==
  [child |-> FALSE, alive |-> FALSE, input |-> <<>>, output |-> <<>>,
   channel |-> <<>>, at |-> Startpos, recent |-> FALSE, searching |-> FALSE,
   asked |-> Startpos, lost |-> FALSE]

\* A line of the engine that matters: the move that ends a search, with the
\* position that was searched, or something on stderr.
BestMove(text, of) == [line |-> "bestmove", move |-> text, of |-> of]
Stderr == [line |-> "stderr"]

\* is_running polls the events and drops them; a child found dead is gone.
\* lost remembers that it dropped something the window was waiting for.
IsRunning(c) ==
  [c EXCEPT !.channel = <<>>,
            !.child = @ /\ c.alive,
            !.lost = @ \/ /\ c.searching
                          /\ c.channel # <<>> \/ (c.child /\ ~ c.alive)]

\* Faulty variant: the search of a child that has gone is still waited for.
ReapedSilently(c) == [c EXCEPT !.child = @ /\ c.alive]
\* poll_events finds the child gone, and EngineStatus is told.
Reaped(c) ==
  IF c.child /\ ~ c.alive THEN [c EXCEPT !.child = FALSE, !.searching = FALSE]
  ELSE c

\* Faulty variant: the new child writes where the old one did.
StartedOldChannel(c) ==
  [c EXCEPT !.child = TRUE, !.alive = TRUE, !.input = <<>>, !.at = Startpos,
            !.recent = TRUE, !.searching = FALSE, !.lost = FALSE]
\* restart_engine: the old child is killed; the new one has channels of its
\* own, a start that fails leaves the old one.
Started(c) ==
  [c EXCEPT !.child = TRUE, !.alive = TRUE, !.input = <<>>, !.output = <<>>,
            !.channel = <<>>, !.at = Startpos, !.recent = TRUE,
            !.searching = FALSE, !.lost = FALSE]
NotStarted(c) ==
  [c EXCEPT !.child = FALSE, !.alive = FALSE, !.input = <<>>,
            !.recent = TRUE, !.searching = FALSE, !.lost = FALSE]
Restart(c, mayFail) ==
  {Started(c)} \cup (IF mayFail THEN {NotStarted(c)} ELSE {})

\* ensure_engine_ready: not twice within a second.
EnsureReady(c, mayFail) ==
  LET r == IsRunning(c) IN
  IF r.child \/ r.recent THEN {r} ELSE Restart(r, mayFail)

\* send_line: a line for a child that has died fails.
Sent(c, line) ==
  IF c.child /\ c.alive THEN [c EXCEPT !.input = Append(@, line)]
  ELSE [c EXCEPT !.searching = FALSE]

PositionLine(b) == [line |-> "position", position |-> PositionOf(b)]
GoLine == [line |-> "go"]
StopLine == [line |-> "stop"]

\* send_position_to_engine.
SendPosition(c, b, mayFail) ==
  {IF r.child THEN Sent(r, PositionLine(b)) ELSE r :
     r \in EnsureReady(c, mayFail)}

\* What a failed start costs of the run's bound on faults.
Spent(before, after) ==
  IF after.recent /\ ~ after.child /\ ~ before.recent THEN 1 ELSE 0

-----------------------------------------------------------------------------
(* Actions.                                                                *)

Init ==
  /\ \E g \in Games : /\ board = Fresh(g.position, g.mode)
                      /\ game = [controls |-> g.controls, clicks |-> g.clicks,
                                 faults |-> g.faults]
  /\ client = NoClient
  /\ frame = "poll"

\* One event of poll_engine.  A bestmove that names no move is not applied.
Handle(s, event) ==
  IF event.line = "stderr" THEN [s EXCEPT !.searching = FALSE]
  ELSE [board |-> IF IsEngineTurn(s.board) /\ event.move # NoMove
                  THEN ApplyEngineMove(s.board, event.move) ELSE s.board,
        searching |-> FALSE]

Handled(s, events) ==
  LET after[n \in 0 .. Len(events)] ==
        IF n = 0 THEN s ELSE Handle(after[n - 1], events[n])
  IN after[Len(events)]

\* poll_engine: every event in the channel, then the child's exit.
Poll ==
  LET seen == Handled([board |-> board, searching |-> client.searching],
                      client.channel)
  IN /\ frame = "poll" /\ frame' = "request"
     /\ board' = seen.board
     /\ client' = Reaped([client EXCEPT !.channel = <<>>,
                                        !.searching = seen.searching])
     /\ UNCHANGED game

\* request_engine_move_if_needed.
Request ==
  /\ frame = "request" /\ frame' = "ui"
  /\ IF ~ IsEngineTurn(board) \/ client.searching
     THEN UNCHANGED <<client, game>>
     ELSE \E r \in SendPosition(client, board, game.faults > 0) :
            /\ client' = IF r.child
                         THEN [Sent(r, GoLine) EXCEPT
                                 !.searching = TRUE, !.asked = board.position]
                         ELSE r
            /\ game' = [game EXCEPT !.faults = @ - Spent(client, client')]
  /\ UNCHANGED board

\* The player uses a control in ui().
Uses(control) ==
  /\ frame = "ui" /\ frame' = "poll"
  /\ control \in game.controls /\ game.clicks > 0

Clicked(c) ==
  game' = [game EXCEPT !.clicks = @ - 1,
                       !.faults = @ - Spent(client, c)]

\* A change of the board that is sent to the engine.
Tell(b) ==
  /\ board' = b
  /\ client' \in SendPosition(client, b, game.faults > 0)
  /\ Clicked(client')

Keep(b) == board' = b /\ UNCHANGED client /\ Clicked(client)

Idle == frame = "ui" /\ frame' = "poll" /\ UNCHANGED <<board, client, game>>

\* show_board: only a move that was played is sent.
ClickBoard ==
  LET legal == LegalMoves(board.position) IN
  /\ Uses("click")
  /\ \E s \in Squares :
       LET b == ClickSquare(board, s, legal) IN
       /\ b # board
       /\ IF b.moves # board.moves THEN Tell(b) ELSE Keep(b)

\* show_promotion_picker.
PickPromotion ==
  LET legal == LegalMoves(board.position) IN
  /\ Uses("promotion") /\ board.pending # NoPending
  /\ \E kind \in {m.promotion : m \in board.pending} :
       LET b == ChoosePromotion(board, kind, legal) IN
       IF b.moves # board.moves THEN Tell(b) ELSE Keep(b)

UndoMove ==
  /\ Uses("undo") /\ board.moves # <<>>
  /\ Tell(Undo(board))

NewGame == Uses("new") /\ Tell(Fresh(Startpos, board.mode))

ResignOrReset == Uses("resign") /\ Tell(Resign(board))

ChangeMode ==
  /\ Uses("mode")
  /\ \E mode \in Modes \ {board.mode} : Keep(SetPlayMode(board, mode))

StartEngine ==
  /\ Uses("start") /\ UNCHANGED board
  /\ client' \in Restart(client, game.faults > 0)
  /\ game' = [game EXCEPT !.clicks = @ - 1,
                          !.faults = @ - (IF client'.child THEN 0 ELSE 1)]

StopSearch ==
  /\ Uses("stop") /\ client.searching /\ UNCHANGED board
  /\ client' = Sent(client, StopLine) /\ Clicked(client)

\* The child reads its next line: it answers a go before it reads on, and a
\* stop finds no search in the background.
EngineReads ==
  LET line == Head(client.input)
      legal == LegalMoves(client.at)
      answers == IF legal = {} THEN {NoMove} ELSE {Text(m) : m \in legal}
  IN /\ client.alive /\ client.input # <<>>
     /\ \/ /\ line.line = "position"
           /\ client' = [client EXCEPT !.input = Tail(@), !.at = line.position]
        \/ /\ line.line = "go"
           /\ \E text \in answers :
                client' = [client EXCEPT
                             !.input = Tail(@),
                             !.output = Append(@, BestMove(text, client.at))]
        \/ /\ line.line = "stop"
           /\ client' = [client EXCEPT !.input = Tail(@)]
     /\ UNCHANGED <<board, frame, game>>

\* The thread that reads the child's output.
Deliver ==
  /\ client.output # <<>>
  /\ client' = [client EXCEPT !.output = Tail(@),
                              !.channel = Append(@, Head(client.output))]
  /\ UNCHANGED <<board, frame, game>>

\* The child dies, with or without a word on stderr; what it had written is
\* still read.
Die ==
  /\ client.alive /\ game.faults > 0
  /\ \E words \in {<<>>, <<Stderr>>} :
       client' = [client EXCEPT !.alive = FALSE, !.input = <<>>,
                                !.channel = @ \o words]
  /\ game' = [game EXCEPT !.faults = @ - 1]
  /\ UNCHANGED <<board, frame>>

\* Nothing looks at the time while the child runs.
SecondPasses ==
  /\ client.recent /\ ~ client.alive
  /\ client' = [client EXCEPT !.recent = FALSE]
  /\ UNCHANGED <<board, frame, game>>

Play ==
  \/ ClickBoard \/ PickPromotion \/ UndoMove \/ NewGame \/ ResignOrReset
  \/ ChangeMode \/ StartEngine \/ StopSearch
Draw == Poll \/ Request \/ Idle

Next == Draw \/ Play \/ EngineReads \/ Deliver \/ Die \/ SecondPasses

Spec == Init /\ [][Next]_vars

\* While a move is due or a search runs the window asks to be drawn again,
\* the child and its reader run, and time passes.  Nobody need click.  The
\* first two say WF_vars(Draw) and WF_vars(EngineReads), with what enables
\* them written out: a frame is always enabled, reading when there is a line.
FramesGoOn == []<><<frame' # frame>>_frame
EngineReadsOn ==
  \/ []<>(~ client.alive \/ client.input = <<>>)
  \/ []<><<Len(client'.input) < Len(client.input)>>_client

FairSpec ==
  /\ Spec
  /\ FramesGoOn
  /\ EngineReadsOn
  /\ WF_vars(Deliver)
  /\ WF_vars(SecondPasses)

-----------------------------------------------------------------------------
(* Properties.                                                             *)

\* Every position is drawn before anything in it is selected, so what holds
\* of the positions drawn holds of every position.
Drawn ==
  frame = "poll" /\ board.selected = NoSelection /\ client.channel = <<>>

\* Every position that play leads to is one validate_position accepts:
\* nobody has left the king in check, castling rights are those of a king
\* and a rook still at home, and the hash is that of the position.
PositionsStayValid == Drawn => Valid(board.position)

\* unmake_move gives back, field by field, the position a move was made in.
UnmakeRestores ==
  Drawn => \A m \in LegalMoves(board.position) :
    Unmake(Make(board.position, m), m, UndoOf(board.position, m))
      = board.position

\* The moves generated from bitboards and rays are those the rules allow:
\* pins, checks, castling, en passant and promotion included.
MovesFollowTheRules ==
  Drawn => {Text(m) : m \in LegalMoves(board.position)}
    = MovesOfTheRules(board.position)

\* The board, the list of positions undo goes back through and the moves the
\* engine is told are one game, and what is highlighted belongs to the
\* position on the board, whatever was undone, restarted or played by the
\* engine in between.
OneGame(b) ==
  /\ Len(b.positions) = Len(b.moves) + 1
  /\ b.positions[1] = b.base
  /\ \A k \in DOMAIN b.moves :
       b.positions[k + 1] = Make(b.positions[k], b.moves[k])
  /\ b.position = b.positions[Len(b.positions)]
  /\ PositionOf(b) = b.position

SelectionFits(b, legal) ==
  b.selected # NoSelection =>
    /\ IsHumanTurn(b) /\ Selectable(b, b.selected)
    /\ b.targets \subseteq {m.to : m \in {m \in legal : m.from = b.selected}}

PendingFits(b, legal) ==
  b.pending # NoPending =>
    b.pending = Candidates(legal, b.selected, CHOOSE t \in b.targets : TRUE)

BoardIsOneGame ==
  LET legal == LegalMoves(board.position) IN
  OneGame(board) /\ SelectionFits(board, legal) /\ PendingFits(board, legal)

\* The searches asked for and not answered yet, by where the question or the
\* answer is.
Places(lines, kind) == {n \in DOMAIN lines : lines[n].line = kind}
Outstanding(c) ==
  ({"input"} \X Places(c.input, "go"))
    \cup ({"output"} \X Places(c.output, "bestmove"))
    \cup ({"channel"} \X Places(c.channel, "bestmove"))

\* The engine is never asked twice before it has answered: while the child
\* lives and nothing was dropped, searching says exactly whether an answer is
\* on its way, and the answer is for the position asked about.
OneSearchAtATime ==
  /\ \A x \in Outstanding(client), y \in Outstanding(client) : x = y
  /\ client.alive /\ ~ client.lost =>
       (client.searching <=> Outstanding(client) # {})
  /\ \A lines \in {client.output, client.channel} :
       \A n \in Places(lines, "bestmove") : lines[n].of = client.asked

\* When it is the engine's turn it moves, however often it dies, unless
\* is_running dropped its answer.
EngineReplies == IsEngineTurn(board) ~> (~ IsEngineTurn(board) \/ client.lost)
=============================================================================
