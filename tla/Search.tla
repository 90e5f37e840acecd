------------------------------- MODULE Search -------------------------------
(***************************************************************************)
(* The chess search (crates/chess-search/src/lib.rs): iterative deepening, *)
(* alpha-beta with a transposition table, check extensions and a fail-hard *)
(* quiescence search.                                                      *)
(*                                                                         *)
(* Chess itself is Board; here a game is any finite graph of positions     *)
(* with captures, checks and an evaluation, since nothing in the search    *)
(* depends on more.  A move is named by the position it leads to.          *)
(*                                                                         *)
(* The recursion is a stack whose first frame is the node being searched,  *)
(* and every step is one statement between two calls, because the table is *)
(* written and an abort unwinds between any two of them.  Killers, history *)
(* and the ordering they give (ordered_moves, move_score) are abstracted   *)
(* to trying the moves in any order.                                       *)
(***************************************************************************)
EXTENDS Integers, Sequences, FiniteSetsExt

CONSTANTS
  Positions,         \* the positions of the games
  Games,             \* the games a run looks at
  Slots,             \* the entries of the transposition table
  SlotOf,            \* SlotOf[p]: zobrist % entries
  NoMove,            \* None
  MaxQuiescencePly,  \* MAX_QUIESCENCE_PLY
  MaxPly,            \* bound: the plies the recursion reaches; ply is a u8
  MaxDepth,          \* bound: the depth a search is limited to
  MaxSearches        \* bound: searches before the next new_game

Inf == 32000
MateScore == 30000
MateThreshold == MateScore - 1000

ASSUME SearchConstants ==
  /\ NoMove \notin Positions /\ NoMove \notin Int
  /\ SlotOf \in [Positions -> Slots]
  /\ MaxQuiescencePly \in Nat /\ MaxDepth \in Nat /\ MaxSearches \in Nat
  /\ MaxPly \in 1 .. 255
  /\ \A g \in Games :
       /\ g.root \in Positions
       /\ g.moves \in [Positions -> SUBSET Positions]
       /\ \A p \in Positions : g.noisy[p] \subseteq g.moves[p]
       /\ g.check \subseteq Positions
       /\ g.eval \in [Positions -> Int]

\* No side is ahead by as much as a mate is worth, which takes more men than a
\* game has: nine queens, say, are not ten thousand.
ASSUME EvaluationsBelowMates ==
  \A g \in Games : \A p \in Positions :
    -MateThreshold < g.eval[p] /\ g.eval[p] < MateThreshold

Bigger(a, b) == IF a > b THEN a ELSE b

VARIABLES
  game,      \* the rules: which positions follow which
  position,  \* self.position, the root of the next search
  tt,        \* tt[s]: the entry of slot s, or NoMove
  stack,     \* the calls of search_root, negamax and quiescence, innermost first
  result,    \* the value a call has just returned, or NoMove
  depth,     \* the iteration of the search, 0 when there is none
  limit,     \* max_depth of the search
  best,      \* best_move
  score,     \* last_score of the last iteration that was completed
  reached,   \* the depth of that iteration
  searches   \* searches since new_game

vars == <<game, position, tt, stack, result, depth, limit, best, score,
          reached, searches>>

searchVars == <<game, position, depth, limit, best, score, reached, searches>>

------------------------------------------------------------------------------
(* Scores and the table.                                                   *)

InCheck(p) == p \in game.check

TerminalScore(p, ply) == IF InCheck(p) THEN -(MateScore - ply) ELSE 0

\* A mate is stored as its distance from the position, not from the root.
ScoreToTt(s, ply) ==
  IF s >= MateThreshold THEN s + ply
  ELSE IF s <= -MateThreshold THEN s - ply
  ELSE s

\* Faulty variant: the distance to mate is read as it was stored.
ScoreFromTtUnshifted(s, ply) == s

ScoreFromTt(s, ply) ==
  IF s >= MateThreshold THEN s - ply
  ELSE IF s <= -MateThreshold THEN s + ply
  ELSE s

Probe(p) ==
  LET entry == tt[SlotOf[p]]
  IN  IF entry # NoMove /\ entry.key = p THEN entry ELSE NoMove

Keeps(old, p, d) == old # NoMove /\ old.key # p /\ d < old.depth

Stored(p, d, s, bound, move) ==
  IF Keeps(tt[SlotOf[p]], p, d) THEN tt
  ELSE [tt EXCEPT ![SlotOf[p]] =
          [key |-> p, depth |-> d, score |-> s, bound |-> bound,
           best_move |-> move]]

\* Faulty variant: an entry of any depth answers.
AnswersShallow(entry, d, alpha, beta, ply) ==
  /\ entry # NoMove
  /\ LET s == ScoreFromTt(entry.score, ply)
     IN  \/ entry.bound = "exact"
         \/ entry.bound = "lower" /\ s >= beta
         \/ entry.bound = "upper" /\ s <= alpha

\* Whether an entry answers a node searched to d with the window (alpha, beta).
Answers(entry, d, alpha, beta, ply) ==
  /\ entry # NoMove
  /\ entry.depth >= d
  /\ LET s == ScoreFromTt(entry.score, ply)
     IN  \/ entry.bound = "exact"
         \/ entry.bound = "lower" /\ s >= beta
         \/ entry.bound = "upper" /\ s <= alpha

------------------------------------------------------------------------------
(* Frames.                                                                 *)

\* A call that has not looked at its position yet.  depth is qply in the
\* quiescence search.
Call(kind, p, d, alpha, beta) ==
  [at |-> kind, pos |-> p, depth |-> d, alpha |-> alpha, beta |-> beta,
   original |-> alpha, score |-> -Inf, best |-> NoMove, move |-> NoMove,
   left |-> {}]

Node == Head(stack)
Ply == Len(stack) - 1

Searching == stack # <<>>
At(kind) == Searching /\ result = NoMove /\ Node.at = kind

Becomes(frame) == stack' = <<frame>> \o Tail(stack)
Return(value) == result' = value /\ stack' = Tail(stack)

Init ==
  /\ game \in Games
  /\ position = game.root
  /\ tt = [s \in Slots |-> NoMove]
  /\ stack = <<>>
  /\ result = NoMove
  /\ depth = 0
  /\ limit = 0
  /\ best = NoMove
  /\ score = 0
  /\ reached = 0
  /\ searches = 0

\* The next root: the search has been answered and both sides have moved.
SetPosition ==
  /\ ~Searching
  /\ \E reply \in game.moves[position] :
       /\ position' \in game.moves[reply]
  /\ best' = NoMove /\ score' = 0 /\ reached' = 0
  /\ UNCHANGED <<game, tt, stack, result, depth, limit, searches>>

NewGame ==
  /\ ~Searching
  /\ searches > 0
  /\ tt' = [s \in Slots |-> NoMove]
  /\ best' = NoMove /\ score' = 0 /\ reached' = 0
  /\ searches' = 0
  /\ UNCHANGED <<game, position, stack, result, depth, limit>>

RootCall(d) ==
  [Call("root", position, d, -Inf, Inf) EXCEPT !.left = game.moves[position]]

\* search: a position without moves is answered at once.
Search(d) ==
  /\ ~Searching
  /\ searches < MaxSearches
  /\ searches' = searches + 1
  /\ limit' = d
  /\ reached' = 0
  /\ score' = TerminalScore(position, 0)
  /\ IF game.moves[position] = {}
     THEN best' = NoMove /\ UNCHANGED <<stack, depth>>
     ELSE /\ best' \in game.moves[position]
          /\ depth' = 1
          /\ stack' = <<RootCall(1)>>
  /\ UNCHANGED <<game, position, tt, result>>

\* check_abort, at every node and before every root move: a stop, the deadline
\* or the node limit ends the search with what the last iteration found.
Abort ==
  /\ \/ \E kind \in {"negamax", "quiescence"} : At(kind)
     \/ At("root") /\ Node.left # {}
  /\ stack' = <<>>
  /\ depth' = 0
  /\ UNCHANGED <<game, position, tt, result, limit, best, score, reached,
                 searches>>

------------------------------------------------------------------------------
(* negamax.                                                                *)

Extended(f) == IF InCheck(f.pos) /\ f.depth <= 0 THEN 1 ELSE f.depth

\* At the horizon the quiescence search takes over, unless the side to move is
\* in check; then a table entry or the end of the game may answer at once.
EnterNegamax ==
  /\ At("negamax")
  /\ LET f == Node
         d == Extended(f)
         entry == Probe(f.pos)
     IN  IF d <= 0
         THEN /\ Becomes(Call("quiescence", f.pos, 0, f.alpha, f.beta))
              /\ UNCHANGED result
         ELSE IF Answers(entry, d, f.alpha, f.beta, Ply)
         THEN Return(ScoreFromTt(entry.score, Ply))
         ELSE IF game.moves[f.pos] = {}
         THEN Return(TerminalScore(f.pos, Ply))
         ELSE /\ Becomes([f EXCEPT !.at = "loop", !.depth = d,
                                   !.left = game.moves[f.pos]])
              /\ UNCHANGED result
  /\ UNCHANGED <<searchVars, tt>>

\* The next move of a node, searched with the window seen from the other side.
TryMove ==
  /\ Searching /\ result = NoMove
  /\ Ply < MaxPly
  /\ Node.at \in {"root", "loop", "captures"}
  /\ \E m \in Node.left :
       LET f == Node
           child == IF f.at = "captures"
                    THEN Call("quiescence", m, f.depth + 1, -f.beta, -f.alpha)
                    ELSE Call("negamax", m, f.depth - 1, -f.beta, -f.alpha)
       IN  stack' = <<child, [f EXCEPT !.move = m, !.left = @ \ {m}]>>
                      \o Tail(stack)
  /\ UNCHANGED <<searchVars, tt, result>>

\* A move's score: it may raise alpha, and one that reaches beta ends the node.
TakeScore ==
  /\ Searching /\ result # NoMove /\ Node.at = "loop"
  /\ LET f == Node
         s == -result
         better == s > f.score
         g == [f EXCEPT !.score = Bigger(f.score, s),
                        !.best = IF better THEN f.move ELSE f.best,
                        !.alpha = Bigger(f.alpha, s)]
     IN  IF s > f.alpha /\ s >= f.beta
         THEN /\ tt' = Stored(f.pos, f.depth, ScoreToTt(s, Ply), "lower", g.best)
              /\ Return(s)
         ELSE Becomes(g) /\ result' = NoMove /\ UNCHANGED tt
  /\ UNCHANGED searchVars

LeaveNegamax ==
  /\ At("loop") /\ Node.left = {}
  /\ LET f == Node
         bound == IF f.score <= f.original THEN "upper" ELSE "exact"
     IN  /\ tt' = Stored(f.pos, f.depth, ScoreToTt(f.score, Ply), bound, f.best)
         /\ Return(f.score)
  /\ UNCHANGED searchVars

------------------------------------------------------------------------------
(* quiescence.                                                             *)

\* Out of check only captures and promotions, and checks at the first ply.
QuiescenceMoves(p, qply) ==
  {m \in game.moves[p] :
     InCheck(p) \/ m \in game.noisy[p] \/ (qply = 0 /\ InCheck(m))}

EnterQuiescence ==
  /\ At("quiescence")
  /\ LET f == Node
         pat == game.eval[f.pos]
         alpha == IF InCheck(f.pos) THEN f.alpha ELSE Bigger(f.alpha, pat)
         moves == QuiescenceMoves(f.pos, f.depth)
     IN  IF ~InCheck(f.pos) /\ pat >= f.beta
         THEN Return(f.beta)
         ELSE IF ~InCheck(f.pos) /\ f.depth >= MaxQuiescencePly
         THEN Return(alpha)
         ELSE IF game.moves[f.pos] = {}
         THEN Return(TerminalScore(f.pos, Ply))
         ELSE /\ Becomes([f EXCEPT !.at = "captures", !.alpha = alpha,
                                   !.left = moves])
              /\ UNCHANGED result
  /\ UNCHANGED <<searchVars, tt>>

TakeCapture ==
  /\ Searching /\ result # NoMove /\ Node.at = "captures"
  /\ LET s == -result
     IN  IF s >= Node.beta
         THEN Return(Node.beta)
         ELSE /\ Becomes([Node EXCEPT !.alpha = Bigger(@, s)])
              /\ result' = NoMove
  /\ UNCHANGED <<searchVars, tt>>

LeaveQuiescence ==
  /\ At("captures") /\ Node.left = {}
  /\ Return(Node.alpha)
  /\ UNCHANGED <<searchVars, tt>>

------------------------------------------------------------------------------
(* search_root and the iterations.                                         *)

TakeRootScore ==
  /\ Searching /\ result # NoMove /\ Node.at = "root"
  /\ LET s == -result
     IN  Becomes([Node EXCEPT !.score = Bigger(@, s),
                              !.best = IF s > Node.score THEN Node.move ELSE @,
                              !.alpha = Bigger(@, s)])
  /\ result' = NoMove
  /\ UNCHANGED <<searchVars, tt>>

\* An iteration is complete: its move and score count from here on.
LeaveRoot ==
  /\ At("root") /\ Node.left = {}
  /\ tt' = Stored(position, depth, ScoreToTt(Node.score, 0), "exact", Node.best)
  /\ best' = Node.best
  /\ score' = Node.score
  /\ reached' = depth
  /\ IF depth < limit
     THEN depth' = depth + 1 /\ stack' = <<RootCall(depth + 1)>>
     ELSE depth' = 0 /\ stack' = <<>>
  /\ UNCHANGED <<game, position, result, limit, searches>>

Next ==
  \/ SetPosition
  \/ NewGame
  \/ \E d \in 1 .. MaxDepth : Search(d)
  \/ Abort
  \/ EnterNegamax
  \/ TryMove
  \/ TakeScore
  \/ LeaveNegamax
  \/ EnterQuiescence
  \/ TakeCapture
  \/ LeaveQuiescence
  \/ TakeRootScore
  \/ LeaveRoot

Spec == Init /\ [][Next]_vars

------------------------------------------------------------------------------
(* Properties.                                                             *)

\* What the values mean without window, table or order, by the plies that are
\* left of MaxPly.
Quiet[n \in 0 .. MaxPly] ==
  [p \in Positions |-> [qply \in Nat |->
     LET values == {-Quiet[n - 1][m][qply + 1] : m \in QuiescenceMoves(p, qply)}
     IN  IF ~InCheck(p) /\ qply >= MaxQuiescencePly THEN game.eval[p]
         ELSE IF game.moves[p] = {} THEN TerminalScore(p, MaxPly - n)
         ELSE IF n = 0 THEN game.eval[p]
         ELSE IF InCheck(p) THEN Max(values)
         ELSE Max(values \cup {game.eval[p]})]]

Minimax[n \in 0 .. MaxPly] ==
  [p \in Positions |-> [d \in Int |->
     IF d <= 0 /\ ~InCheck(p) THEN Quiet[n][p][0]
     ELSE IF game.moves[p] = {} THEN TerminalScore(p, MaxPly - n)
     ELSE IF n = 0 THEN game.eval[p]
     ELSE Max({-Minimax[n - 1][m][Bigger(d, 1) - 1] : m \in game.moves[p]})]]

\* The positions n plies from the root.
Reached[n \in 0 .. MaxPly] ==
  IF n = 0 THEN {position} ELSE UNION {game.moves[p] : p \in Reached[n - 1]}

\* No position is met at two distances from the root, so the table never
\* answers with a deeper search; and a stalemate is evaluated as a draw, so
\* quiescence may stand pat on it.
Plain ==
  /\ \A m, n \in 0 .. MaxPly : m # n => Reached[m] \cap Reached[n] = {}
  /\ \A p \in Positions :
       game.moves[p] = {} /\ ~InCheck(p) => game.eval[p] = 0

\* Whatever the order of the moves, the cutoffs and the table, the score of an
\* iteration is the minimax value, and the move it chooses attains it.
ScoresAreMinimax ==
  [][reached' > reached /\ searches = 1 /\ Plain =>
       /\ score' = Minimax[MaxPly][position][reached']
       /\ score' = -Minimax[MaxPly - 1][best'][reached' - 1]]_vars

MateHorizon == MateScore - MateThreshold

\* The positions in which the side to move can force mate within n plies, and
\* those in which it is mated within n plies.
Forced[n \in 0 .. MateHorizon] ==
  LET sooner == Forced[n - 1]
  IN  [mates |-> {p \in Positions :
                    n > 0 /\ \E m \in game.moves[p] : m \in sooner.mated},
       mated |-> {p \in Positions :
                    IF game.moves[p] = {} THEN InCheck(p)
                    ELSE n > 0 /\ game.moves[p] \subseteq sooner.mates}]

Mates(p, n) == n \in 0 .. MateHorizon /\ p \in Forced[n].mates
Mated(p, n) == n \in 0 .. MateHorizon /\ p \in Forced[n].mated

\* A value of p, at ply 0, claims no mate that is not there.
Honest(p, s, lower, upper) ==
  /\ lower /\ s >= MateThreshold => Mates(p, MateScore - s)
  /\ upper /\ s <= -MateThreshold => Mated(p, MateScore + s)

\* Across aborted iterations, replaced entries, later positions and a table
\* kept from the searches before, every mate announced, and every mate noted in
\* the table, can be forced within the number of plies it claims.
MatesAreForced ==
  [][/\ reached' > reached => Honest(position, score', TRUE, TRUE)
     /\ \A slot \in Slots :
          LET e == tt'[slot]
          IN  e # tt[slot] /\ e # NoMove =>
                Honest(e.key, e.score, e.bound # "upper", e.bound # "lower")]_vars
=============================================================================
