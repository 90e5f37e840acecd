-------------------------------- MODULE Board --------------------------------
(***************************************************************************)
(* The rules of chess as chess-core plays them: move generation, making    *)
(* and unmaking a move, and what validate_position asks of a position.     *)
(*                                                                         *)
(* A bitboard is a set of squares, numbered from a1 = 0 to h8 = 63.  The   *)
(* Zobrist hash is the set of features whose keys compute_zobrist XORs     *)
(* together, so two positions never share a hash by accident.  FEN text    *)
(* and the order of generated moves are left out.                          *)
(***************************************************************************)
EXTENDS Integers, FiniteSets, SequencesExt

Colors == {"white", "black"}
Kinds == {"pawn", "knight", "bishop", "rook", "queen", "king"}
Opposite(c) == IF c = "white" THEN "black" ELSE "white"

Squares == 0 .. 63
NoSquare == 64
File(s) == s % 8
Rank(s) == s \div 8
OnBoard(f, r) == f \in 0 .. 7 /\ r \in 0 .. 7
NoPiece == [color |-> "none", kind |-> "none"]

\* The side a player castles on, with the squares of king and rook.
Wings == {"kingside", "queenside"}
Home(c) == IF c = "white" THEN 0 ELSE 56
KingHome(c) == Home(c) + 4
RookHome(c, w) == Home(c) + (IF w = "kingside" THEN 7 ELSE 0)
KingTo(c, w) == Home(c) + (IF w = "kingside" THEN 6 ELSE 2)
RookTo(c, w) == Home(c) + (IF w = "kingside" THEN 5 ELSE 3)

MaxClock == 65535
Saturated(n) == IF n < MaxClock THEN n + 1 ELSE n

-----------------------------------------------------------------------------
(* Positions.                                                              *)

\* sync_occupancy.
OccupiedBy(pieces) == [c \in Colors |-> UNION {pieces[c][k] : k \in Kinds}]

\* compute_zobrist: of the en passant square only the file counts.
Hash(p) ==
  [pieces |-> p.pieces, side |-> p.side, castle |-> p.castle,
   file |-> IF p.ep = NoSquare THEN {} ELSE {File(p.ep)}]

\* sync_derived.
Synced(p) == LET q == [p EXCEPT !.occupied = OccupiedBy(p.pieces)]
             IN [q EXCEPT !.hash = Hash(q)]

AllOccupied(p) == p.occupied["white"] \cup p.occupied["black"]

PieceAt(p, s) ==
  IF s \notin AllOccupied(p) THEN NoPiece
  ELSE LET c == IF s \in p.occupied["white"] THEN "white" ELSE "black"
       IN [color |-> c, kind |-> CHOOSE k \in Kinds : s \in p.pieces[c][k]]

Piece(c, k) == [color |-> c, kind |-> k]
Added(pieces, s, x) == [pieces EXCEPT ![x.color][x.kind] = @ \cup {s}]
Removed(pieces, s, x) == [pieces EXCEPT ![x.color][x.kind] = @ \ {s}]

KingSquare(p, c) ==
  IF Cardinality(p.pieces[c]["king"]) = 1
  THEN CHOOSE s \in p.pieces[c]["king"] : TRUE ELSE NoSquare

\* What a Position can hold, whether or not it makes sense.
Bitboards == [Colors -> [Kinds -> SUBSET Squares]]
Rights == SUBSET (Colors \X Wings)
Positions ==
  [side : Colors, pieces : Bitboards, occupied : [Colors -> SUBSET Squares],
   castle : Rights, ep : Squares \cup {NoSquare},
   halfmove : 0 .. MaxClock, fullmove : 0 .. MaxClock,
   hash : [pieces : Bitboards, side : Colors, castle : Rights,
           file : SUBSET (0 .. 7)]]

-----------------------------------------------------------------------------
(* Attacks.                                                                *)

Diagonals == {1, -1} \X {1, -1}
Straights == {<<1, 0>>, <<-1, 0>>, <<0, 1>>, <<0, -1>>}
Leaps == ({1, -1} \X {2, -2}) \cup ({2, -2} \X {1, -1})
Steps == Diagonals \cup Straights

Targets(s, offsets) ==
  {s + d[1] + 8 * d[2] :
     d \in {o \in offsets : OnBoard(File(s) + o[1], Rank(s) + o[2])}}

KnightAttacks == [s \in Squares |-> Targets(s, Leaps)]
KingAttacks == [s \in Squares |-> Targets(s, Steps)]

\* The squares from s in direction d, as far as the board goes.
Ray == [s \in Squares |-> [d \in Steps |->
  LET reach == {n \in 1 .. 7 : OnBoard(File(s) + n * d[1], Rank(s) + n * d[2])}
  IN [n \in 1 .. Cardinality(reach) |-> s + n * (d[1] + 8 * d[2])]]]

\* How far a slider sees along a ray: to the first occupied square.
Sight(occupied, s, d) ==
  LET hit == SelectInSeq(Ray[s][d], LAMBDA t : t \in occupied)
  IN IF hit = 0 THEN Len(Ray[s][d]) ELSE hit

SeenFrom(occupied, s, directions) ==
  UNION {{Ray[s][d][n] : n \in 1 .. Sight(occupied, s, d)} : d \in directions}

\* Where a pawn of colour c may capture from s.
Forward(c) == IF c = "white" THEN 1 ELSE -1
PawnAttacks(c, s) == Targets(s, {<<1, Forward(c)>>, <<-1, Forward(c)>>})

\* is_square_attacked looks from the square towards the attackers.
IsSquareAttacked(p, s, by) ==
  LET its == p.pieces[by]
      occupied == AllOccupied(p)
  IN
  \/ PawnAttacks(Opposite(by), s) \cap its["pawn"] # {}
  \/ KnightAttacks[s] \cap its["knight"] # {}
  \/ KingAttacks[s] \cap its["king"] # {}
  \/ SeenFrom(occupied, s, Diagonals)
       \cap (its["bishop"] \cup its["queen"]) # {}
  \/ SeenFrom(occupied, s, Straights)
       \cap (its["rook"] \cup its["queen"]) # {}

InCheck(p, c) ==
  KingSquare(p, c) # NoSquare
    /\ IsSquareAttacked(p, KingSquare(p, c), Opposite(c))

-----------------------------------------------------------------------------
(* Moves.                                                                  *)

Promotions == {"queen", "rook", "bishop", "knight"}
NoPromotion == "none"
Move(from, to, kind) ==
  [from |-> from, to |-> to, kind |-> kind, promotion |-> NoPromotion]
PromotionMoves(from, to, kind) ==
  {[from |-> from, to |-> to, kind |-> kind, promotion |-> k] :
     k \in Promotions}

\* What must stand around an en passant square for side to capture there.
EnPassantStands(p, ep, side) ==
  /\ Rank(ep) = (IF side = "white" THEN 5 ELSE 2)
  /\ PieceAt(p, ep) = NoPiece
  /\ PieceAt(p, ep - 8 * Forward(side)) = Piece(Opposite(side), "pawn")
  /\ PieceAt(p, ep + 8 * Forward(side)) = NoPiece

PawnPushes(p, from) ==
  LET one == from + 8 * Forward(p.side)
      two == from + 16 * Forward(p.side)
      start == IF p.side = "white" THEN 1 ELSE 6
  IN IF one \notin Squares \/ one \in AllOccupied(p) THEN {}
     ELSE (IF Rank(one) \in {0, 7} THEN PromotionMoves(from, one, "promotion")
           ELSE {Move(from, one, "quiet")})
            \cup (IF Rank(from) = start /\ two \notin AllOccupied(p)
                  THEN {Move(from, two, "double")} ELSE {})

PawnCaptures(p, from, to) ==
  LET enemy == Opposite(p.side) IN
  IF to \in p.occupied[enemy]
  THEN IF to \in p.pieces[enemy]["king"] THEN {}
       ELSE IF Rank(to) \in {0, 7}
       THEN PromotionMoves(from, to, "promotionCapture")
       ELSE {Move(from, to, "capture")}
  ELSE IF p.ep = to /\ EnPassantStands(p, to, p.side)
       THEN {Move(from, to, "enPassant")} ELSE {}

PawnMovesFrom(p, from) ==
  PawnPushes(p, from)
    \cup (UNION {PawnCaptures(p, from, to) : to \in PawnAttacks(p.side, from)})
PawnMoves(p) ==
  UNION {PawnMovesFrom(p, from) : from \in p.pieces[p.side]["pawn"]}

\* A piece goes to any square it sees, but never takes a king.
PieceMoves(p, from, seen) ==
  {Move(from, to, IF to \in p.occupied[Opposite(p.side)]
                  THEN "capture" ELSE "quiet") :
     to \in seen \ (p.occupied[p.side]
                      \cup p.pieces[Opposite(p.side)]["king"])}

KnightMoves(p) ==
  UNION {PieceMoves(p, from, KnightAttacks[from]) :
           from \in p.pieces[p.side]["knight"]}

SliderMovesOf(p, kind, directions) ==
  UNION {PieceMoves(p, from, SeenFrom(AllOccupied(p), from, directions)) :
           from \in p.pieces[p.side][kind]}
SliderMoves(p) ==
  SliderMovesOf(p, "bishop", Diagonals) \cup SliderMovesOf(p, "rook", Straights)
    \cup SliderMovesOf(p, "queen", Steps)

\* What lies between king and rook, and what the king stands on and crosses.
Between(c, w) ==
  (KingHome(c) + 1 .. RookHome(c, w) - 1)
    \cup (RookHome(c, w) + 1 .. KingHome(c) - 1)
\* Faulty variant: the square the king crosses is not looked at.
CrossedEnds(c, w) == {KingHome(c), KingTo(c, w)}
Crossed(c, w) == {KingHome(c), RookTo(c, w), KingTo(c, w)}

\* generate_castles.
MayCastle(p, c, w) ==
  /\ KingSquare(p, c) = KingHome(c)
  /\ <<c, w>> \in p.castle
  /\ PieceAt(p, RookHome(c, w)) = Piece(c, "rook")
  /\ Between(c, w) \cap AllOccupied(p) = {}
  /\ \A s \in Crossed(c, w) : ~ IsSquareAttacked(p, s, Opposite(c))

CastleKind(w) ==
  IF w = "kingside" THEN "castleKingside" ELSE "castleQueenside"
Castles(p) ==
  {Move(KingHome(p.side), KingTo(p.side, w), CastleKind(w)) :
     w \in {w \in Wings : MayCastle(p, p.side, w)}}

KingMoves(p) ==
  LET from == KingSquare(p, p.side) IN
  IF from = NoSquare THEN {}
  ELSE PieceMoves(p, from, KingAttacks[from]) \cup Castles(p)

PseudoLegalMoves(p) ==
  PawnMoves(p) \cup KnightMoves(p) \cup SliderMoves(p) \cup KingMoves(p)

-----------------------------------------------------------------------------
(* Making and unmaking a move.                                             *)

\* Where the captured piece stands.
CaptureSquare(m, side) ==
  IF m.kind = "enPassant" THEN m.to - 8 * Forward(side) ELSE m.to

Captured(p, m) ==
  IF m.kind = "enPassant" THEN Piece(Opposite(p.side), "pawn")
  ELSE PieceAt(p, m.to)

\* update_castle_rights: a right goes when the king or its rook moves, and
\* when the rook is taken where it stands.
RightsMoved(p, m) ==
  LET moved == PieceAt(p, m.from).kind IN
  {<<p.side, w>> : w \in {w \in Wings :
     moved = "king" \/ (moved = "rook" /\ m.from = RookHome(p.side, w))}}

\* Faulty variant: a captured rook does not cost its owner the right.
RightsTakenNever(p, m) == {}
RightsTaken(p, m) ==
  LET enemy == Opposite(p.side) IN
  {<<enemy, w>> : w \in {w \in Wings :
     Captured(p, m).kind = "rook" /\ m.to = RookHome(enemy, w)}}

WingOf(m) == IF m.kind = "castleKingside" THEN "kingside" ELSE "queenside"
IsCastle(m) == m.kind \in {"castleKingside", "castleQueenside"}
IsPromotion(m) == m.kind \in {"promotion", "promotionCapture"}

PiecesAfter(p, m) ==
  LET moved == PieceAt(p, m.from)
      lifted == Removed(p.pieces, m.from, moved)
      taken == IF Captured(p, m) = NoPiece THEN lifted
               ELSE Removed(lifted, CaptureSquare(m, p.side), Captured(p, m))
      placed == Added(taken, m.to, IF IsPromotion(m)
                                   THEN Piece(p.side, m.promotion) ELSE moved)
      rook == Piece(p.side, "rook")
  IN IF IsCastle(m)
     THEN Added(Removed(placed, RookHome(p.side, WingOf(m)), rook),
                RookTo(p.side, WingOf(m)), rook)
     ELSE placed

\* make_legal_move_unchecked_fast leaves the hash behind.
MakeFast(p, m) ==
  LET pieces == PiecesAfter(p, m) IN
  [side |-> Opposite(p.side),
   pieces |-> pieces,
   occupied |-> OccupiedBy(pieces),
   castle |-> p.castle \ (RightsMoved(p, m) \cup RightsTaken(p, m)),
   ep |-> IF m.kind = "double" THEN m.from + 8 * Forward(p.side) ELSE NoSquare,
   halfmove |-> IF PieceAt(p, m.from).kind = "pawn"
                     \/ Captured(p, m) # NoPiece
                THEN 0 ELSE Saturated(p.halfmove),
   fullmove |-> IF p.side = "black" THEN Saturated(p.fullmove)
                ELSE p.fullmove,
   hash |-> p.hash]

Make(p, m) == Synced(MakeFast(p, m))

UndoOf(p, m) ==
  [captured |-> Captured(p, m), castle |-> p.castle, ep |-> p.ep,
   halfmove |-> p.halfmove, fullmove |-> p.fullmove, hash |-> p.hash]

\* Faulty variant: the captured piece comes back on the target square.
RestoreOnTarget(m, side) == m.to
\* Where unmake_move puts the captured piece back.
RestoreSquare(m, side) ==
  IF m.kind = "enPassant" THEN m.to - 8 * Forward(side) ELSE m.to

Unmake(p, m, undo) ==
  LET side == Opposite(p.side)
      moved == PieceAt(p, m.to)
      lifted == Removed(p.pieces, m.to, moved)
      back == Added(lifted, m.from, IF IsPromotion(m)
                                    THEN Piece(side, "pawn") ELSE moved)
      rook == Piece(side, "rook")
      unrooked == IF IsCastle(m)
                  THEN Added(Removed(back, RookTo(side, WingOf(m)), rook),
                             RookHome(side, WingOf(m)), rook)
                  ELSE back
      pieces == IF undo.captured = NoPiece THEN unrooked
                ELSE Added(unrooked, RestoreSquare(m, side), undo.captured)
  IN [side |-> side, pieces |-> pieces, occupied |-> OccupiedBy(pieces),
      castle |-> undo.castle, ep |-> undo.ep, halfmove |-> undo.halfmove,
      fullmove |-> undo.fullmove, hash |-> undo.hash]

\* move_leaves_king_safe, on a copy whose hash nobody reads.
LegalMoves(p) ==
  {m \in PseudoLegalMoves(p) : ~ InCheck(MakeFast(p, m), p.side)}

-----------------------------------------------------------------------------
(* validate_position.                                                      *)

Disjoint(p) ==
  \A c \in Colors, d \in Colors, k \in Kinds, l \in Kinds :
    <<c, k>> # <<d, l>> => p.pieces[c][k] \cap p.pieces[d][l] = {}

RightsStand(p) ==
  \A c \in Colors, w \in Wings :
    <<c, w>> \in p.castle =>
      /\ PieceAt(p, KingHome(c)) = Piece(c, "king")
      /\ PieceAt(p, RookHome(c, w)) = Piece(c, "rook")

Valid(p) ==
  /\ Disjoint(p)
  /\ p.occupied = OccupiedBy(p.pieces)
  /\ p.hash = Hash(p)
  /\ \A c \in Colors :
       /\ Cardinality(p.occupied[c]) <= 16
       /\ Cardinality(p.pieces[c]["king"]) = 1
       /\ \A s \in p.pieces[c]["pawn"] : Rank(s) \in 1 .. 6
  /\ KingSquare(p, "black") \notin KingAttacks[KingSquare(p, "white")]
  /\ ~ InCheck(p, Opposite(p.side))
  /\ RightsStand(p)
  /\ p.ep # NoSquare => EnPassantStands(p, p.ep, p.side)

-----------------------------------------------------------------------------
(* The rules of chess again, said from the pieces' side and without        *)
(* bitboards: the reference for LegalMoves.                                *)

Distance(a, b) == IF a < b THEN b - a ELSE a - b
FilesApart(s, t) == Distance(File(s), File(t))
RanksApart(s, t) == Distance(Rank(s), Rank(t))

\* What stands where.
Diagram(p) == [s \in Squares |->
  IF \E c \in Colors, k \in Kinds : s \in p.pieces[c][k]
  THEN CHOOSE x \in [color : Colors, kind : Kinds] :
         s \in p.pieces[x.color][x.kind]
  ELSE NoPiece]

InLine(s, t, u) ==
  /\ u \notin {s, t}
  /\ FilesApart(s, u) + FilesApart(u, t) = FilesApart(s, t)
  /\ RanksApart(s, u) + RanksApart(u, t) = RanksApart(s, t)
  /\ FilesApart(s, u) * RanksApart(s, t) = RanksApart(s, u) * FilesApart(s, t)

\* The squares strictly between two squares of a rank, file or diagonal.
InBetween == [s \in Squares |-> [t \in Squares |->
  {u \in Squares : InLine(s, t, u)}]]

\* The piece on s attacks t.
Attacks(d, s, t) ==
  LET files == FilesApart(s, t)
      ranks == RanksApart(s, t)
      open == \A u \in InBetween[s][t] : d[u] = NoPiece
      straight == (files = 0 \/ ranks = 0) /\ open
      diagonal == files = ranks /\ open
  IN /\ s # t
     /\ CASE d[s].kind = "knight" -> {files, ranks} = {1, 2}
          [] d[s].kind = "king" -> files <= 1 /\ ranks <= 1
          [] d[s].kind = "rook" -> straight
          [] d[s].kind = "bishop" -> diagonal
          [] d[s].kind = "queen" -> straight \/ diagonal
          [] d[s].kind = "pawn" ->
               files = 1 /\ Rank(t) = Rank(s) + Forward(d[s].color)
          [] OTHER -> FALSE

Men(d, c) == {s \in Squares : d[s].color = c}
AttackedBy(d, c, t) == \E s \in Men(d, c) : Attacks(d, s, t)
KingAttacked(d, c) ==
  \E t \in Men(d, c) : d[t].kind = "king" /\ AttackedBy(d, Opposite(c), t)

\* A pawn that changes file to an empty square takes the pawn it passes; a
\* king that goes two files takes its rook across.
Played(d, s, t, promotion) ==
  LET c == d[s].color
      passed == {u \in Squares : /\ d[s].kind = "pawn" /\ d[t] = NoPiece
                                 /\ File(u) = File(t) /\ File(u) # File(s)
                                 /\ Rank(u) = Rank(s)}
      wing == {w \in Wings : /\ d[s].kind = "king" /\ FilesApart(s, t) = 2
                             /\ t = KingTo(c, w)}
      man == IF promotion = NoPromotion THEN d[s] ELSE Piece(c, promotion)
  IN [u \in Squares |->
        IF u = t THEN man
        ELSE IF u = s \/ u \in passed \cup {RookHome(c, w) : w \in wing}
        THEN NoPiece
        ELSE IF u \in {RookTo(c, w) : w \in wing} THEN Piece(c, "rook")
        ELSE d[u]]

PawnMay(p, d, s, t) ==
  LET c == p.side IN
  \/ Attacks(d, s, t) /\ (d[t].color = Opposite(c) \/ t = p.ep)
  \/ /\ File(t) = File(s) /\ d[t] = NoPiece
     /\ \/ Rank(t) = Rank(s) + Forward(c)
        \/ /\ Rank(s) = (IF c = "white" THEN 1 ELSE 6)
           /\ Rank(t) = Rank(s) + 2 * Forward(c)
           /\ \A u \in InBetween[s][t] : d[u] = NoPiece

KingMayCastle(p, d, s, t) ==
  \E w \in Wings :
    /\ <<p.side, w>> \in p.castle
    /\ s = KingHome(p.side) /\ t = KingTo(p.side, w)
    /\ \A u \in InBetween[s][RookHome(p.side, w)] : d[u] = NoPiece
    /\ \A u \in {s, t} \cup InBetween[s][t] :
         ~ AttackedBy(d, Opposite(p.side), u)

MayGo(p, d, s, t) ==
  IF d[s].kind = "pawn" THEN PawnMay(p, d, s, t)
  ELSE \/ Attacks(d, s, t)
       \/ d[s].kind = "king" /\ KingMayCastle(p, d, s, t)

Becomes(d, s, t) ==
  IF d[s].kind = "pawn" /\ Rank(t) \in {0, 7} THEN Promotions
  ELSE {NoPromotion}

\* The moves the rules allow: from, to and what a pawn becomes.
MovesOfTheRules(p) ==
  LET d == Diagram(p)
      reached(s) ==
        {t \in Squares : /\ d[t].color # p.side
                        /\ MayGo(p, d, s, t)
                        /\ ~ KingAttacked(Played(d, s, t, NoPromotion), p.side)}
  IN UNION {UNION {{[from |-> s, to |-> t, promotion |-> k] :
                      k \in Becomes(d, s, t)} : t \in reached(s)} :
              s \in Men(d, p.side)}

\* The text of a move: what UCI sends and a player means.
Text(m) == [from |-> m.from, to |-> m.to, promotion |-> m.promotion]
=============================================================================
