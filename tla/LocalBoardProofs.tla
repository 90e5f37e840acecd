--------------------------- MODULE LocalBoardProofs ---------------------------
(***************************************************************************)
(* Proofs about the local board, for every starting position and every     *)
(* set of games it may be given.                                           *)
(*                                                                         *)
(* The argument goes from the board outwards.  A pseudo-legal move is      *)
(* Possible: a piece of the side to move stands on its first square, and   *)
(* what stands on its last one is the other side's or nothing.  Make of a  *)
(* possible move keeps the bitboards Coherent, one kind of one side on a   *)
(* square and the occupancies their unions, and Unmake gives back what was *)
(* there.  A legal move also leaves no king behind to be taken, so it      *)
(* leads from a Valid position to a Valid one.  That the moves are those   *)
(* of the rules is read off the same bitboards: a ray lists the squares of *)
(* a line, a slider sees what no man stands before, and Make does to the   *)
(* bitboards what the move does to the diagram, so a king is in check in   *)
(* one where it is attacked in the other.  With that, the window's         *)
(* handlers keep GoodBoard: the positions undo goes back through, the      *)
(* moves and the selection are those of one game.  The engine's side keeps *)
(* GoodClient: what stands in the pipes, from the last position sent to    *)
(* the answer not yet polled, has at most one place a search can be. IInv  *)
(* is the two together.  Neither property is inductive alone: that an      *)
(* answer belongs to the position asked about needs the order of lines in  *)
(* both pipes, and a board is only valid after undo because every position *)
(* it kept is.                                                             *)
(***************************************************************************)
EXTENDS LocalBoard, FiniteSetTheorems, SequenceTheorems, WellFoundedInduction,
        TLAPS

-----------------------------------------------------------------------------
(* Squares.                                                                *)

LEMMA SquareParts ==
  ASSUME NEW s \in Squares
  PROVE  File(s) \in 0 .. 7 /\ Rank(s) \in 0 .. 7 /\ s = File(s) + 8 * Rank(s)
BY DEF Squares, File, Rank

LEMMA SquareFrom ==
  ASSUME NEW f \in 0 .. 7, NEW r \in 0 .. 7
  PROVE  File(f + 8 * r) = f /\ Rank(f + 8 * r) = r /\ f + 8 * r \in Squares
BY DEF Squares, File, Rank

\* n steps of direction d from s lead to the square n files and ranks away.
LEMMA Stepped ==
  ASSUME NEW s \in Squares, NEW n \in 1 .. 7,
         NEW d \in Steps \cup Leaps,
         OnBoard(File(s) + n * d[1], Rank(s) + n * d[2])
  PROVE  /\ s + n * (d[1] + 8 * d[2]) \in Squares
         /\ File(s + n * (d[1] + 8 * d[2])) = File(s) + n * d[1]
         /\ Rank(s + n * (d[1] + 8 * d[2])) = Rank(s) + n * d[2]
<1> DEFINE f == File(s) + n * d[1]
           r == Rank(s) + n * d[2]
<1>1. d[1] \in -2 .. 2 /\ d[2] \in -2 .. 2
  BY DEF Steps, Leaps, Diagonals, Straights
<1>2. f \in 0 .. 7 /\ r \in 0 .. 7
  BY DEF OnBoard
<1>3. File(s) \in Int /\ Rank(s) \in Int /\ s = File(s) + 8 * Rank(s)
  BY SquareParts
<1>4. n * (d[1] + 8 * d[2]) = n * d[1] + 8 * (n * d[2])
  BY <1>1
<1>5. n * d[1] \in Int /\ n * d[2] \in Int
  BY <1>1
<1>6. s + n * (d[1] + 8 * d[2]) = f + 8 * r
  BY <1>3, <1>4, <1>5
<1> HIDE DEF f, r
<1> QED
  BY <1>2, <1>6, SquareFrom DEF f, r

LEMMA TargetsOnBoard ==
  ASSUME NEW s \in Squares, NEW offsets \in SUBSET (Steps \cup Leaps)
  PROVE  Targets(s, offsets) \subseteq Squares
<1> SUFFICES ASSUME NEW d \in offsets,
                    OnBoard(File(s) + d[1], Rank(s) + d[2])
             PROVE  s + d[1] + 8 * d[2] \in Squares
  BY DEF Targets
<1>1. d[1] \in Int /\ d[2] \in Int
  BY DEF Steps, Leaps, Diagonals, Straights
<1>2. 1 * d[1] = d[1] /\ 1 * d[2] = d[2]
  BY <1>1
<1>3. s + 1 * (d[1] + 8 * d[2]) \in Squares
  BY <1>2, Stepped
<1>4. s \in Int
  BY DEF Squares
<1> QED
  BY <1>1, <1>3, <1>4

LEMMA LeapsOnBoard ==
  ASSUME NEW s \in Squares
  PROVE  /\ KnightAttacks[s] \subseteq Squares
         /\ KingAttacks[s] \subseteq Squares
BY TargetsOnBoard DEF KnightAttacks, KingAttacks

LEMMA PawnAttacksOnBoard ==
  ASSUME NEW s \in Squares, NEW c \in Colors
  PROVE  PawnAttacks(c, s) \subseteq Squares
<1>1. {<<1, Forward(c)>>, <<-1, Forward(c)>>} \subseteq Steps
  BY DEF Steps, Diagonals, Forward
<1> QED
  BY <1>1, TargetsOnBoard DEF PawnAttacks

\* Kings attack each other or neither does.
LEMMA KingsSymmetric ==
  ASSUME NEW s \in Squares, NEW t \in Squares, t \in KingAttacks[s]
  PROVE  s \in KingAttacks[t]
<1>1. PICK d \in Steps : /\ OnBoard(File(s) + d[1], Rank(s) + d[2])
                         /\ t = s + d[1] + 8 * d[2]
  BY DEF KingAttacks, Targets
<1> DEFINE e == <<-d[1], -d[2]>>
<1>2. e \in Steps /\ d[1] \in Int /\ d[2] \in Int
  BY DEF Steps, Diagonals, Straights
<1>3. /\ 1 * d[1] = d[1] /\ 1 * d[2] = d[2]
      /\ 1 * (d[1] + 8 * d[2]) = d[1] + 8 * d[2]
  BY <1>2
<1>4. s \in Int /\ File(s) \in Int /\ Rank(s) \in Int
  <2>1. File(s) \in 0 .. 7 /\ Rank(s) \in 0 .. 7
    BY SquareParts
  <2> QED
    BY <2>1 DEF Squares
<1>5. t = s + (d[1] + 8 * d[2])
  BY <1>1, <1>2, <1>4
<1>6. File(t) = File(s) + d[1] /\ Rank(t) = Rank(s) + d[2]
  BY <1>1, <1>3, <1>5, Stepped
<1>7. s = t + e[1] + 8 * e[2] /\ OnBoard(File(t) + e[1], Rank(t) + e[2])
  BY <1>2, <1>4, <1>5, <1>6, SquareParts DEF OnBoard
<1> QED
  BY <1>2, <1>7 DEF KingAttacks, Targets

LEMMA Smallest ==
  ASSUME NEW S \in SUBSET Nat, S # {}
  PROVE  \E n \in S : \A k \in S : n <= k
<1>1. PICK n \in S : \A k \in S : ~ (<<k, n>> \in OpToRel(<, Nat))
  BY WFMin, NatLessThanWellFounded
<1>2. \A k \in S : k < n => <<k, n>> \in OpToRel(<, Nat)
  BY DEF OpToRel
<1>3. \A k \in S : ~ (k < n)
  BY <1>1, <1>2
<1> QED
  BY <1>3

\* A set of numbers from 1 that contains what lies below its members is an
\* interval.
LEMMA ClosedIsInterval ==
  ASSUME NEW m \in Nat, NEW S \in SUBSET (1 .. m),
         \A n \in S, k \in 1 .. m : k <= n => k \in S
  PROVE  S = 1 .. Cardinality(S)
<1>1. PICK n \in (1 .. m + 1) \ S : \A k \in (1 .. m + 1) \ S : n <= k
  <2>1. (1 .. m + 1) \ S \in SUBSET Nat /\ m + 1 \in (1 .. m + 1) \ S
    OBVIOUS
  <2> QED
    BY <2>1, Smallest
<1>2. S = 1 .. n - 1
  <2>1. ASSUME NEW k \in S PROVE k \in 1 .. n - 1
    BY <1>1
  <2>2. ASSUME NEW k \in 1 .. n - 1 PROVE k \in S
    BY <1>1
  <2> QED
    BY <2>1, <2>2
<1>3. Cardinality(1 .. n - 1) = n - 1
  BY <1>1, FS_Interval
<1> QED
  BY <1>2, <1>3

\* The steps that stay on the board are those up to the edge.
LEMMA RayReach ==
  ASSUME NEW s \in Squares, NEW d \in Steps
  PROVE  LET reach == {n \in 1 .. 7 : OnBoard(File(s) + n * d[1],
                                             Rank(s) + n * d[2])}
         IN  reach = 1 .. Cardinality(reach) /\ Cardinality(reach) \in Nat
<1> DEFINE reach == {n \in 1 .. 7 :
                       OnBoard(File(s) + n * d[1], Rank(s) + n * d[2])}
<1>1. File(s) \in 0 .. 7 /\ Rank(s) \in 0 .. 7
  BY SquareParts
<1>2. d[1] \in {-1, 0, 1} /\ d[2] \in {-1, 0, 1}
  BY DEF Steps, Diagonals, Straights
<1>3. ASSUME NEW n \in reach, NEW k \in 1 .. 7, k <= n PROVE k \in reach
  <2>1. File(s) + n * d[1] \in 0 .. 7 /\ Rank(s) + n * d[2] \in 0 .. 7
    BY DEF OnBoard
  <2>2. File(s) + k * d[1] \in 0 .. 7
    <3>1. CASE d[1] = 0
      BY <1>1, <3>1
    <3>2. CASE d[1] = 1
      BY <1>1, <1>3, <2>1, <3>2
    <3>3. CASE d[1] = -1
      <4>1. n * d[1] = -n /\ k * d[1] = -k
        BY <3>3
      <4>2. File(s) - n \in 0 .. 7
        BY <2>1, <4>1
      <4>3. File(s) - k \in 0 .. 7
        BY <1>1, <1>3, <4>2
      <4> QED
        BY <4>1, <4>3
    <3> QED
      BY <1>2, <3>1, <3>2, <3>3
  <2>3. Rank(s) + k * d[2] \in 0 .. 7
    <3>1. CASE d[2] = 0
      BY <1>1, <3>1
    <3>2. CASE d[2] = 1
      BY <1>1, <1>3, <2>1, <3>2
    <3>3. CASE d[2] = -1
      <4>1. n * d[2] = -n /\ k * d[2] = -k
        BY <3>3
      <4>2. Rank(s) - n \in 0 .. 7
        BY <2>1, <4>1
      <4>3. Rank(s) - k \in 0 .. 7
        BY <1>1, <1>3, <4>2
      <4> QED
        BY <4>1, <4>3
    <3> QED
      BY <1>2, <3>1, <3>2, <3>3
  <2> QED
    BY <2>2, <2>3 DEF OnBoard
<1>4. reach = 1 .. Cardinality(reach)
  <2> HIDE DEF reach
  <2>1. reach \in SUBSET (1 .. 7)
    BY DEF reach
  <2> QED
    BY <1>3, <2>1, ClosedIsInterval
<1>5. Cardinality(reach) \in Nat
  <2>1. IsFiniteSet(1 .. 7)
    <3>1. 1 \in Int /\ 7 \in Int
      OBVIOUS
    <3> QED
      BY <3>1, FS_Interval
  <2>2. IsFiniteSet(reach)
    BY <2>1, FS_Subset
  <2> QED
    BY <2>2, FS_CardinalityType
<1> QED
  BY <1>4, <1>5

LEMMA RaysOnBoard ==
  ASSUME NEW s \in Squares, NEW d \in Steps
  PROVE  /\ Ray[s][d] \in Seq(Squares)
         /\ \A n \in 1 .. Len(Ray[s][d]) : Ray[s][d][n] \in Squares
<1> DEFINE reach == {n \in 1 .. 7 :
                       OnBoard(File(s) + n * d[1], Rank(s) + n * d[2])}
<1>1. reach = 1 .. Cardinality(reach) /\ Cardinality(reach) \in Nat
  BY RayReach
<1>2. \A n \in reach : s + n * (d[1] + 8 * d[2]) \in Squares
  BY Stepped
<1>3. Ray[s][d] = [n \in 1 .. Cardinality(reach) |-> s + n * (d[1] + 8 * d[2])]
  BY DEF Ray
<1> HIDE DEF reach
<1>4. \A n \in 1 .. Cardinality(reach) : s + n * (d[1] + 8 * d[2]) \in Squares
  BY <1>1, <1>2
<1> QED
  BY <1>1, <1>3, <1>4

\* What a slider sees lies on the board.
LEMMA SeenOnBoard ==
  ASSUME NEW occupied, NEW s \in Squares, NEW directions \in SUBSET Steps
  PROVE  SeenFrom(occupied, s, directions) \subseteq Squares
<1>1. ASSUME NEW d \in directions, NEW n \in 1 .. Sight(occupied, s, d)
      PROVE  Ray[s][d][n] \in Squares
  <2>1. Ray[s][d] \in Seq(Squares)
    BY RaysOnBoard
  <2> DEFINE I == {i \in 1 .. Len(Ray[s][d]) : Ray[s][d][i] \in occupied}
  <2>2. I # {} => Min(I) \in I
    <3>1. I \in SUBSET Nat
      BY <2>1
    <3> HIDE DEF I
    <3> QED
      BY <3>1, Smallest DEF Min
  <2>3. Sight(occupied, s, d) =
          IF (IF I # {} THEN Min(I) ELSE 0) = 0 THEN Len(Ray[s][d])
          ELSE IF I # {} THEN Min(I) ELSE 0
    BY DEF Sight, SelectInSeq
  <2>4. Sight(occupied, s, d) \in 0 .. Len(Ray[s][d])
    BY <2>1, <2>2, <2>3
  <2> QED
    BY <2>1, <2>4, RaysOnBoard
<1> QED
  BY <1>1 DEF SeenFrom

-----------------------------------------------------------------------------
(* What stands where.                                                      *)

Coherent(p) ==
  p \in Positions /\ Disjoint(p) /\ p.occupied = OccupiedBy(p.pieces)

LEMMA PositionTyped ==
  ASSUME NEW p \in Positions
  PROVE  /\ p.side \in Colors /\ p.castle \subseteq Colors \X Wings
         /\ p.ep \in Squares \cup {NoSquare}
         /\ p.halfmove \in 0 .. MaxClock /\ p.fullmove \in 0 .. MaxClock
         /\ p.pieces \in [Colors -> [Kinds -> SUBSET Squares]]
         /\ \A c \in Colors, k \in Kinds : p.pieces[c][k] \subseteq Squares
         /\ Opposite(p.side) \in Colors /\ Opposite(p.side) # p.side
         /\ \A c \in Colors : c = p.side \/ c = Opposite(p.side)
BY DEF Positions, Bitboards, Rights, Opposite, Colors

LEMMA OneOfTwo ==
  ASSUME NEW c \in Colors
  PROVE  /\ Opposite(c) \in Colors /\ Opposite(c) # c
         /\ Opposite(Opposite(c)) = c
         /\ \A d \in Colors : d = c \/ d = Opposite(c)
         /\ Forward(Opposite(c)) = -Forward(c) /\ Forward(c) \in {-1, 1}
BY DEF Opposite, Colors, Forward

LEMMA OccupiedIs ==
  ASSUME NEW p, Coherent(p)
  PROVE  /\ \A c \in Colors : \A s :
              s \in p.occupied[c] <=> \E k \in Kinds : s \in p.pieces[c][k]
         /\ \A s : s \in AllOccupied(p) <=>
              \E c \in Colors, k \in Kinds : s \in p.pieces[c][k]
<1>1. \A c \in Colors : \A s :
        s \in p.occupied[c] <=> \E k \in Kinds : s \in p.pieces[c][k]
  BY DEF Coherent, OccupiedBy
<1>2. AllOccupied(p) = p.occupied["white"] \cup p.occupied["black"]
  BY DEF AllOccupied
<1> QED
  BY <1>1, <1>2 DEF Colors

LEMMA PieceAtIs ==
  ASSUME NEW p, Coherent(p), NEW s
  PROVE  /\ \A c \in Colors, k \in Kinds :
              s \in p.pieces[c][k] => PieceAt(p, s) = Piece(c, k)
         /\ PieceAt(p, s) # NoPiece =>
              \E c \in Colors, k \in Kinds :
                s \in p.pieces[c][k] /\ PieceAt(p, s) = Piece(c, k)
         /\ PieceAt(p, s) = NoPiece <=>
              \A c \in Colors, k \in Kinds : s \notin p.pieces[c][k]
<1>1. \A c \in Colors, k \in Kinds : Piece(c, k) # NoPiece
  BY DEF Colors, Piece, NoPiece
<1>2. ASSUME NEW c \in Colors, NEW k \in Kinds, s \in p.pieces[c][k]
      PROVE  PieceAt(p, s) = Piece(c, k)
  <2>1. s \in AllOccupied(p)
    BY <1>2, OccupiedIs
  <2>2. \A d \in Colors, l \in Kinds : s \in p.pieces[d][l] => d = c /\ l = k
    BY <1>2 DEF Coherent, Disjoint
  <2>3. c = IF s \in p.occupied["white"] THEN "white" ELSE "black"
    BY <1>2, <2>2, OccupiedIs DEF Colors
  <2>4. k = CHOOSE l \in Kinds : s \in p.pieces[c][l]
    BY <1>2, <2>2
  <2> QED
    BY <2>1, <2>3, <2>4 DEF PieceAt, Piece
<1>3. CASE s \in AllOccupied(p)
  BY <1>1, <1>2, <1>3, OccupiedIs
<1>4. CASE s \notin AllOccupied(p)
  BY <1>4, OccupiedIs DEF PieceAt
<1> QED
  BY <1>2, <1>3, <1>4

LEMMA PieceSame ==
  ASSUME NEW c, NEW k, NEW d, NEW l
  PROVE  /\ Piece(c, k) = Piece(d, l) <=> c = d /\ k = l
         /\ Piece(c, k).color = c /\ Piece(c, k).kind = k
<1>1. Piece(c, k).color = c /\ Piece(c, k).kind = k
  BY DEF Piece
<1>2. Piece(d, l).color = d /\ Piece(d, l).kind = l
  BY DEF Piece
<1> QED
  BY <1>1, <1>2

\* PieceAt names the man that stands there.
LEMMA ManAt ==
  ASSUME NEW p, Coherent(p), NEW s, NEW c \in Colors, NEW k \in Kinds
  PROVE  PieceAt(p, s) = Piece(c, k) <=> s \in p.pieces[c][k]
<1>1. Piece(c, k) # NoPiece
  BY DEF Colors, Piece, NoPiece
<1> QED
  BY <1>1, PieceAtIs, PieceSame

-----------------------------------------------------------------------------
(* What a pseudo-legal move moves, and from where to where.                *)

MoveKinds == {"quiet", "double", "capture", "enPassant", "castleKingside",
              "castleQueenside", "promotion", "promotionCapture"}
Moves == [from : Squares, to : Squares, kind : MoveKinds,
          promotion : Promotions \cup {NoPromotion}]

\* The man of kind k that stands on m.from may make move m.
ManMoves(p, m, k) ==
  /\ m.from \in p.pieces[p.side][k]
  /\ m.kind \in {"double", "enPassant"} \/ IsPromotion(m) => k = "pawn"
  /\ IsCastle(m) => k = "king"
  /\ k = "pawn" /\ ~ IsPromotion(m) => Rank(m.to) \in 1 .. 6

DoubleStands(p, m) ==
  /\ m.to = m.from + 16 * Forward(p.side)
  /\ Rank(m.from) = (IF p.side = "white" THEN 1 ELSE 6)
  /\ m.from + 8 * Forward(p.side) \in Squares \ AllOccupied(p)

CastleStands(p, m) ==
  LET c == p.side
      w == WingOf(m)
  IN /\ m.from = KingHome(c) /\ m.to = KingTo(c, w)
     /\ RookHome(c, w) \in p.pieces[c]["rook"]
     /\ KingTo(c, w) \notin AllOccupied(p) /\ RookTo(c, w) \notin AllOccupied(p)

Possible(p, m) ==
  /\ m \in Moves /\ m.to \notin p.occupied[p.side]
  /\ m.to \notin p.pieces[Opposite(p.side)]["king"]
  /\ \E k \in Kinds : ManMoves(p, m, k)
  /\ m.kind = "enPassant" => EnPassantStands(p, m.to, p.side)
  /\ IsPromotion(m) => m.promotion \in Promotions
  /\ m.kind = "double" => DoubleStands(p, m)
  /\ IsCastle(m) => CastleStands(p, m)

LEMMA PlainMove ==
  ASSUME NEW from \in Squares, NEW to \in Squares, NEW kind \in MoveKinds
  PROVE  /\ Move(from, to, kind) \in Moves
         /\ Move(from, to, kind).from = from /\ Move(from, to, kind).to = to
         /\ Move(from, to, kind).kind = kind
BY DEF Move, Moves

LEMMA PromotionMove ==
  ASSUME NEW from \in Squares, NEW to \in Squares,
         NEW kind \in {"promotion", "promotionCapture"},
         NEW m \in PromotionMoves(from, to, kind)
  PROVE  /\ m \in Moves /\ m.from = from /\ m.to = to /\ m.kind = kind
         /\ m.promotion \in Promotions
BY DEF PromotionMoves, Moves, MoveKinds

LEMMA PushesPossible ==
  ASSUME NEW p, Coherent(p), NEW from \in p.pieces[p.side]["pawn"],
         NEW m \in PawnPushes(p, from)
  PROVE  Possible(p, m)
<1> DEFINE one == from + 8 * Forward(p.side)
           two == from + 16 * Forward(p.side)
           start == IF p.side = "white" THEN 1 ELSE 6
<1>1. /\ p.side \in Colors /\ "pawn" \in Kinds /\ from \in Squares
      /\ Opposite(p.side) \in Colors /\ "king" \in Kinds
  BY PositionTyped DEF Coherent, Kinds
<1>2. one \in Squares \ AllOccupied(p)
  BY DEF PawnPushes
<1>3. ASSUME NEW to, to \notin AllOccupied(p)
      PROVE  /\ to \notin p.occupied[p.side]
             /\ to \notin p.pieces[Opposite(p.side)]["king"]
  <2>1. \A c \in Colors, k \in Kinds : to \notin p.pieces[c][k]
    BY <1>3, OccupiedIs
  <2> QED
    BY <1>1, <2>1, OccupiedIs
<1>4. CASE Rank(one) \in {0, 7} /\ m \in PromotionMoves(from, one, "promotion")
  <2>1. /\ m \in Moves /\ m.from = from /\ m.to = one /\ m.kind = "promotion"
        /\ m.promotion \in Promotions
    BY <1>1, <1>2, <1>4, PromotionMove
  <2> HIDE DEF one
  <2> QED
    BY <1>1, <1>2, <1>3, <2>1 DEF Possible, ManMoves, IsPromotion, IsCastle
<1>5. CASE Rank(one) \notin {0, 7} /\ m = Move(from, one, "quiet")
  <2>1. m \in Moves /\ m.from = from /\ m.to = one /\ m.kind = "quiet"
    BY <1>1, <1>2, <1>5, PlainMove DEF MoveKinds
  <2>2. Rank(one) \in 1 .. 6
    <3>1. Rank(one) \in 0 .. 7
      BY <1>2, SquareParts
    <3> QED
      BY <1>5, <3>1
  <2> HIDE DEF one
  <2> QED
    BY <1>1, <1>2, <1>3, <2>1, <2>2
       DEF Possible, ManMoves, IsPromotion, IsCastle
<1>6. CASE /\ Rank(from) = start /\ two \notin AllOccupied(p)
           /\ m = Move(from, two, "double")
  <2>1. two \in Squares /\ Rank(two) \in 1 .. 6
    <3>1. /\ from = File(from) + 8 * Rank(from) /\ File(from) \in 0 .. 7
          /\ Rank(from) \in Int
      BY <1>1, SquareParts
    <3>2. CASE p.side = "white"
      <4>1. two = File(from) + 8 * 3
        BY <1>6, <3>1, <3>2 DEF Forward
      <4> QED
        BY <3>1, <4>1, SquareFrom
    <3>3. CASE p.side # "white"
      <4>1. two = File(from) + 8 * 4
        BY <1>6, <3>1, <3>3 DEF Forward
      <4> QED
        BY <3>1, <4>1, SquareFrom
    <3> QED
      BY <3>2, <3>3
  <2>2. m \in Moves /\ m.from = from /\ m.to = two /\ m.kind = "double"
    BY <1>1, <1>6, <2>1, PlainMove DEF MoveKinds
  <2>3. DoubleStands(p, m)
    BY <1>2, <1>6, <2>2 DEF DoubleStands
  <2> HIDE DEF two
  <2> QED
    BY <1>1, <1>3, <1>6, <2>1, <2>2, <2>3
       DEF Possible, ManMoves, IsPromotion, IsCastle
<1> QED
  BY <1>2, <1>4, <1>5, <1>6 DEF PawnPushes

LEMMA CapturesPossible ==
  ASSUME NEW p, Coherent(p), NEW from \in p.pieces[p.side]["pawn"],
         NEW to \in PawnAttacks(p.side, from),
         NEW m \in PawnCaptures(p, from, to)
  PROVE  Possible(p, m)
<1> DEFINE enemy == Opposite(p.side)
<1>1. /\ p.side \in Colors /\ "pawn" \in Kinds /\ from \in Squares
      /\ enemy \in Colors /\ "king" \in Kinds /\ enemy # p.side
  BY PositionTyped DEF Coherent, Kinds
<1>2. to \in Squares /\ Rank(to) \in 0 .. 7
  <2>1. to \in Squares
    BY <1>1, PawnAttacksOnBoard
  <2> QED
    BY <2>1, SquareParts
<1>3. CASE to \in p.occupied[enemy] /\ to \notin p.pieces[enemy]["king"]
  <2>1. to \notin p.occupied[p.side]
    <3>1. PICK k \in Kinds : to \in p.pieces[enemy][k]
      BY <1>1, <1>3, OccupiedIs
    <3> HIDE DEF enemy
    <3> QED
      BY <1>1, <3>1, OccupiedIs DEF Coherent, Disjoint
  <2>2. CASE /\ Rank(to) \in {0, 7}
             /\ m \in PromotionMoves(from, to, "promotionCapture")
    <3>1. /\ m \in Moves /\ m.from = from /\ m.to = to
          /\ m.kind = "promotionCapture" /\ m.promotion \in Promotions
      BY <1>1, <1>2, <2>2, PromotionMove
    <3> QED
      BY <1>1, <1>3, <2>1, <3>1 DEF Possible, ManMoves, IsPromotion, IsCastle
  <2>3. CASE Rank(to) \notin {0, 7} /\ m = Move(from, to, "capture")
    <3>1. m \in Moves /\ m.from = from /\ m.to = to /\ m.kind = "capture"
      BY <1>1, <1>2, <2>3, PlainMove DEF MoveKinds
    <3> QED
      BY <1>1, <1>2, <1>3, <2>1, <2>3, <3>1
         DEF Possible, ManMoves, IsPromotion, IsCastle
  <2> QED
    BY <1>3, <2>2, <2>3 DEF PawnCaptures
<1>4. CASE /\ to \notin p.occupied[enemy] /\ p.ep = to
           /\ EnPassantStands(p, to, p.side) /\ m = Move(from, to, "enPassant")
  <2>1. m \in Moves /\ m.from = from /\ m.to = to /\ m.kind = "enPassant"
    BY <1>1, <1>2, <1>4, PlainMove DEF MoveKinds
  <2>2. PieceAt(p, to) = NoPiece /\ Rank(to) \in 1 .. 6
    BY <1>4 DEF EnPassantStands
  <2>3. \A c \in Colors, k \in Kinds : to \notin p.pieces[c][k]
    BY <2>2, PieceAtIs
  <2>4. to \notin p.occupied[p.side] /\ to \notin p.pieces[enemy]["king"]
    BY <1>1, <2>3, OccupiedIs
  <2> QED
    BY <1>1, <1>4, <2>1, <2>2, <2>4
       DEF Possible, ManMoves, IsPromotion, IsCastle
<1> QED
  BY <1>3, <1>4 DEF PawnCaptures

LEMMA PiecesPossible ==
  ASSUME NEW p, Coherent(p), NEW k \in Kinds \ {"pawn"},
         NEW from \in p.pieces[p.side][k], NEW seen \in SUBSET Squares,
         NEW m \in PieceMoves(p, from, seen)
  PROVE  Possible(p, m)
<1>1. from \in Squares
  BY PositionTyped DEF Coherent
<1>2. PICK to \in seen \ (p.occupied[p.side]
                            \cup p.pieces[Opposite(p.side)]["king"]) :
        m = Move(from, to, IF to \in p.occupied[Opposite(p.side)]
                           THEN "capture" ELSE "quiet")
  BY DEF PieceMoves
<1>3. /\ m \in Moves /\ m.from = from /\ m.to = to
      /\ m.kind \in {"capture", "quiet"}
  BY <1>1, <1>2, PlainMove DEF MoveKinds
<1> QED
  BY <1>2, <1>3 DEF Possible, ManMoves, IsPromotion, IsCastle

LEMMA CastlesPossible ==
  ASSUME NEW p, Coherent(p), NEW m \in Castles(p)
  PROVE  Possible(p, m)
<1> DEFINE c == p.side
<1>1. PICK w \in Wings : /\ MayCastle(p, c, w)
                         /\ m = Move(KingHome(c), KingTo(c, w), CastleKind(w))
  BY DEF Castles
<1>2. c \in Colors /\ "king" \in Kinds /\ "rook" \in Kinds
  BY PositionTyped DEF Coherent, Kinds
<1>3. /\ KingHome(c) \in Squares /\ KingTo(c, w) \in Squares
      /\ KingTo(c, w) \in Between(c, w) /\ RookTo(c, w) \in Between(c, w)
  BY <1>2 DEF KingHome, KingTo, RookTo, RookHome, Home, Between, Squares, Wings,
              Colors
<1>4. KingTo(c, w) \notin AllOccupied(p) /\ RookTo(c, w) \notin AllOccupied(p)
  BY <1>1, <1>3 DEF MayCastle
<1>5. RookHome(c, w) \in p.pieces[c]["rook"]
  BY <1>1, <1>2, ManAt DEF MayCastle
<1>6. KingHome(c) \in p.pieces[c]["king"]
  <2>1. KingSquare(p, c) = KingHome(c) /\ KingHome(c) # NoSquare
    BY <1>1, <1>3 DEF MayCastle, Squares, NoSquare
  <2>2. Cardinality(p.pieces[c]["king"]) = 1
    BY <2>1 DEF KingSquare
  <2>3. p.pieces[c]["king"] # {}
    BY <2>2, FS_EmptySet
  <2> QED
    BY <2>1, <2>2, <2>3 DEF KingSquare
<1>7. /\ m \in Moves /\ m.from = KingHome(c) /\ m.to = KingTo(c, w)
      /\ m.kind = CastleKind(w)
  BY <1>1, <1>3, PlainMove DEF MoveKinds, CastleKind
<1>8. IsCastle(m) /\ WingOf(m) = w /\ ~ IsPromotion(m)
      /\ m.kind \notin {"double", "enPassant"}
  BY <1>7 DEF IsCastle, WingOf, IsPromotion, CastleKind, Wings
<1>9. /\ m.to \notin p.occupied[p.side]
      /\ m.to \notin p.pieces[Opposite(p.side)]["king"]
  <2>1. Opposite(c) \in Colors
    BY <1>2, OneOfTwo
  <2> QED
    BY <1>2, <1>4, <1>7, <2>1, OccupiedIs
<1>10. CastleStands(p, m)
  BY <1>4, <1>5, <1>7, <1>8 DEF CastleStands
<1>11. ManMoves(p, m, "king")
  BY <1>6, <1>7, <1>8 DEF ManMoves
<1> QED
  BY <1>2, <1>7, <1>8, <1>9, <1>10, <1>11 DEF Possible

\* A pseudo-legal move is a move a man can make.
LEMMA PseudoPossible ==
  ASSUME NEW p, Coherent(p), NEW m \in PseudoLegalMoves(p)
  PROVE  Possible(p, m)
<1>1. /\ {"knight", "bishop", "rook", "queen", "king"}
           \subseteq Kinds \ {"pawn"}
      /\ \A k \in Kinds : p.pieces[p.side][k] \subseteq Squares
      /\ Diagonals \subseteq Steps /\ Straights \subseteq Steps
  BY PositionTyped DEF Kinds, Coherent, Steps
<1>2. CASE m \in PawnMoves(p)
  <2>1. PICK from \in p.pieces[p.side]["pawn"] : m \in PawnMovesFrom(p, from)
    BY <1>2 DEF PawnMoves
  <2>2. CASE m \in PawnPushes(p, from)
    BY <2>2, PushesPossible
  <2>3. CASE \E to \in PawnAttacks(p.side, from) :
               m \in PawnCaptures(p, from, to)
    BY <2>3, CapturesPossible
  <2> QED
    BY <2>1, <2>2, <2>3 DEF PawnMovesFrom
<1>3. CASE m \in KnightMoves(p)
  BY <1>1, <1>3, LeapsOnBoard, PiecesPossible DEF KnightMoves
<1>4. CASE m \in SliderMoves(p)
  <2>1. PICK k \in {"bishop", "rook", "queen"}, directions \in SUBSET Steps :
          m \in SliderMovesOf(p, k, directions)
    <3>1. Steps \in SUBSET Steps
      OBVIOUS
    <3> QED
      BY <1>1, <1>4, <3>1 DEF SliderMoves
  <2>2. PICK from \in p.pieces[p.side][k] :
          m \in PieceMoves(p, from, SeenFrom(AllOccupied(p), from, directions))
    BY <2>1 DEF SliderMovesOf
  <2>3. SeenFrom(AllOccupied(p), from, directions) \in SUBSET Squares
    BY <1>1, <2>1, <2>2, SeenOnBoard
  <2> QED
    BY <1>1, <2>1, <2>2, <2>3, PiecesPossible
<1>5. CASE m \in KingMoves(p)
  <2> DEFINE from == KingSquare(p, p.side)
  <2>1. CASE m \in Castles(p)
    BY <2>1, CastlesPossible
  <2>2. CASE from # NoSquare /\ m \in PieceMoves(p, from, KingAttacks[from])
    <3>1. from \in p.pieces[p.side]["king"]
      <4>1. Cardinality(p.pieces[p.side]["king"]) = 1
        BY <2>2 DEF KingSquare
      <4>2. p.pieces[p.side]["king"] # {}
        BY <4>1, FS_EmptySet
      <4> QED
        BY <4>1, <4>2 DEF KingSquare
    <3>2. KingAttacks[from] \in SUBSET Squares
      BY <1>1, <3>1, LeapsOnBoard
    <3> QED
      BY <1>1, <2>2, <3>1, <3>2, PiecesPossible
  <2> QED
    BY <1>5, <2>1, <2>2 DEF KingMoves
<1> QED
  BY <1>2, <1>3, <1>4, <1>5 DEF PseudoLegalMoves

-----------------------------------------------------------------------------
(* The pieces after a move.                                                *)

\* after is before with a man of colour c and kind k put on s, or lifted.
IsPut(before, after, s, c, k) ==
  /\ after \in Bitboards
  /\ \A d \in Colors, l \in Kinds : \A t :
       t \in after[d][l] <=> t \in before[d][l] \/ (t = s /\ d = c /\ l = k)
IsLifted(before, after, s, c, k) ==
  /\ after \in Bitboards
  /\ \A d \in Colors, l \in Kinds : \A t :
       t \in after[d][l] <=> t \in before[d][l] /\ ~ (t = s /\ d = c /\ l = k)

LEMMA PutMan ==
  ASSUME NEW pieces \in Bitboards, NEW s \in Squares, NEW c \in Colors,
         NEW k \in Kinds
  PROVE  /\ IsPut(pieces, Added(pieces, s, Piece(c, k)), s, c, k)
         /\ IsLifted(pieces, Removed(pieces, s, Piece(c, k)), s, c, k)
<1> DEFINE x == Piece(c, k)
<1>1. x.color = c /\ x.kind = k
  BY PieceSame
<1> HIDE DEF x
<1>2. /\ Added(pieces, s, x) = [pieces EXCEPT ![c][k] = @ \cup {s}]
      /\ Removed(pieces, s, x) = [pieces EXCEPT ![c][k] = @ \ {s}]
  BY <1>1 DEF Added, Removed
<1>3. /\ [pieces EXCEPT ![c][k] = @ \cup {s}] \in Bitboards
      /\ [pieces EXCEPT ![c][k] = @ \ {s}] \in Bitboards
  BY DEF Bitboards
<1>4. /\ \A d \in Colors, l \in Kinds :
           [pieces EXCEPT ![c][k] = @ \cup {s}][d][l] =
             IF d = c /\ l = k THEN pieces[d][l] \cup {s} ELSE pieces[d][l]
      /\ \A d \in Colors, l \in Kinds :
           [pieces EXCEPT ![c][k] = @ \ {s}][d][l] =
             IF d = c /\ l = k THEN pieces[d][l] \ {s} ELSE pieces[d][l]
  BY DEF Bitboards
<1>5. \A d \in Colors, l \in Kinds : \A t :
        t \in Added(pieces, s, x)[d][l] <=>
          t \in pieces[d][l] \/ (t = s /\ d = c /\ l = k)
  BY <1>2, <1>4
<1>6. \A d \in Colors, l \in Kinds : \A t :
        t \in Removed(pieces, s, x)[d][l] <=>
          t \in pieces[d][l] /\ ~ (t = s /\ d = c /\ l = k)
  BY <1>2, <1>4
<1> QED
  BY <1>2, <1>3, <1>5, <1>6 DEF x, IsPut, IsLifted

\* What is taken stands where it is taken and is not a king; nothing else
\* stands where the man goes.
LEMMA CapturedIs ==
  ASSUME NEW p, Coherent(p), NEW m, Possible(p, m)
  PROVE  /\ Captured(p, m) # NoPiece =>
              \E k \in Kinds \ {"king"} :
                /\ Captured(p, m) = Piece(Opposite(p.side), k)
                /\ CaptureSquare(m, p.side) \in p.pieces[Opposite(p.side)][k]
         /\ \A c \in Colors, k \in Kinds : m.to \in p.pieces[c][k] =>
              Captured(p, m) # NoPiece /\ CaptureSquare(m, p.side) = m.to
         /\ m.kind = "enPassant" =>
              Captured(p, m) = Piece(Opposite(p.side), "pawn")
<1> DEFINE enemy == Opposite(p.side)
<1>1. /\ p.side \in Colors /\ enemy \in Colors
      /\ \A c \in Colors : c = p.side \/ c = enemy
  BY PositionTyped DEF Coherent
<1>2. CASE m.kind = "enPassant"
  <2>1. EnPassantStands(p, m.to, p.side)
    BY <1>2 DEF Possible
  <2>2. "pawn" \in Kinds \ {"king"}
    BY DEF Kinds
  <2>3. CaptureSquare(m, p.side) \in p.pieces[enemy]["pawn"]
    BY <1>1, <1>2, <2>1, <2>2, ManAt DEF EnPassantStands, CaptureSquare
  <2>4. \A c \in Colors, k \in Kinds : m.to \notin p.pieces[c][k]
    BY <2>1, PieceAtIs DEF EnPassantStands
  <2>5. Captured(p, m) = Piece(enemy, "pawn")
    BY <1>2 DEF Captured
  <2> QED
    BY <2>2, <2>3, <2>4, <2>5
<1>3. CASE m.kind # "enPassant"
  <2>1. Captured(p, m) = PieceAt(p, m.to) /\ CaptureSquare(m, p.side) = m.to
    BY <1>3 DEF Captured, CaptureSquare
  <2>2. \A c \in Colors, k \in Kinds : m.to \in p.pieces[c][k] =>
          c = enemy /\ k # "king"
    BY <1>1, OccupiedIs DEF Possible
  <2> QED
    BY <1>3, <2>1, <2>2, PieceAtIs
<1> QED
  BY <1>2, <1>3

NewKind(p, m) ==
  IF IsPromotion(m) THEN m.promotion ELSE PieceAt(p, m.from).kind
Vacated(p, m) ==
  {s \in Squares :
     \/ s = m.from
     \/ Captured(p, m) # NoPiece /\ s = CaptureSquare(m, p.side)
     \/ IsCastle(m) /\ s = RookHome(p.side, WingOf(m))}
Arrived(p, m, c, k) ==
  {s \in Squares : /\ c = p.side
                   /\ \/ s = m.to /\ k = NewKind(p, m)
                      \/ /\ IsCastle(m) /\ s = RookTo(p.side, WingOf(m))
                         /\ k = "rook"}

LEMMA CastleSquares ==
  ASSUME NEW c \in Colors, NEW w \in Wings
  PROVE  /\ KingHome(c) \in Squares /\ RookHome(c, w) \in Squares
         /\ KingTo(c, w) \in Squares /\ RookTo(c, w) \in Squares
         /\ KingTo(c, w) # RookTo(c, w)
BY DEF KingHome, RookHome, KingTo, RookTo, Home, Colors, Wings, Squares

LEMMA ManMoved ==
  ASSUME NEW p, Coherent(p), NEW m, NEW k \in Kinds, ManMoves(p, m, k)
  PROVE  /\ PieceAt(p, m.from) = Piece(p.side, k)
         /\ NewKind(p, m) = IF IsPromotion(m) THEN m.promotion ELSE k
<1>1. p.side \in Colors
  BY PositionTyped DEF Coherent
<1>2. PieceAt(p, m.from) = Piece(p.side, k)
  BY <1>1, ManAt DEF ManMoves
<1> QED
  BY <1>2, PieceSame DEF NewKind

LEMMA PiecesAfterAre ==
  ASSUME NEW p, Coherent(p), NEW m, Possible(p, m)
  PROVE  /\ PiecesAfter(p, m) \in Bitboards
         /\ \A c \in Colors, k \in Kinds :
              PiecesAfter(p, m)[c][k] =
                (p.pieces[c][k] \ Vacated(p, m)) \cup Arrived(p, m, c, k)
<1> DEFINE side == p.side
           enemy == Opposite(p.side)
           w == WingOf(m)
           new == NewKind(p, m)
           there == CaptureSquare(m, side)
           caught == Captured(p, m) # NoPiece
<1>1. /\ side \in Colors /\ enemy \in Colors /\ enemy # side
      /\ p.pieces \in Bitboards /\ w \in Wings
      /\ \A c \in Colors, k \in Kinds : p.pieces[c][k] \subseteq Squares
  BY PositionTyped DEF Coherent, Bitboards, WingOf, Wings
<1>2. PICK k \in Kinds : ManMoves(p, m, k)
  BY DEF Possible
<1>3. /\ PieceAt(p, m.from) = Piece(side, k)
      /\ new = IF IsPromotion(m) THEN m.promotion ELSE k
  BY <1>2, ManMoved
<1>4. /\ new \in Kinds /\ "rook" \in Kinds
      /\ m.from \in Squares /\ m.to \in Squares
  BY <1>2, <1>3 DEF Possible, Promotions, Kinds, Moves
<1>5. m.from \in p.pieces[side][k]
  BY <1>2 DEF ManMoves
<1>6. \A c, d \in Colors, j, l \in Kinds : \A s :
        s \in p.pieces[c][j] /\ s \in p.pieces[d][l] => c = d /\ j = l
  BY DEF Coherent, Disjoint
<1> DEFINE lifted == Removed(p.pieces, m.from, Piece(side, k))
           taken == IF Captured(p, m) = NoPiece THEN lifted
                    ELSE Removed(lifted, there, Captured(p, m))
           placed == Added(taken, m.to, Piece(side, new))
           unrooked == Removed(placed, RookHome(side, w), Piece(side, "rook"))
           rooked == Added(unrooked, RookTo(side, w), Piece(side, "rook"))
<1>7. PiecesAfter(p, m) = IF IsCastle(m) THEN rooked ELSE placed
  <2>1. (IF IsPromotion(m) THEN Piece(side, m.promotion) ELSE Piece(side, k))
          = Piece(side, new)
    BY <1>3
  <2> HIDE DEF new
  <2> QED
    BY <1>3, <2>1 DEF PiecesAfter
<1>8. Captured(p, m) # NoPiece =>
        \E l \in Kinds : Captured(p, m) = Piece(enemy, l)
                           /\ there \in p.pieces[enemy][l]
  BY CapturedIs
<1>9. \A s : s \in Vacated(p, m) <=>
        s \in Squares /\ \/ s = m.from
                         \/ caught /\ s = there
                         \/ IsCastle(m) /\ s = RookHome(side, w)
  BY DEF Vacated
<1>10. \A c \in Colors, l \in Kinds : \A s : s \in Arrived(p, m, c, l) <=>
         s \in Squares /\ c = side
           /\ \/ s = m.to /\ l = new
              \/ IsCastle(m) /\ s = RookTo(side, w) /\ l = "rook"
  BY DEF Arrived
<1>11. IsCastle(m) => /\ RookHome(side, w) \in Squares
                      /\ RookTo(side, w) \in Squares
                      /\ RookHome(side, w) \in p.pieces[side]["rook"]
                      /\ new # "rook"
  <2>1. SUFFICES ASSUME IsCastle(m)
                 PROVE  /\ RookHome(side, w) \in p.pieces[side]["rook"]
                        /\ new # "rook"
    BY <1>1, CastleSquares
  <2>2. CastleStands(p, m) /\ k = "king" /\ ~ IsPromotion(m)
    BY <1>2, <2>1 DEF Possible, ManMoves, IsCastle, IsPromotion
  <2> QED
    BY <1>3, <2>2 DEF CastleStands
<1> HIDE DEF side, enemy, w, new, there, caught
<1>12. /\ lifted \in Bitboards
       /\ \A c \in Colors, l \in Kinds : \A s :
            s \in lifted[c][l] <=> s \in p.pieces[c][l] /\ s # m.from
  <2>1. IsLifted(p.pieces, lifted, m.from, side, k)
    BY <1>1, <1>4, PutMan
  <2> HIDE DEF lifted
  <2> QED
    BY <1>1, <1>5, <1>6, <2>1 DEF IsLifted
<1> HIDE DEF lifted
<1>13. /\ taken \in Bitboards
       /\ \A c \in Colors, l \in Kinds : \A s :
            s \in taken[c][l] <=>
              s \in p.pieces[c][l] /\ s # m.from /\ ~ (caught /\ s = there)
  <2>1. CASE Captured(p, m) = NoPiece
    BY <1>12, <2>1 DEF caught
  <2>2. CASE Captured(p, m) # NoPiece
    <3>1. PICK l \in Kinds : /\ Captured(p, m) = Piece(enemy, l)
                             /\ there \in p.pieces[enemy][l]
      BY <1>8, <2>2
    <3>2. there \in Squares
      BY <1>1, <3>1
    <3>3. taken = Removed(lifted, there, Piece(enemy, l))
      BY <2>2, <3>1
    <3> HIDE DEF taken
    <3>4. IsLifted(lifted, taken, there, enemy, l)
      BY <1>1, <1>12, <3>2, <3>3, PutMan
    <3> QED
      BY <1>1, <1>6, <1>12, <2>2, <3>1, <3>4 DEF caught, IsLifted
  <2> QED
    BY <2>1, <2>2
<1> HIDE DEF taken
<1>14. /\ placed \in Bitboards
       /\ \A c \in Colors, l \in Kinds : \A s :
            s \in placed[c][l] <=>
              s \in taken[c][l] \/ (s = m.to /\ c = side /\ l = new)
  <2>1. IsPut(taken, placed, m.to, side, new)
    BY <1>1, <1>4, <1>13, PutMan
  <2> HIDE DEF placed
  <2> QED
    BY <2>1 DEF IsPut
<1> HIDE DEF placed
<1>15. ASSUME NEW c \in Colors, NEW l \in Kinds
       PROVE  p.pieces[c][l] \subseteq Squares
  BY <1>1
<1>16. CASE ~ IsCastle(m)
  <2>1. PiecesAfter(p, m) = placed
    BY <1>7, <1>16
  <2>2. ASSUME NEW c \in Colors, NEW l \in Kinds, NEW s
        PROVE  s \in placed[c][l] <=>
                 s \in (p.pieces[c][l] \ Vacated(p, m)) \cup Arrived(p, m, c, l)
    BY <1>4, <1>9, <1>10, <1>13, <1>14, <1>15, <1>16
  <2> QED
    BY <1>14, <2>1, <2>2
<1>17. CASE IsCastle(m)
  <2>1. IsLifted(placed, unrooked, RookHome(side, w), side, "rook")
    BY <1>1, <1>4, <1>11, <1>14, <1>17, PutMan
  <2> HIDE DEF unrooked
  <2>2. IsPut(unrooked, rooked, RookTo(side, w), side, "rook")
    BY <1>1, <1>4, <1>11, <1>17, <2>1, PutMan DEF IsLifted
  <2> HIDE DEF rooked
  <2>3. PiecesAfter(p, m) = rooked
    BY <1>7, <1>17
  <2>4. ASSUME NEW c \in Colors, NEW l \in Kinds, NEW s
        PROVE  s \in rooked[c][l] <=>
                 s \in (p.pieces[c][l] \ Vacated(p, m)) \cup Arrived(p, m, c, l)
    <3>1. s \in p.pieces[c][l] /\ s = RookHome(side, w)
            => c = side /\ l = "rook"
      BY <1>1, <1>4, <1>6, <1>11, <1>17
    <3>2. s = m.to /\ c = side /\ l = new => ~ (l = "rook")
      BY <1>11, <1>17
    <3> QED
      BY <1>4, <1>9, <1>10, <1>11, <1>13, <1>14, <1>15, <1>17, <2>1, <2>2,
         <3>1, <3>2 DEF IsLifted, IsPut
  <2> QED
    BY <2>2, <2>3, <2>4 DEF IsPut
<1> QED
  BY <1>16, <1>17

\* Nothing is left where a man arrives, and one man arrives on a square.
LEMMA ArrivedFree ==
  ASSUME NEW p, Coherent(p), NEW m, Possible(p, m), NEW c \in Colors,
         NEW k \in Kinds, NEW s \in Arrived(p, m, c, k), NEW d \in Colors,
         NEW l \in Kinds
  PROVE  /\ s \notin p.pieces[d][l] \ Vacated(p, m)
         /\ s \in Arrived(p, m, d, l) => d = c /\ l = k
<1> DEFINE w == WingOf(m)
<1>1. p.side \in Colors /\ w \in Wings /\ m.to \in Squares
  BY PositionTyped DEF Coherent, WingOf, Wings, Possible, Moves
<1>2. m.to \notin p.pieces[d][l] \ Vacated(p, m)
  BY <1>1, CapturedIs DEF Vacated
<1>3. CASE ~ IsCastle(m)
  BY <1>2, <1>3 DEF Arrived
<1>4. CASE IsCastle(m)
  <2>1. CastleStands(p, m)
    BY <1>4 DEF Possible
  <2>2. RookTo(p.side, w) \notin p.pieces[d][l] /\ m.to # RookTo(p.side, w)
    <3>1. m.to = KingTo(p.side, w) /\ RookTo(p.side, w) \notin AllOccupied(p)
      BY <2>1 DEF CastleStands
    <3> HIDE DEF w
    <3> QED
      BY <1>1, <3>1, OccupiedIs, CastleSquares
  <2> QED
    BY <1>2, <1>4, <2>2 DEF Arrived
<1> QED
  BY <1>3, <1>4

LEMMA MakeFields ==
  ASSUME NEW p, Coherent(p), NEW m, Possible(p, m)
  PROVE  LET q == Make(p, m) IN
         /\ q.side = Opposite(p.side) /\ q.pieces = PiecesAfter(p, m)
         /\ q.castle = p.castle \ (RightsMoved(p, m) \cup RightsTaken(p, m))
         /\ q.ep = (IF m.kind = "double" THEN m.from + 8 * Forward(p.side)
                    ELSE NoSquare)
         /\ q.halfmove = MakeFast(p, m).halfmove
         /\ q.fullmove = MakeFast(p, m).fullmove
         /\ q.occupied = OccupiedBy(q.pieces) /\ q.hash = Hash(q)
         /\ q = [side |-> q.side, pieces |-> q.pieces, occupied |-> q.occupied,
                 castle |-> q.castle, ep |-> q.ep, halfmove |-> q.halfmove,
                 fullmove |-> q.fullmove, hash |-> q.hash]
<1> DEFINE f == MakeFast(p, m)
<1>1. /\ f.side = Opposite(p.side) /\ f.pieces = PiecesAfter(p, m)
      /\ f.castle = p.castle \ (RightsMoved(p, m) \cup RightsTaken(p, m))
      /\ f.ep = (IF m.kind = "double" THEN m.from + 8 * Forward(p.side)
                    ELSE NoSquare)
      /\ f = [side |-> f.side, pieces |-> f.pieces, occupied |-> f.occupied,
              castle |-> f.castle, ep |-> f.ep, halfmove |-> f.halfmove,
              fullmove |-> f.fullmove, hash |-> f.hash]
  BY DEF MakeFast
<1> HIDE DEF f
<1> DEFINE g == [f EXCEPT !.occupied = OccupiedBy(f.pieces)]
           q == [g EXCEPT !.hash = Hash(g)]
<1>2. /\ g.side = f.side /\ g.pieces = f.pieces /\ g.castle = f.castle
      /\ g.ep = f.ep /\ g.halfmove = f.halfmove /\ g.fullmove = f.fullmove
      /\ g.occupied = OccupiedBy(f.pieces)
      /\ g = [side |-> g.side, pieces |-> g.pieces, occupied |-> g.occupied,
              castle |-> g.castle, ep |-> g.ep, halfmove |-> g.halfmove,
              fullmove |-> g.fullmove, hash |-> g.hash]
  BY <1>1
<1>3. q = Make(p, m)
  BY DEF Make, Synced, f
<1> HIDE DEF g
<1>4. /\ q.side = g.side /\ q.pieces = g.pieces /\ q.castle = g.castle
      /\ q.ep = g.ep /\ q.halfmove = g.halfmove /\ q.fullmove = g.fullmove
      /\ q.occupied = g.occupied /\ q.hash = Hash(g)
      /\ q = [side |-> q.side, pieces |-> q.pieces, occupied |-> q.occupied,
              castle |-> q.castle, ep |-> q.ep, halfmove |-> q.halfmove,
              fullmove |-> q.fullmove, hash |-> q.hash]
  BY <1>2
<1> HIDE DEF q
<1>5. Hash(q) = Hash(g)
  BY <1>4 DEF Hash
<1> QED
  BY <1>1, <1>2, <1>3, <1>4, <1>5 DEF f

\* A move leads from a coherent position to one.
LEMMA AfterCoherent ==
  ASSUME NEW p, Coherent(p), NEW m, Possible(p, m)
  PROVE  Coherent(Make(p, m))
<1> DEFINE q == Make(p, m)
<1>1. /\ q.side = Opposite(p.side) /\ q.pieces = PiecesAfter(p, m)
      /\ q.castle = p.castle \ (RightsMoved(p, m) \cup RightsTaken(p, m))
      /\ q.ep = (IF m.kind = "double" THEN m.from + 8 * Forward(p.side)
                 ELSE NoSquare)
      /\ q.halfmove = MakeFast(p, m).halfmove
      /\ q.fullmove = MakeFast(p, m).fullmove
      /\ q.occupied = OccupiedBy(q.pieces) /\ q.hash = Hash(q)
      /\ q = [side |-> q.side, pieces |-> q.pieces, occupied |-> q.occupied,
              castle |-> q.castle, ep |-> q.ep, halfmove |-> q.halfmove,
              fullmove |-> q.fullmove, hash |-> q.hash]
  BY MakeFields
<1> HIDE DEF q
<1>2. q.side \in Colors
  BY <1>1, PositionTyped DEF Coherent
<1>3. q.pieces \in Bitboards
  BY <1>1, PiecesAfterAre
<1>4. q.occupied \in [Colors -> SUBSET Squares]
  BY <1>1, <1>3 DEF OccupiedBy, Bitboards
<1>5. q.castle \in Rights
  BY <1>1, PositionTyped DEF Coherent, Rights
<1>6. q.ep \in Squares \cup {NoSquare}
  BY <1>1 DEF Possible, DoubleStands
<1>7. q.halfmove \in 0 .. MaxClock /\ q.fullmove \in 0 .. MaxClock
  <2>1. p.halfmove \in 0 .. MaxClock /\ p.fullmove \in 0 .. MaxClock
    BY PositionTyped DEF Coherent
  <2>2. ASSUME NEW n \in 0 .. MaxClock PROVE Saturated(n) \in 0 .. MaxClock
    <3>1. MaxClock \in Nat
      BY SMTT(60) DEF MaxClock
    <3>2. CASE n < MaxClock
      BY <3>1, <3>2 DEF Saturated
    <3>3. CASE ~ (n < MaxClock)
      BY <3>3 DEF Saturated
    <3> QED
      BY <3>2, <3>3
  <2>3. 0 \in 0 .. MaxClock
    BY DEF MaxClock
  <2> QED
    BY <1>1, <2>1, <2>2, <2>3 DEF MakeFast
<1>8. q.hash \in [pieces : Bitboards, side : Colors, castle : Rights,
                  file : SUBSET (0 .. 7)]
  <2>1. (IF q.ep = NoSquare THEN {} ELSE {File(q.ep)}) \in SUBSET (0 .. 7)
    BY <1>6, SquareParts
  <2> QED
    BY <1>1, <1>2, <1>3, <1>5, <2>1 DEF Hash
<1>9. q \in Positions
  BY <1>1, <1>2, <1>3, <1>4, <1>5, <1>6, <1>7, <1>8 DEF Positions
<1>10. Disjoint(q)
  <2>1. ASSUME NEW c \in Colors, NEW d \in Colors, NEW k \in Kinds,
               NEW l \in Kinds, NEW s \in q.pieces[c][k],
               s \in q.pieces[d][l]
        PROVE  c = d /\ k = l
    <3>1. /\ s \in (p.pieces[c][k] \ Vacated(p, m)) \cup Arrived(p, m, c, k)
          /\ s \in (p.pieces[d][l] \ Vacated(p, m)) \cup Arrived(p, m, d, l)
      BY <1>1, <2>1, PiecesAfterAre
    <3>2. CASE s \in Arrived(p, m, c, k) \/ s \in Arrived(p, m, d, l)
      BY <3>1, <3>2, ArrivedFree
    <3>3. CASE s \in p.pieces[c][k] /\ s \in p.pieces[d][l]
      BY <3>3 DEF Coherent, Disjoint
    <3> QED
      BY <3>1, <3>2, <3>3
  <2> QED
    BY <2>1 DEF Disjoint
<1> QED
  BY <1>1, <1>9, <1>10 DEF Coherent, q

\* Only the man that moves, what it takes and a rook that castles leave.
LEMMA WhatLeaves ==
  ASSUME NEW p, Coherent(p), NEW m, Possible(p, m), NEW c \in Colors,
         NEW k \in Kinds, NEW s \in p.pieces[c][k], s \in Vacated(p, m)
  PROVE  \/ s = m.from /\ c = p.side /\ PieceAt(p, m.from) = Piece(c, k)
         \/ /\ Captured(p, m) = Piece(c, k) /\ s = CaptureSquare(m, p.side)
            /\ c = Opposite(p.side) /\ k # "king"
         \/ /\ IsCastle(m) /\ s = RookHome(p.side, WingOf(m))
            /\ c = p.side /\ k = "rook"
<1>1. p.side \in Colors /\ Opposite(p.side) \in Colors /\ "rook" \in Kinds
  BY PositionTyped DEF Coherent, Kinds
<1>2. \A d \in Colors, l \in Kinds : s \in p.pieces[d][l] => d = c /\ l = k
  BY DEF Coherent, Disjoint
<1>3. CASE s = m.from
  <2>1. PICK l \in Kinds : ManMoves(p, m, l)
    BY DEF Possible
  <2>2. s \in p.pieces[p.side][l] /\ PieceAt(p, m.from) = Piece(p.side, l)
    BY <1>3, <2>1, ManMoved DEF ManMoves
  <2> QED
    BY <1>1, <1>2, <1>3, <2>2
<1>4. CASE Captured(p, m) # NoPiece /\ s = CaptureSquare(m, p.side)
  <2>1. PICK l \in Kinds \ {"king"} :
          /\ Captured(p, m) = Piece(Opposite(p.side), l)
          /\ s \in p.pieces[Opposite(p.side)][l]
    BY <1>4, CapturedIs
  <2> QED
    BY <1>1, <1>2, <1>4, <2>1
<1>5. CASE IsCastle(m) /\ s = RookHome(p.side, WingOf(m))
  <2>1. s \in p.pieces[p.side]["rook"]
    BY <1>5 DEF Possible, CastleStands
  <2> QED
    BY <1>1, <1>2, <1>5, <2>1
<1> QED
  BY <1>3, <1>4, <1>5 DEF Vacated

\* What stands where after a move.
LEMMA StandsAfter ==
  ASSUME NEW p, Coherent(p), NEW m, Possible(p, m), NEW c \in Colors,
         NEW k \in Kinds, NEW s
  PROVE  s \in Make(p, m).pieces[c][k] <=>
           \/ s \in p.pieces[c][k] /\ s \notin Vacated(p, m)
           \/ s \in Arrived(p, m, c, k)
<1>1. Make(p, m).pieces = PiecesAfter(p, m)
  BY MakeFields
<1> QED
  BY <1>1, PiecesAfterAre

LEMMA SquaresFinite ==
  ASSUME NEW S \in SUBSET Squares
  PROVE  IsFiniteSet(S) /\ Cardinality(S) \in Nat
<1>1. 0 \in Int /\ 63 \in Int
  OBVIOUS
<1>2. IsFiniteSet(Squares)
  BY <1>1, FS_Interval DEF Squares
<1> QED
  BY <1>2, FS_Subset, FS_CardinalityType

LEMMA OneKing ==
  ASSUME NEW p, NEW c, NEW s, p.pieces[c]["king"] = {s}
  PROVE  Cardinality(p.pieces[c]["king"]) = 1 /\ KingSquare(p, c) = s
<1>1. Cardinality({s}) = 1
  BY FS_Singleton
<1> QED
  BY <1>1 DEF KingSquare

LEMMA KingIs ==
  ASSUME NEW p \in Positions, NEW c \in Colors,
         Cardinality(p.pieces[c]["king"]) = 1
  PROVE  /\ p.pieces[c]["king"] = {KingSquare(p, c)}
         /\ KingSquare(p, c) \in Squares
<1>1. p.pieces[c]["king"] \subseteq Squares
  BY PositionTyped DEF Kinds
<1>2. PICK s : p.pieces[c]["king"] = {s}
  BY <1>1, SquaresFinite, FS_Singleton
<1>3. KingSquare(p, c) = s
  BY <1>2, OneKing
<1> QED
  BY <1>1, <1>2, <1>3

LEMMA ReplacedIsNoMore ==
  ASSUME NEW S \in SUBSET Squares, NEW a \in S, NEW b
  PROVE  Cardinality((S \ {a}) \cup {b}) <= Cardinality(S)
<1>1. IsFiniteSet(S) /\ Cardinality(S) \in Nat
  BY SquaresFinite
<1>2. IsFiniteSet(S \ {a}) /\ Cardinality(S \ {a}) = Cardinality(S) - 1
  BY <1>1, FS_RemoveElement
<1>3. Cardinality((S \ {a}) \cup {b}) \in
        {Cardinality(S \ {a}), Cardinality(S \ {a}) + 1}
  BY <1>2, FS_AddElement
<1> QED
  BY <1>1, <1>2, <1>3

\* The kings after a move: the king that moves, or those that stood there.
LEMMA KingsAfter ==
  ASSUME NEW p, Coherent(p), NEW m, Possible(p, m),
         \A c \in Colors : Cardinality(p.pieces[c]["king"]) = 1,
         NEW c \in Colors
  PROVE  Make(p, m).pieces[c]["king"] =
           IF c = p.side /\ NewKind(p, m) = "king" THEN {m.to}
           ELSE p.pieces[c]["king"]
<1>1. PICK k \in Kinds : ManMoves(p, m, k)
  BY DEF Possible
<1>2. /\ PieceAt(p, m.from) = Piece(p.side, k)
      /\ NewKind(p, m) = IF IsPromotion(m) THEN m.promotion ELSE k
  BY <1>1, ManMoved
<1>3. NewKind(p, m) = "king" <=> k = "king"
  BY <1>1, <1>2 DEF ManMoves, Possible, Promotions
<1>4. "king" \in Kinds /\ m.to \in Squares /\ p.side \in Colors
  BY PositionTyped DEF Kinds, Possible, Moves, Coherent
<1>5. p.pieces[c]["king"] = {KingSquare(p, c)}
  BY KingIs DEF Coherent
<1>6. \A s : s \in Arrived(p, m, c, "king") <=>
        c = p.side /\ k = "king" /\ s = m.to
  BY <1>3, <1>4 DEF Arrived
<1>7. ASSUME NEW s \in p.pieces[c]["king"]
      PROVE  s \in Vacated(p, m) <=> c = p.side /\ k = "king"
  <2>1. CASE c = p.side /\ k = "king"
    <3>1. s = m.from
      BY <1>1, <1>5, <2>1 DEF ManMoves
    <3>2. s \in Squares
      BY <3>1 DEF Possible, Moves
    <3> QED
      BY <2>1, <3>1, <3>2 DEF Vacated
  <2>2. CASE ~ (c = p.side /\ k = "king")
    <3>1. SUFFICES ASSUME s \in Vacated(p, m) PROVE FALSE
      BY <2>2
    <3> QED
      BY <1>2, <1>4, <2>2, <3>1, WhatLeaves, PieceSame
  <2> QED
    BY <2>1, <2>2
<1>8. \A s : s \in Make(p, m).pieces[c]["king"] <=>
        \/ s \in p.pieces[c]["king"] /\ s \notin Vacated(p, m)
        \/ s \in Arrived(p, m, c, "king")
  BY <1>4, StandsAfter
<1> QED
  BY <1>3, <1>6, <1>7, <1>8

-----------------------------------------------------------------------------
(* A legal move leads from a valid position to a valid one.                *)

\* Nobody has more men after a move than before.
LEMMA NoMoreMen ==
  ASSUME NEW p, Coherent(p), NEW m, Possible(p, m), NEW c \in Colors
  PROVE  Cardinality(Make(p, m).occupied[c]) <= Cardinality(p.occupied[c])
<1> DEFINE q == Make(p, m)
           S == p.occupied[c]
           gone == RookHome(c, WingOf(m))
           come == RookTo(c, WingOf(m))
           T == (S \ {m.from}) \cup {m.to}
           U == (T \ {gone}) \cup {come}
<1>1. Coherent(q)
  BY AfterCoherent
<1>2. \A s : s \in q.occupied[c] <=> \E k \in Kinds : s \in q.pieces[c][k]
  BY <1>1, OccupiedIs
<1>3. \A s : s \in S <=> \E k \in Kinds : s \in p.pieces[c][k]
  BY OccupiedIs
<1>4. \A k \in Kinds : \A s : s \in q.pieces[c][k] <=>
        \/ s \in p.pieces[c][k] /\ s \notin Vacated(p, m)
        \/ s \in Arrived(p, m, c, k)
  BY StandsAfter
<1>5. /\ S \subseteq Squares /\ m.to \in Squares /\ m.from \in Squares
      /\ WingOf(m) \in Wings /\ "rook" \in Kinds
  BY <1>3, PositionTyped DEF Coherent, Possible, Moves, WingOf, Wings, Kinds
<1>6. gone \in Squares /\ come \in Squares
  BY <1>5, CastleSquares
<1>7. q.occupied[c] \subseteq Squares
  BY <1>1, <1>2, PositionTyped DEF Coherent
<1> HIDE DEF q
<1>8. CASE c # p.side
  <2>1. \A k \in Kinds : Arrived(p, m, c, k) = {}
    BY <1>8 DEF Arrived
  <2>2. q.occupied[c] \in SUBSET S
    BY <1>2, <1>3, <1>4, <2>1
  <2> QED
    BY <1>5, <2>2, SquaresFinite, FS_Subset DEF q
<1>9. CASE c = p.side
  <2>1. PICK k \in Kinds : ManMoves(p, m, k)
    BY DEF Possible
  <2>2. m.from \in p.pieces[c][k] /\ m.from \in S
    BY <1>3, <1>9, <2>1 DEF ManMoves
  <2>3. T \in SUBSET Squares /\ Cardinality(T) <= Cardinality(S)
    BY <1>5, <2>2, ReplacedIsNoMore
  <2>4. m.from \in Vacated(p, m)
    BY <1>5 DEF Vacated
  <2>5. CASE ~ IsCastle(m)
    <3>1. \A k2 \in Kinds : Arrived(p, m, c, k2) \subseteq {m.to}
      BY <2>5 DEF Arrived
    <3>2. q.occupied[c] \in SUBSET T
      BY <1>2, <1>3, <1>4, <2>4, <3>1
    <3>3. Cardinality(q.occupied[c]) <= Cardinality(T)
      BY <2>3, <3>2, SquaresFinite, FS_Subset
    <3> QED
      <4>1. Cardinality(T) \in Nat /\ Cardinality(S) \in Nat
              /\ Cardinality(q.occupied[c]) \in Nat
        BY <1>5, <1>7, <2>3, SquaresFinite
      <4> HIDE DEF S, T
      <4> QED
        BY <2>3, <3>3, <4>1 DEF q, S
  <2>6. CASE IsCastle(m)
    <3>1. gone \in p.pieces[c]["rook"] /\ k = "king"
      BY <1>9, <2>1, <2>6 DEF Possible, CastleStands, ManMoves
    <3>2. gone # m.from
      <4>1. "rook" # k
        BY <3>1
      <4> HIDE DEF gone
      <4> QED
        BY <1>5, <2>2, <3>1, <4>1 DEF Coherent, Disjoint
    <3>3. gone \in T
      BY <1>3, <1>5, <3>1, <3>2
    <3>4. U \in SUBSET Squares /\ Cardinality(U) <= Cardinality(T)
      <4> HIDE DEF T, gone, come
      <4> QED
        BY <1>6, <2>3, <3>3, ReplacedIsNoMore
    <3>5. gone \in Vacated(p, m)
      BY <1>6, <1>9, <2>6 DEF Vacated
    <3>6. \A k2 \in Kinds : Arrived(p, m, c, k2) \subseteq {m.to, come}
      BY <1>9, <2>6 DEF Arrived
    <3>7. m.to # gone
      <4>1. gone \in p.occupied[p.side]
        BY <1>3, <1>5, <1>9, <3>1
      <4> QED
        BY <4>1 DEF Possible
    <3>8. q.occupied[c] \in SUBSET U
      <4> HIDE DEF gone, come
      <4> QED
        BY <1>2, <1>3, <1>4, <2>4, <3>5, <3>6, <3>7
    <3>9. Cardinality(q.occupied[c]) <= Cardinality(U)
      <4> HIDE DEF U
      <4> QED
        BY <3>4, <3>8, SquaresFinite, FS_Subset
    <3> QED
      <4>1. /\ Cardinality(T) \in Nat /\ Cardinality(S) \in Nat
            /\ Cardinality(U) \in Nat /\ Cardinality(q.occupied[c]) \in Nat
        BY <1>5, <1>7, <2>3, <3>4, SquaresFinite
      <4> HIDE DEF S, T, U
      <4> QED
        BY <2>3, <3>4, <3>9, <4>1 DEF q, S
  <2> QED
    BY <2>5, <2>6
<1> QED
  BY <1>8, <1>9

\* Pawns stay off the first and the last rank.
LEMMA PawnsAfter ==
  ASSUME NEW p, Coherent(p), NEW m, Possible(p, m), NEW c \in Colors,
         \A s \in p.pieces[c]["pawn"] : Rank(s) \in 1 .. 6
  PROVE  \A s \in Make(p, m).pieces[c]["pawn"] : Rank(s) \in 1 .. 6
<1>1. PICK k \in Kinds : ManMoves(p, m, k)
  BY DEF Possible
<1>2. NewKind(p, m) = "pawn" => Rank(m.to) \in 1 .. 6
  BY <1>1, ManMoved DEF ManMoves, Possible, Promotions
<1>3. \A s \in Arrived(p, m, c, "pawn") : Rank(s) \in 1 .. 6
  BY <1>2 DEF Arrived
<1>4. "pawn" \in Kinds
  BY DEF Kinds
<1> QED
  BY <1>3, <1>4, StandsAfter

\* A right that is left is that of a king and a rook that still stand.
LEMMA RightsAfter ==
  ASSUME NEW p, Coherent(p), RightsStand(p), NEW m, Possible(p, m)
  PROVE  RightsStand(Make(p, m))
<1> DEFINE q == Make(p, m)
<1> SUFFICES ASSUME NEW c \in Colors, NEW w \in Wings, <<c, w>> \in q.castle
             PROVE  /\ PieceAt(q, KingHome(c)) = Piece(c, "king")
                    /\ PieceAt(q, RookHome(c, w)) = Piece(c, "rook")
  BY DEF RightsStand
<1>1. /\ <<c, w>> \in p.castle /\ <<c, w>> \notin RightsMoved(p, m)
      /\ <<c, w>> \notin RightsTaken(p, m)
  BY MakeFields
<1>2. Coherent(q) /\ "king" \in Kinds /\ "rook" \in Kinds
  BY AfterCoherent DEF Kinds
<1>3. /\ KingHome(c) \in p.pieces[c]["king"]
      /\ RookHome(c, w) \in p.pieces[c]["rook"]
  BY <1>1, <1>2, ManAt DEF RightsStand
<1>4. /\ p.side \in Colors /\ Opposite(p.side) # p.side
      /\ c = p.side \/ c = Opposite(p.side)
  BY PositionTyped DEF Coherent
<1>5. IsCastle(m) => PieceAt(p, m.from) = Piece(p.side, "king")
  BY ManMoved DEF Possible, ManMoves
<1>6. c = p.side => /\ PieceAt(p, m.from).kind # "king"
                    /\ ~ (PieceAt(p, m.from).kind = "rook"
                            /\ m.from = RookHome(c, w))
  BY <1>1 DEF RightsMoved
<1>7. KingHome(c) \notin Vacated(p, m)
  <2>1. SUFFICES ASSUME KingHome(c) \in Vacated(p, m) PROVE FALSE
    OBVIOUS
  <2>2. c = p.side /\ PieceAt(p, m.from) = Piece(c, "king")
    BY <1>2, <1>3, <2>1, WhatLeaves
  <2> QED
    BY <1>6, <2>2, PieceSame
<1>8. RookHome(c, w) \notin Vacated(p, m)
  <2>1. SUFFICES ASSUME RookHome(c, w) \in Vacated(p, m) PROVE FALSE
    OBVIOUS
  <2>2. CASE /\ RookHome(c, w) = m.from /\ c = p.side
             /\ PieceAt(p, m.from) = Piece(c, "rook")
    BY <1>6, <2>2, PieceSame
  <2>3. CASE /\ Captured(p, m) = Piece(c, "rook")
             /\ RookHome(c, w) = CaptureSquare(m, p.side)
             /\ c = Opposite(p.side)
    <3>1. m.kind # "enPassant"
      BY <2>3, CapturedIs, PieceSame
    <3>2. m.to = RookHome(c, w) /\ Captured(p, m).kind = "rook"
      BY <2>3, <3>1, PieceSame DEF CaptureSquare
    <3> QED
      BY <1>1, <2>3, <3>2 DEF RightsTaken
  <2>4. CASE IsCastle(m) /\ c = p.side
    BY <1>5, <1>6, <2>4, PieceSame
  <2> QED
    BY <1>2, <1>3, <2>1, <2>2, <2>3, <2>4, WhatLeaves
<1>9. /\ KingHome(c) \in q.pieces[c]["king"]
      /\ RookHome(c, w) \in q.pieces[c]["rook"]
  BY <1>2, <1>3, <1>7, <1>8, StandsAfter
<1> QED
  BY <1>2, <1>9, ManAt

\* Behind a pawn that went two squares the enemy may capture.
LEMMA EnPassantAfter ==
  ASSUME NEW p, Coherent(p), NEW m, Possible(p, m), m.kind = "double"
  PROVE  LET q == Make(p, m) IN EnPassantStands(q, q.ep, q.side)
<1> DEFINE q == Make(p, m)
           ep == m.from + 8 * Forward(p.side)
<1>1. q.ep = ep /\ q.side = Opposite(p.side)
  BY MakeFields
<1>2. Coherent(q) /\ "pawn" \in Kinds
  BY AfterCoherent DEF Kinds
<1>3. DoubleStands(p, m)
  BY DEF Possible
<1>4. /\ p.side \in Colors /\ m.from \in Squares /\ m.to \in Squares
      /\ Forward(p.side) \in {-1, 1} /\ Forward(q.side) = -Forward(p.side)
  BY <1>1, PositionTyped, OneOfTwo DEF Coherent, Possible, Moves
<1>5. PICK k \in Kinds : ManMoves(p, m, k)
  BY DEF Possible
<1>6. ~ IsCastle(m) /\ ~ IsPromotion(m)
  BY DEF IsCastle, IsPromotion
<1>7. k = "pawn" /\ NewKind(p, m) = "pawn"
  BY <1>5, <1>6, ManMoved DEF ManMoves
<1>8. \A c \in Colors, l \in Kinds : \A s :
        s \in Arrived(p, m, c, l) <=> c = p.side /\ l = "pawn" /\ s = m.to
  BY <1>4, <1>6, <1>7 DEF Arrived
<1>9. m.to \in q.pieces[p.side]["pawn"]
  BY <1>2, <1>4, <1>8, StandsAfter
<1>10. /\ ep \in Squares \ AllOccupied(p) /\ m.to = ep + 8 * Forward(p.side)
       /\ m.from = ep - 8 * Forward(p.side)
       /\ ep # m.to /\ m.from # m.to
  BY <1>3, <1>4 DEF DoubleStands, Squares
<1>11. \A c \in Colors, l \in Kinds : ep \notin q.pieces[c][l]
  <2> HIDE DEF ep, q
  <2>1. \A c \in Colors, l \in Kinds : ep \notin p.pieces[c][l]
    BY <1>10, OccupiedIs
  <2> QED
    BY <1>8, <1>10, <2>1, StandsAfter DEF q
<1>12. \A c \in Colors, l \in Kinds : m.from \notin q.pieces[c][l]
  <2>1. m.from \in Vacated(p, m)
    BY <1>4 DEF Vacated
  <2> QED
    BY <1>8, <1>10, <2>1, StandsAfter
<1>13. Rank(ep) = IF q.side = "white" THEN 5 ELSE 2
  <2>1. /\ m.from = File(m.from) + 8 * Rank(m.from)
        /\ File(m.from) \in 0 .. 7 /\ Rank(m.from) \in 0 .. 7
    BY <1>4, SquareParts
  <2>2. CASE p.side = "white"
    <3>1. ep = File(m.from) + 8 * 2
      BY <1>3, <2>1, <2>2 DEF DoubleStands, Forward
    <3>2. q.side = "black"
      BY <1>1, <2>2 DEF Opposite
    <3> QED
      BY <2>1, <3>1, <3>2, SquareFrom
  <2>3. CASE p.side = "black"
    <3>1. ep = File(m.from) + 8 * 5
      BY <1>3, <2>1, <2>3 DEF DoubleStands, Forward
    <3>2. q.side = "white"
      BY <1>1, <2>3 DEF Opposite
    <3> QED
      BY <2>1, <3>1, <3>2, SquareFrom
  <2> QED
    BY <1>4, <2>2, <2>3 DEF Colors
<1>14. /\ ep - 8 * Forward(q.side) = m.to /\ ep + 8 * Forward(q.side) = m.from
  BY <1>4, <1>10 DEF Squares
<1>15. Opposite(q.side) = p.side
  BY <1>1, <1>4, OneOfTwo
<1>16. /\ PieceAt(q, ep) = NoPiece /\ PieceAt(q, m.from) = NoPiece
       /\ PieceAt(q, m.to) = Piece(p.side, "pawn")
  <2> HIDE DEF q, ep
  <2> QED
    BY <1>2, <1>4, <1>9, <1>11, <1>12, PieceAtIs
<1> HIDE DEF q, ep
<1>17. EnPassantStands(q, q.ep, q.side)
  BY <1>1, <1>13, <1>14, <1>15, <1>16 DEF EnPassantStands
<1> QED
  BY <1>17 DEF q

\* The position a move is tried in has the pieces of the one it leads to.
LEMMA InCheckTried ==
  ASSUME NEW p, Coherent(p), NEW m, Possible(p, m), NEW c
  PROVE  InCheck(MakeFast(p, m), c) <=> InCheck(Make(p, m), c)
<1> DEFINE f == MakeFast(p, m)
           q == Make(p, m)
<1>1. /\ q.pieces = PiecesAfter(p, m) /\ f.pieces = PiecesAfter(p, m)
      /\ q.occupied = OccupiedBy(q.pieces) /\ f.occupied = OccupiedBy(f.pieces)
  BY MakeFields DEF MakeFast
<1> HIDE DEF f, q
<1>2. AllOccupied(f) = AllOccupied(q) /\ KingSquare(f, c) = KingSquare(q, c)
  BY <1>1 DEF AllOccupied, KingSquare
<1>3. \A s, d : IsSquareAttacked(f, s, d) <=> IsSquareAttacked(q, s, d)
  BY <1>1, <1>2 DEF IsSquareAttacked
<1> QED
  BY <1>2, <1>3 DEF InCheck, f, q

\* Whoever has a king that is not in check keeps it away from the other king.
LEMMA KingsStayApart ==
  ASSUME NEW q, Coherent(q), NEW c \in Colors,
         \A d \in Colors : Cardinality(q.pieces[d]["king"]) = 1,
         ~ InCheck(q, c)
  PROVE  KingSquare(q, "black") \notin KingAttacks[KingSquare(q, "white")]
<1> DEFINE own == KingSquare(q, c)
           other == KingSquare(q, Opposite(c))
<1>1. /\ Opposite(c) \in Colors
      /\ \/ c = "white" /\ Opposite(c) = "black"
         \/ c = "black" /\ Opposite(c) = "white"
  BY DEF Colors, Opposite
<1>2. /\ own \in Squares /\ other \in Squares
      /\ q.pieces[Opposite(c)]["king"] = {other}
  BY <1>1, KingIs DEF Coherent
<1>3. own # NoSquare
  BY <1>2 DEF Squares, NoSquare
<1>4. ~ IsSquareAttacked(q, own, Opposite(c))
  BY <1>3 DEF InCheck
<1>5. KingAttacks[own] \cap {other} = {}
  BY <1>2, <1>4 DEF IsSquareAttacked
<1>6. own \notin KingAttacks[other]
  BY <1>2, <1>5, KingsSymmetric
<1> QED
  BY <1>1, <1>5, <1>6

LEMMA ValidAfter ==
  ASSUME NEW p \in Positions, Valid(p), NEW m \in LegalMoves(p)
  PROVE  /\ Make(p, m) \in Positions /\ Valid(Make(p, m))
         /\ Possible(p, m)
<1> DEFINE q == Make(p, m)
<1>1. Coherent(p)
  BY DEF Valid, Coherent
<1>2. m \in PseudoLegalMoves(p) /\ ~ InCheck(MakeFast(p, m), p.side)
  BY DEF LegalMoves
<1>3. Possible(p, m)
  BY <1>1, <1>2, PseudoPossible
<1>4. Coherent(q)
  BY <1>1, <1>3, AfterCoherent
<1>5. /\ q.side = Opposite(p.side) /\ q.hash = Hash(q)
      /\ q.ep = (IF m.kind = "double" THEN m.from + 8 * Forward(p.side)
                 ELSE NoSquare)
  BY <1>1, <1>3, MakeFields
<1>6. p.side \in Colors /\ Opposite(q.side) = p.side
  BY <1>1, <1>5, PositionTyped, OneOfTwo DEF Coherent
<1>7. \A c \in Colors : /\ Cardinality(p.occupied[c]) <= 16
                        /\ Cardinality(p.pieces[c]["king"]) = 1
                        /\ \A s \in p.pieces[c]["pawn"] : Rank(s) \in 1 .. 6
  BY DEF Valid
<1>8. ASSUME NEW c \in Colors PROVE Cardinality(q.occupied[c]) <= 16
  <2>1. Cardinality(q.occupied[c]) <= Cardinality(p.occupied[c])
    BY <1>1, <1>3, NoMoreMen
  <2>2. p.occupied[c] \in SUBSET Squares /\ q.occupied[c] \in SUBSET Squares
    BY <1>1, <1>4 DEF Coherent, Positions
  <2>3. Cardinality(q.occupied[c]) \in Nat /\ Cardinality(p.occupied[c]) \in Nat
    BY <2>2, SquaresFinite
  <2> HIDE DEF q
  <2> QED
    BY <1>7, <2>1, <2>3
<1>9. ASSUME NEW c \in Colors PROVE Cardinality(q.pieces[c]["king"]) = 1
  <2>1. q.pieces[c]["king"] = {m.to}
          \/ q.pieces[c]["king"] = p.pieces[c]["king"]
    BY <1>1, <1>3, <1>7, KingsAfter
  <2> HIDE DEF q
  <2> QED
    BY <1>7, <2>1, FS_Singleton
<1>10. \A c \in Colors : \A s \in q.pieces[c]["pawn"] : Rank(s) \in 1 .. 6
  BY <1>1, <1>3, <1>7, PawnsAfter
<1>11. ~ InCheck(q, p.side)
  BY <1>1, <1>2, <1>3, InCheckTried
<1>12. RightsStand(q)
  BY <1>1, <1>3, RightsAfter DEF Valid
<1>13. q.ep # NoSquare => EnPassantStands(q, q.ep, q.side)
  BY <1>1, <1>3, <1>5, EnPassantAfter
<1> HIDE DEF q
<1>14. KingSquare(q, "black") \notin KingAttacks[KingSquare(q, "white")]
  BY <1>4, <1>6, <1>9, <1>11, KingsStayApart
<1>15. Valid(q)
  BY <1>4, <1>5, <1>6, <1>8, <1>9, <1>10, <1>11, <1>12, <1>13, <1>14
     DEF Valid, Coherent
<1> QED
  BY <1>3, <1>4, <1>15 DEF q, Coherent

-----------------------------------------------------------------------------
(* Taking a move back.                                                     *)

\* The men that left a square are the one that moved, what it took and the
\* rook that castled.
LEMMA WhoLeft ==
  ASSUME NEW p, Coherent(p), NEW m, Possible(p, m), NEW k \in Kinds,
         PieceAt(p, m.from) = Piece(p.side, k), NEW c \in Colors,
         NEW l \in Kinds, NEW s
  PROVE  s \in p.pieces[c][l] /\ s \in Vacated(p, m) <=>
           \/ s = m.from /\ c = p.side /\ l = k
           \/ /\ Captured(p, m) = Piece(c, l)
              /\ s = CaptureSquare(m, p.side)
           \/ /\ IsCastle(m) /\ s = RookHome(p.side, WingOf(m))
              /\ c = p.side /\ l = "rook"
<1>1. /\ p.side \in Colors /\ m.from \in Squares
      /\ \A d \in Colors, j \in Kinds : p.pieces[d][j] \subseteq Squares
      /\ \A d \in Colors, j \in Kinds : Piece(d, j) # NoPiece
  BY PositionTyped DEF Coherent, Possible, Moves, Piece, NoPiece, Colors
<1>2. ASSUME s \in p.pieces[c][l], s \in Vacated(p, m)
      PROVE  \/ s = m.from /\ c = p.side /\ l = k
             \/ /\ Captured(p, m) = Piece(c, l)
                /\ s = CaptureSquare(m, p.side)
             \/ /\ IsCastle(m) /\ s = RookHome(p.side, WingOf(m))
                /\ c = p.side /\ l = "rook"
  BY <1>2, WhatLeaves, PieceSame
<1>3. CASE s = m.from /\ c = p.side /\ l = k
  <2>1. s \in p.pieces[c][l]
    BY <1>1, <1>3, ManAt
  <2> QED
    BY <1>1, <1>3, <2>1 DEF Vacated
<1>4. CASE Captured(p, m) = Piece(c, l) /\ s = CaptureSquare(m, p.side)
  <2>1. s \in p.pieces[c][l]
    BY <1>1, <1>4, CapturedIs, PieceSame
  <2> QED
    BY <1>1, <1>4, <2>1 DEF Vacated
<1>5. CASE /\ IsCastle(m) /\ s = RookHome(p.side, WingOf(m))
           /\ c = p.side /\ l = "rook"
  <2>1. s \in p.pieces[c][l]
    BY <1>5 DEF Possible, CastleStands
  <2> QED
    BY <1>1, <1>5, <2>1 DEF Vacated
<1> QED
  BY <1>2, <1>3, <1>4, <1>5

\* Whoever stands where a man arrived is the man that arrived.
LEMMA WhoArrived ==
  ASSUME NEW p, Coherent(p), NEW m, Possible(p, m), NEW c \in Colors,
         NEW l \in Kinds, NEW s
  PROVE  s \in p.pieces[c][l] /\ s \notin Vacated(p, m) <=>
           /\ s \in Make(p, m).pieces[c][l] /\ s # m.to
           /\ ~ (IsCastle(m) /\ s = RookTo(p.side, WingOf(m)))
<1> DEFINE w == WingOf(m)
<1>1. /\ p.side \in Colors /\ m.to \in Squares /\ "rook" \in Kinds
      /\ w \in Wings
  BY PositionTyped DEF Coherent, Possible, Moves, Kinds, WingOf, Wings
<1>2. NewKind(p, m) \in Kinds
  <2>1. PICK k \in Kinds : ManMoves(p, m, k)
    BY DEF Possible
  <2> QED
    BY <2>1, ManMoved DEF Possible, Promotions, Kinds
<1>3. m.to \in Arrived(p, m, p.side, NewKind(p, m))
  BY <1>1 DEF Arrived
<1>4. IsCastle(m) =>
        RookTo(p.side, w) \in Arrived(p, m, p.side, "rook")
  <2>1. RookTo(p.side, w) \in Squares
    BY <1>1, CastleSquares
  <2> QED
    BY <2>1 DEF Arrived
<1>5. m.to \notin p.pieces[c][l] \ Vacated(p, m)
  BY <1>1, <1>2, <1>3, ArrivedFree
<1>6. IsCastle(m) => RookTo(p.side, w) \notin p.pieces[c][l] \ Vacated(p, m)
  BY <1>1, <1>4, ArrivedFree
<1>7. s \in Arrived(p, m, c, l) =>
        s = m.to \/ (IsCastle(m) /\ s = RookTo(p.side, w))
  BY DEF Arrived
<1> QED
  BY <1>5, <1>6, <1>7, StandsAfter

LEMMA UnmakeUndoesMake ==
  ASSUME NEW p, Coherent(p), NEW m, Possible(p, m)
  PROVE  Unmake(Make(p, m), m, UndoOf(p, m)) = p
<1> DEFINE q == Make(p, m)
           side == p.side
           enemy == Opposite(p.side)
           w == WingOf(m)
           new == NewKind(p, m)
           there == CaptureSquare(m, side)
           captured == Captured(p, m)
<1>1. /\ side \in Colors /\ enemy \in Colors /\ w \in Wings
      /\ p.pieces \in Bitboards /\ "rook" \in Kinds
      /\ m.from \in Squares /\ m.to \in Squares
  BY PositionTyped DEF Coherent, Possible, Moves, WingOf, Wings, Kinds,
     Bitboards
<1>2. PICK k \in Kinds : ManMoves(p, m, k)
  BY DEF Possible
<1>3. /\ PieceAt(p, m.from) = Piece(side, k)
      /\ new = IF IsPromotion(m) THEN m.promotion ELSE k
      /\ IsPromotion(m) => k = "pawn"
  BY <1>2, ManMoved DEF ManMoves
<1>4. new \in Kinds
  BY <1>3 DEF Possible, Promotions, Kinds
<1>5. Coherent(q) /\ Opposite(q.side) = side /\ q.pieces \in Bitboards
  BY <1>1, AfterCoherent, MakeFields, OneOfTwo, PiecesAfterAre
<1>6. m.to \in q.pieces[side][new]
  <2>1. m.to \in Arrived(p, m, side, new)
    BY <1>1 DEF Arrived
  <2> QED
    BY <1>1, <1>4, <2>1, StandsAfter
<1>7. PieceAt(q, m.to) = Piece(side, new)
  <2> HIDE DEF side, new, q
  <2> QED
    BY <1>1, <1>4, <1>5, <1>6, ManAt
<1>8. \A c \in Colors, l \in Kinds : \A s :
        m.to \in q.pieces[c][l] => c = side /\ l = new
  <2> HIDE DEF side, new, q
  <2> QED
    BY <1>1, <1>4, <1>5, <1>6 DEF Coherent, Disjoint
<1>9. RestoreSquare(m, side) = there
  BY DEF RestoreSquare, CaptureSquare
<1>10. captured # NoPiece =>
         \E l \in Kinds : captured = Piece(enemy, l) /\ there \in Squares
  BY <1>1, CapturedIs, PositionTyped DEF Coherent
<1>11. IsCastle(m) =>
         /\ RookHome(side, w) \in Squares /\ RookTo(side, w) \in Squares
         /\ RookTo(side, w) \in q.pieces[side]["rook"]
  <2>1. /\ RookHome(side, w) \in Squares /\ RookTo(side, w) \in Squares
    BY <1>1, CastleSquares
  <2>2. IsCastle(m) => RookTo(side, w) \in Arrived(p, m, side, "rook")
    BY <2>1 DEF Arrived
  <2> QED
    BY <1>1, <2>1, <2>2, StandsAfter
<1>12. \A c \in Colors, l \in Kinds : \A s :
         s \in p.pieces[c][l] /\ s \notin Vacated(p, m) <=>
           /\ s \in q.pieces[c][l] /\ s # m.to
           /\ ~ (IsCastle(m) /\ s = RookTo(side, w))
  BY WhoArrived
<1>13. \A c \in Colors, l \in Kinds : \A s :
         s \in p.pieces[c][l] /\ s \in Vacated(p, m) <=>
           \/ s = m.from /\ c = side /\ l = k
           \/ captured = Piece(c, l) /\ s = there
           \/ IsCastle(m) /\ s = RookHome(side, w) /\ c = side /\ l = "rook"
  BY <1>3, WhoLeft
<1>14. \A c \in Colors, l \in Kinds :
         RookTo(side, w) \in q.pieces[c][l] /\ IsCastle(m)
           => c = side /\ l = "rook"
  <2> HIDE DEF side, q, w
  <2> QED
    BY <1>1, <1>5, <1>11 DEF Coherent, Disjoint
<1> DEFINE lifted == Removed(q.pieces, m.to, Piece(side, new))
           back == Added(lifted, m.from, Piece(side, k))
           rook == Piece(side, "rook")
           lone == Removed(back, RookTo(side, w), rook)
           unrooked == IF IsCastle(m) THEN Added(lone, RookHome(side, w), rook)
                       ELSE back
           pieces == IF captured = NoPiece THEN unrooked
                     ELSE Added(unrooked, there, captured)
<1>15. Unmake(q, m, UndoOf(p, m)) =
         [side |-> side, pieces |-> pieces, occupied |-> OccupiedBy(pieces),
          castle |-> p.castle, ep |-> p.ep, halfmove |-> p.halfmove,
          fullmove |-> p.fullmove, hash |-> p.hash]
  <2>1. IF IsPromotion(m) THEN Piece(side, "pawn") = Piece(side, k)
        ELSE Piece(side, new) = Piece(side, k)
    BY <1>3
  <2>2. /\ UndoOf(p, m).captured = captured /\ UndoOf(p, m).castle = p.castle
        /\ UndoOf(p, m).ep = p.ep /\ UndoOf(p, m).hash = p.hash
        /\ UndoOf(p, m).halfmove = p.halfmove
        /\ UndoOf(p, m).fullmove = p.fullmove
    BY DEF UndoOf
  <2> HIDE DEF q, side, new, there, captured, w
  <2>3. CASE IsPromotion(m)
    <3>1. ~ IsCastle(m)
      BY <2>3 DEF IsPromotion, IsCastle
    <3> QED
      BY <1>5, <1>7, <1>9, <2>1, <2>2, <2>3, <3>1 DEF Unmake
  <2>4. CASE ~ IsPromotion(m) /\ IsCastle(m)
    BY <1>5, <1>7, <1>9, <2>1, <2>2, <2>4 DEF Unmake, w
  <2>5. CASE ~ IsPromotion(m) /\ ~ IsCastle(m)
    BY <1>5, <1>7, <1>9, <2>1, <2>2, <2>5 DEF Unmake
  <2> QED
    BY <2>3, <2>4, <2>5
<1> HIDE DEF q, side, enemy, w, new, there, captured
<1>16. IsLifted(q.pieces, lifted, m.to, side, new)
  BY <1>1, <1>4, <1>5, PutMan
<1> HIDE DEF lifted
<1>17. IsPut(lifted, back, m.from, side, k)
  BY <1>1, <1>16, PutMan DEF IsLifted
<1> HIDE DEF back
<1>18. /\ unrooked \in Bitboards
       /\ \A c \in Colors, l \in Kinds : \A s :
            s \in unrooked[c][l] <=>
              \/ /\ s \in q.pieces[c][l] /\ s # m.to
                 /\ ~ (IsCastle(m) /\ s = RookTo(side, w))
              \/ s = m.from /\ c = side /\ l = k
              \/ IsCastle(m) /\ s = RookHome(side, w) /\ c = side /\ l = "rook"
  <2>1. CASE ~ IsCastle(m)
    BY <1>8, <1>16, <1>17, <2>1 DEF IsLifted, IsPut
  <2>2. CASE IsCastle(m)
    <3>1. IsLifted(back, lone, RookTo(side, w), side, "rook")
      BY <1>1, <1>11, <1>17, <2>2, PutMan DEF IsPut
    <3> HIDE DEF lone
    <3>2. IsPut(lone, unrooked, RookHome(side, w), side, "rook")
      BY <1>1, <1>11, <2>2, <3>1, PutMan DEF IsLifted
    <3>3. m.from # RookTo(side, w)
      <4>1. m.from = KingHome(side)
        BY <2>2 DEF Possible, CastleStands, side
      <4>2. KingHome(side) # RookTo(side, w)
        BY <1>1 DEF KingHome, RookTo, Home
      <4> QED
        BY <4>1, <4>2
    <3> HIDE DEF unrooked
    <3> QED
      BY <1>8, <1>14, <1>16, <1>17, <2>2, <3>1, <3>2, <3>3 DEF IsLifted, IsPut
  <2> QED
    BY <2>1, <2>2
<1> HIDE DEF unrooked
<1>19. /\ pieces \in Bitboards
       /\ \A c \in Colors, l \in Kinds : \A s :
            s \in pieces[c][l] <=>
              s \in unrooked[c][l] \/ (captured = Piece(c, l) /\ s = there)
  <2>1. CASE captured = NoPiece
    <3>1. \A c \in Colors, l \in Kinds : Piece(c, l) # NoPiece
      BY DEF Piece, NoPiece, Colors
    <3> QED
      BY <1>18, <2>1, <3>1
  <2>2. CASE captured # NoPiece
    <3>1. PICK l \in Kinds : captured = Piece(enemy, l) /\ there \in Squares
      BY <1>10, <2>2
    <3>2. IsPut(unrooked, pieces, there, enemy, l)
      BY <1>1, <1>18, <2>2, <3>1, PutMan
    <3>3. \A c \in Colors, j \in Kinds :
            captured = Piece(c, j) <=> c = enemy /\ j = l
      BY <3>1, PieceSame
    <3> HIDE DEF pieces
    <3> QED
      BY <3>2, <3>3 DEF IsPut
  <2> QED
    BY <2>1, <2>2
<1> HIDE DEF pieces
<1>20. \A c \in Colors, l \in Kinds : \A s :
         s \in pieces[c][l] <=> s \in p.pieces[c][l]
  BY <1>12, <1>13, <1>18, <1>19
<1>21. \A c \in Colors, l \in Kinds : pieces[c][l] = p.pieces[c][l]
  BY <1>20
<1>22. pieces = p.pieces
  <2>1. \A c \in Colors : pieces[c] = p.pieces[c]
    BY <1>1, <1>19, <1>21 DEF Bitboards
  <2> QED
    BY <1>1, <1>19, <2>1 DEF Bitboards
<1>23. p = [side |-> p.side, pieces |-> p.pieces, occupied |-> p.occupied,
            castle |-> p.castle, ep |-> p.ep, halfmove |-> p.halfmove,
            fullmove |-> p.fullmove, hash |-> p.hash]
  <2>1. p \in Positions
    BY DEF Coherent
  <2> QED
    BY <2>1 DEF Positions
<1>24. p.occupied = OccupiedBy(p.pieces)
  BY DEF Coherent
<1> QED
  BY <1>15, <1>22, <1>23, <1>24 DEF q, side

-----------------------------------------------------------------------------
(* Lines.                                                                  *)

\* The square n steps of direction d away from s, and whether there is one.
Along(s, d, n) == s + n * (d[1] + 8 * d[2])
Within(s, d, n) == OnBoard(File(s) + n * d[1], Rank(s) + n * d[2])

LEMMA AlongIs ==
  ASSUME NEW s \in Squares, NEW d \in Steps, NEW n \in 1 .. 7, Within(s, d, n)
  PROVE  /\ Along(s, d, n) \in Squares
         /\ File(Along(s, d, n)) = File(s) + n * d[1]
         /\ Rank(Along(s, d, n)) = Rank(s) + n * d[2]
BY Stepped DEF Along, Within

LEMMA StepIs ==
  ASSUME NEW d \in Steps
  PROVE  /\ d[1] \in {-1, 0, 1} /\ d[2] \in {-1, 0, 1}
         /\ d[1] # 0 \/ d[2] # 0
         /\ d \in Diagonals <=> d[1] # 0 /\ d[2] # 0
         /\ d \in Straights <=> d[1] = 0 \/ d[2] = 0
         /\ d = <<d[1], d[2]>>
BY DEF Steps, Diagonals, Straights

\* A ray holds the squares of its direction, in order.
LEMMA RayIs ==
  ASSUME NEW s \in Squares, NEW d \in Steps
  PROVE  /\ Len(Ray[s][d]) \in 0 .. 7
         /\ Ray[s][d] \in Seq(Squares)
         /\ \A n \in 1 .. 7 : n <= Len(Ray[s][d]) <=> Within(s, d, n)
         /\ \A n \in 1 .. Len(Ray[s][d]) : Ray[s][d][n] = Along(s, d, n)
<1> DEFINE reach == {n \in 1 .. 7 :
                       OnBoard(File(s) + n * d[1], Rank(s) + n * d[2])}
           k == Cardinality(reach)
<1>1. reach = 1 .. k /\ k \in Nat
  BY RayReach
<1>2. Ray[s][d] = [n \in 1 .. k |-> Along(s, d, n)]
  BY DEF Ray, Along
<1>3. \A n \in 1 .. 7 : n \in reach <=> Within(s, d, n)
  BY DEF Within
<1>4. k <= 7
  <2>1. reach \subseteq 1 .. 7
    OBVIOUS
  <2> HIDE DEF reach
  <2>2. k \in 1 .. k \/ k = 0
    BY <1>1
  <2> QED
    BY <1>1, <2>1, <2>2
<1> HIDE DEF reach, k
<1>5. Len(Ray[s][d]) = k
  BY <1>1, <1>2
<1>6. Ray[s][d] \in Seq(Squares)
  BY RaysOnBoard
<1> QED
  BY <1>1, <1>2, <1>3, <1>4, <1>5, <1>6

\* A slider sees the squares of a direction up to the first man.
LEMMA SeenIs ==
  ASSUME NEW occupied, NEW s \in Squares, NEW directions \in SUBSET Steps,
         NEW t
  PROVE  t \in SeenFrom(occupied, s, directions) <=>
           \E d \in directions : \E n \in 1 .. 7 :
             /\ Within(s, d, n) /\ t = Along(s, d, n)
             /\ \A i \in 1 .. n - 1 : Along(s, d, i) \notin occupied
<1>1. ASSUME NEW d \in directions
      PROVE  /\ Sight(occupied, s, d) \in 0 .. Len(Ray[s][d])
             /\ \A n \in 1 .. 7 :
                  n <= Sight(occupied, s, d) <=>
                    /\ Within(s, d, n)
                    /\ \A i \in 1 .. n - 1 : Along(s, d, i) \notin occupied
  <2> DEFINE ray == Ray[s][d]
             I == {i \in 1 .. Len(ray) : ray[i] \in occupied}
             far == Sight(occupied, s, d)
  <2>1. /\ Len(ray) \in 0 .. 7
        /\ \A n \in 1 .. 7 : n <= Len(ray) <=> Within(s, d, n)
        /\ \A n \in 1 .. Len(ray) : ray[n] = Along(s, d, n)
    BY RayIs
  <2>2. far = IF (IF I # {} THEN Min(I) ELSE 0) = 0 THEN Len(ray)
              ELSE IF I # {} THEN Min(I) ELSE 0
    BY DEF Sight, SelectInSeq
  <2>3. \A i \in I : i \in 1 .. Len(ray) /\ Along(s, d, i) \in occupied
    BY <2>1
  <2>4. \A i \in 1 .. Len(ray) : i \notin I => Along(s, d, i) \notin occupied
    BY <2>1
  <2>5. CASE I = {}
    <3>1. far = Len(ray)
      BY <2>2, <2>5
    <3> HIDE DEF ray, I, far
    <3> QED
      BY <2>1, <2>4, <2>5, <3>1 DEF ray, far
  <2>6. CASE I # {}
    <3>1. Min(I) \in I /\ \A i \in I : Min(I) <= i
      <4>1. I \in SUBSET Nat
        BY <2>1
      <4> HIDE DEF I
      <4> QED
        BY <2>6, <4>1, Smallest DEF Min
    <3>2. far = Min(I)
      BY <2>2, <2>3, <2>6, <3>1
    <3> HIDE DEF ray, I, far
    <3>3. far \in 1 .. Len(ray) /\ Along(s, d, far) \in occupied
      BY <2>3, <3>1, <3>2
    <3>4. \A i \in 1 .. far - 1 : Along(s, d, i) \notin occupied
      BY <2>1, <2>4, <3>1, <3>2, <3>3
    <3>5. \A n \in 1 .. 7 : n <= far =>
            /\ n <= Len(ray)
            /\ \A i \in 1 .. n - 1 : Along(s, d, i) \notin occupied
      <4>1. far \in Nat /\ Len(ray) \in Nat
        BY <2>1, <3>3
      <4> QED
        BY <3>3, <3>4, <4>1
    <3>6. \A n \in 1 .. 7 : ~ (n <= far) => far \in 1 .. n - 1
      BY <2>1, <3>3
    <3> QED
      BY <2>1, <3>3, <3>5, <3>6 DEF ray, far
  <2> QED
    BY <2>5, <2>6
<1>2. t \in SeenFrom(occupied, s, directions) <=>
        \E d \in directions : \E n \in 1 .. Sight(occupied, s, d) :
          t = Ray[s][d][n]
  BY DEF SeenFrom
<1>3. ASSUME NEW d \in directions
      PROVE  /\ Sight(occupied, s, d) \in 0 .. 7
             /\ \A n \in 1 .. Sight(occupied, s, d) :
                  n \in 1 .. 7 /\ Ray[s][d][n] = Along(s, d, n)
  <2>1. Sight(occupied, s, d) \in 0 .. Len(Ray[s][d])
    BY <1>1
  <2>2. /\ Len(Ray[s][d]) \in 0 .. 7
        /\ \A n \in 1 .. Len(Ray[s][d]) : Ray[s][d][n] = Along(s, d, n)
    BY RayIs
  <2> QED
    BY <2>1, <2>2
<1>4. \A d \in directions :
        (\E n \in 1 .. Sight(occupied, s, d) : t = Ray[s][d][n])
          <=> \E n \in 1 .. 7 :
                /\ Within(s, d, n) /\ t = Along(s, d, n)
                /\ \A i \in 1 .. n - 1 : Along(s, d, i) \notin occupied
  <2> TAKE d \in directions
  <2>1. Sight(occupied, s, d) \in 0 .. 7
    BY <1>3
  <2>2. \A n \in 1 .. Sight(occupied, s, d) :
          n \in 1 .. 7 /\ n <= Sight(occupied, s, d)
    BY <2>1
  <2>3. \A n \in 1 .. 7 : n <= Sight(occupied, s, d) =>
          n \in 1 .. Sight(occupied, s, d)
    BY <2>1
  <2> QED
    BY <1>1, <1>3, <2>2, <2>3
<1> QED
  BY <1>2, <1>4

\* Multiples of a direction, and of one of its two parts.
LEMMA Scaled ==
  ASSUME NEW n \in 0 .. 7, NEW d \in Steps
  PROVE  /\ n * d[1] \in Int /\ n * d[2] \in Int
         /\ n * (d[1] + 8 * d[2]) = n * d[1] + 8 * (n * d[2])
<1>1. d[1] \in {-1, 0, 1} /\ d[2] \in {-1, 0, 1}
  BY StepIs
<1>2. ASSUME NEW a \in {-1, 0, 1}, NEW b \in {-1, 0, 1}
      PROVE  /\ n * a \in Int /\ n * b \in Int
             /\ n * (a + 8 * b) = n * a + 8 * (n * b)
  <2>1. CASE a = 0
    BY <2>1
  <2>2. CASE a = 1
    BY <2>2
  <2>3. CASE a = -1
    BY <2>3
  <2> QED
    BY <2>1, <2>2, <2>3
<1> QED
  BY <1>1, <1>2

\* On a file or a rank, going n times e from f: what is passed on the way,
\* and that nothing else makes no detour.
Passes(f, e, n) ==
  \A i \in 0 .. n :
    /\ f + i * e \in 0 .. 7
    /\ Distance(f, f + i * e) = (IF e = 0 THEN 0 ELSE i)
    /\ Distance(f + i * e, f + n * e) = (IF e = 0 THEN 0 ELSE n - i)
    /\ e # 0 /\ i # 0 => f # f + i * e
    /\ e # 0 /\ i # n => f + i * e # f + n * e
NoDetour(f, e, n) ==
  \A g \in 0 .. 7 :
    Distance(f, g) + Distance(g, f + n * e) = (IF e = 0 THEN 0 ELSE n) =>
      /\ Distance(f, g) \in 0 .. n
      /\ g = f + Distance(f, g) * e
      /\ e = 0 => Distance(f, g) = 0

LEMMA OnTheWay ==
  ASSUME NEW f \in 0 .. 7, NEW e \in {-1, 0, 1}, NEW n \in 1 .. 7,
         f + n * e \in 0 .. 7
  PROVE  Passes(f, e, n) /\ NoDetour(f, e, n)
<1>1. CASE e = 0
  BY <1>1 DEF Distance, Passes, NoDetour
<1>2. CASE e = 1
  BY <1>2 DEF Distance, Passes, NoDetour
<1>3. CASE e = -1
  BY <1>3 DEF Distance, Passes, NoDetour
<1> QED
  BY <1>1, <1>2, <1>3

\* Two squares are steps of one direction apart, or no line joins them.
LEMMA LineIs ==
  ASSUME NEW s \in Squares, NEW t \in Squares
  PROVE  /\ s # t /\ FilesApart(s, t) = RanksApart(s, t) =>
              \E d \in Diagonals, n \in 1 .. 7 :
                Within(s, d, n) /\ t = Along(s, d, n)
         /\ s # t /\ (FilesApart(s, t) = 0 \/ RanksApart(s, t) = 0) =>
              \E d \in Straights, n \in 1 .. 7 :
                Within(s, d, n) /\ t = Along(s, d, n)
<1> DEFINE f == File(s) r == Rank(s) g == File(t) q == Rank(t)
<1>1. /\ f \in 0 .. 7 /\ r \in 0 .. 7 /\ g \in 0 .. 7 /\ q \in 0 .. 7
      /\ s = f + 8 * r /\ t = g + 8 * q
  BY SquareParts
<1> HIDE DEF f, r, g, q
<1>2. ASSUME NEW d \in Steps, NEW n \in 1 .. 7,
             g = f + n * d[1], q = r + n * d[2]
      PROVE  Within(s, d, n) /\ t = Along(s, d, n)
  <2>1. /\ n * d[1] \in Int /\ n * d[2] \in Int
        /\ n * (d[1] + 8 * d[2]) = n * d[1] + 8 * (n * d[2])
    BY Scaled
  <2>2. Within(s, d, n)
    BY <1>1, <1>2 DEF Within, OnBoard, f, r
  <2>3. s + n * (d[1] + 8 * d[2]) = g + 8 * q
    BY <1>1, <1>2, <2>1
  <2> QED
    BY <1>1, <2>2, <2>3 DEF Along
<1>3. FilesApart(s, t) = Distance(f, g) /\ RanksApart(s, t) = Distance(r, q)
  BY DEF FilesApart, RanksApart, f, r, g, q
<1>4. ASSUME s # t PROVE f # g \/ r # q
  BY <1>1, <1>4
<1>5. ASSUME s # t, FilesApart(s, t) = RanksApart(s, t)
      PROVE  \E d \in Diagonals, n \in 1 .. 7 :
               Within(s, d, n) /\ t = Along(s, d, n)
  <2> DEFINE n == Distance(f, g)
             d == <<IF f < g THEN 1 ELSE -1, IF r < q THEN 1 ELSE -1>>
  <2>1. n = Distance(r, q)
    BY <1>3, <1>5
  <2>2. n \in 1 .. 7
    BY <1>1, <1>4, <1>5, <2>1 DEF Distance
  <2>3. d \in Diagonals /\ d \in Steps
    BY DEF Diagonals, Steps
  <2>4. g = f + n * d[1]
    BY <1>1 DEF Distance
  <2>5. q = r + n * d[2]
    <3> HIDE DEF n
    <3> QED
      BY <1>1, <2>1 DEF Distance
  <2> HIDE DEF n, d
  <2> QED
    BY <1>2, <2>2, <2>3, <2>4, <2>5
<1>6. ASSUME s # t, FilesApart(s, t) = 0 \/ RanksApart(s, t) = 0
      PROVE  \E d \in Straights, n \in 1 .. 7 :
               Within(s, d, n) /\ t = Along(s, d, n)
  <2>1. CASE f = g
    <3> DEFINE n == Distance(r, q)
               d == <<0, IF r < q THEN 1 ELSE -1>>
    <3>1. n \in 1 .. 7
      BY <1>1, <1>4, <1>6, <2>1 DEF Distance
    <3>2. d \in Straights /\ d \in Steps
      BY DEF Straights, Steps
    <3>3. g = f + n * d[1] /\ q = r + n * d[2]
      BY <1>1, <2>1 DEF Distance
    <3> HIDE DEF n, d
    <3> QED
      BY <1>2, <3>1, <3>2, <3>3
  <2>2. CASE r = q
    <3> DEFINE n == Distance(f, g)
               d == <<IF f < g THEN 1 ELSE -1, 0>>
    <3>1. n \in 1 .. 7
      BY <1>1, <1>4, <1>6, <2>2 DEF Distance
    <3>2. d \in Straights /\ d \in Steps
      BY DEF Straights, Steps
    <3>3. g = f + n * d[1] /\ q = r + n * d[2]
      BY <1>1, <2>2 DEF Distance
    <3> HIDE DEF n, d
    <3> QED
      BY <1>2, <3>1, <3>2, <3>3
  <2> QED
    BY <1>1, <1>3, <1>6, <2>1, <2>2 DEF Distance
<1> QED
  BY <1>5, <1>6

\* How far apart two squares of a direction are.
LEMMA ApartIs ==
  ASSUME NEW s \in Squares, NEW d \in Steps, NEW n \in 1 .. 7, Within(s, d, n)
  PROVE  LET t == Along(s, d, n) IN
         /\ s # t
         /\ FilesApart(s, t) = (IF d[1] = 0 THEN 0 ELSE n)
         /\ RanksApart(s, t) = (IF d[2] = 0 THEN 0 ELSE n)
<1> DEFINE t == Along(s, d, n)
<1>1. File(t) = File(s) + n * d[1] /\ Rank(t) = Rank(s) + n * d[2]
  BY AlongIs
<1>2. File(s) \in 0 .. 7 /\ Rank(s) \in 0 .. 7
  BY SquareParts
<1>3. d[1] \in {-1, 0, 1} /\ d[2] \in {-1, 0, 1} /\ (d[1] # 0 \/ d[2] # 0)
  BY StepIs
<1> HIDE DEF t
<1>4. /\ FilesApart(s, t) = (IF d[1] = 0 THEN 0 ELSE n)
      /\ d[1] # 0 => File(s) # File(t)
  <2>1. n * d[1] = (IF d[1] = 0 THEN 0 ELSE IF d[1] = 1 THEN n ELSE -n)
    BY <1>3
  <2> QED
    BY <1>1, <1>2, <1>3, <2>1 DEF FilesApart, Distance
<1>5. /\ RanksApart(s, t) = (IF d[2] = 0 THEN 0 ELSE n)
      /\ d[2] # 0 => Rank(s) # Rank(t)
  <2>1. n * d[2] = (IF d[2] = 0 THEN 0 ELSE IF d[2] = 1 THEN n ELSE -n)
    BY <1>3
  <2> QED
    BY <1>1, <1>2, <1>3, <2>1 DEF RanksApart, Distance
<1> QED
  BY <1>3, <1>4, <1>5 DEF t

\* What lies between two squares of a direction are the steps on the way.
LEMMA InBetweenIs ==
  ASSUME NEW s \in Squares, NEW d \in Steps, NEW n \in 1 .. 7, Within(s, d, n)
  PROVE  InBetween[s][Along(s, d, n)] = {Along(s, d, i) : i \in 1 .. n - 1}
<1> DEFINE t == Along(s, d, n)
           f == File(s)
           r == Rank(s)
<1>1. /\ t \in Squares
      /\ File(t) = f + n * d[1] /\ Rank(t) = r + n * d[2]
  BY AlongIs
<1>2. f \in 0 .. 7 /\ r \in 0 .. 7 /\ s = f + 8 * r
  BY SquareParts
<1>3. d[1] \in {-1, 0, 1} /\ d[2] \in {-1, 0, 1} /\ (d[1] # 0 \/ d[2] # 0)
  BY StepIs
<1>4. /\ FilesApart(s, t) = (IF d[1] = 0 THEN 0 ELSE n)
      /\ RanksApart(s, t) = (IF d[2] = 0 THEN 0 ELSE n)
  BY ApartIs
<1>5. f + n * d[1] \in 0 .. 7 /\ r + n * d[2] \in 0 .. 7
  BY DEF Within, OnBoard
<1>6. InBetween[s][t] = {u \in Squares : InLine(s, t, u)}
  BY <1>1 DEF InBetween
<1>7. Passes(f, d[1], n) /\ NoDetour(f, d[1], n)
  <2> HIDE DEF f, r
  <2> QED
    BY <1>2, <1>3, <1>5, OnTheWay
<1>8. Passes(r, d[2], n) /\ NoDetour(r, d[2], n)
  <2> HIDE DEF f, r
  <2> QED
    BY <1>2, <1>3, <1>5, OnTheWay
<1>9. ASSUME NEW i \in 1 .. n - 1
      PROVE  Along(s, d, i) \in Squares /\ InLine(s, t, Along(s, d, i))
  <2> DEFINE u == Along(s, d, i)
  <2>1. i \in 1 .. 7 /\ i \in 0 .. n /\ i # 0 /\ i # n
    OBVIOUS
  <2>2. Within(s, d, i)
    BY <1>7, <1>8, <2>1 DEF Within, OnBoard, Passes
  <2>3. u \in Squares /\ File(u) = f + i * d[1] /\ Rank(u) = r + i * d[2]
    BY <2>1, <2>2, AlongIs
  <2> HIDE DEF u, t, f, r
  <2>4. /\ FilesApart(s, u) = (IF d[1] = 0 THEN 0 ELSE i)
        /\ FilesApart(u, t) = (IF d[1] = 0 THEN 0 ELSE n - i)
    BY <1>1, <1>7, <2>1, <2>3 DEF FilesApart, f, Passes
  <2>5. /\ RanksApart(s, u) = (IF d[2] = 0 THEN 0 ELSE i)
        /\ RanksApart(u, t) = (IF d[2] = 0 THEN 0 ELSE n - i)
    BY <1>1, <1>8, <2>1, <2>3 DEF RanksApart, r, Passes
  <2>6. u # s /\ u # t
    <3>1. CASE d[1] # 0
      BY <1>1, <1>7, <2>1, <2>3, <3>1 DEF f, Passes
    <3>2. CASE d[2] # 0
      BY <1>1, <1>8, <2>1, <2>3, <3>2 DEF r, Passes
    <3> QED
      BY <1>3, <3>1, <3>2
  <2>7. FilesApart(s, u) * RanksApart(s, t)
          = RanksApart(s, u) * FilesApart(s, t)
    BY <1>4, <2>1, <2>4, <2>5
  <2> QED
    BY <1>3, <1>4, <2>1, <2>3, <2>4, <2>5, <2>6, <2>7 DEF InLine, u
<1>10. ASSUME NEW u \in Squares, InLine(s, t, u)
       PROVE  \E i \in 1 .. n - 1 : u = Along(s, d, i)
  <2> DEFINE g == File(u)
             q == Rank(u)
  <2>1. g \in 0 .. 7 /\ q \in 0 .. 7 /\ u = g + 8 * q
    BY SquareParts
  <2> HIDE DEF g, q, t
  <2>2. /\ FilesApart(s, u) = Distance(f, g)
        /\ RanksApart(s, u) = Distance(r, q)
        /\ FilesApart(u, t) = Distance(g, f + n * d[1])
        /\ RanksApart(u, t) = Distance(q, r + n * d[2])
    BY <1>1 DEF FilesApart, RanksApart, f, r, g, q
  <2>3. /\ u # s /\ u # t
        /\ Distance(f, g) + Distance(g, f + n * d[1])
             = (IF d[1] = 0 THEN 0 ELSE n)
        /\ Distance(r, q) + Distance(q, r + n * d[2])
             = (IF d[2] = 0 THEN 0 ELSE n)
        /\ Distance(f, g) * (IF d[2] = 0 THEN 0 ELSE n)
             = Distance(r, q) * (IF d[1] = 0 THEN 0 ELSE n)
    BY <1>4, <1>10, <2>2 DEF InLine
  <2> HIDE DEF f, r
  <2>4. /\ Distance(f, g) \in 0 .. n /\ g = f + Distance(f, g) * d[1]
        /\ d[1] = 0 => Distance(f, g) = 0
    BY <1>7, <2>1, <2>3 DEF NoDetour
  <2>5. /\ Distance(r, q) \in 0 .. n /\ q = r + Distance(r, q) * d[2]
        /\ d[2] = 0 => Distance(r, q) = 0
    BY <1>8, <2>1, <2>3 DEF NoDetour
  <2>6. d[1] # 0 /\ d[2] # 0 => Distance(f, g) = Distance(r, q)
    <3>1. ASSUME NEW a \in 0 .. 7, NEW b \in 0 .. 7, a * n = b * n PROVE a = b
      BY <3>1
    <3> QED
      BY <2>3, <2>4, <2>5, <3>1
  <2>7. ASSUME NEW i \in 0 .. n, g = f + i * d[1], q = r + i * d[2]
        PROVE  i \in 1 .. n - 1 /\ u = Along(s, d, i)
    <3>1. /\ i * d[1] \in Int /\ i * d[2] \in Int
          /\ i * (d[1] + 8 * d[2]) = i * d[1] + 8 * (i * d[2])
      <4>1. i \in 0 .. 7
        OBVIOUS
      <4> QED
        BY <4>1, Scaled
    <3>3. u = Along(s, d, i)
      BY <1>2, <2>1, <2>7, <3>1 DEF Along
    <3>4. i # n
      BY <2>3, <3>3 DEF t
    <3>5. i # 0
      <4>1. 0 * d[1] = 0 /\ 0 * d[2] = 0
        BY <1>3
      <4> QED
        BY <1>2, <4>1, <2>1, <2>3, <2>7
    <3> QED
      BY <3>3, <3>4, <3>5
  <2>8. CASE d[1] # 0
    <3>1. q = r + Distance(f, g) * d[2]
      <4>1. CASE d[2] = 0
        BY <1>2, <2>4, <2>5, <4>1
      <4> QED
        BY <2>5, <2>6, <2>8, <4>1
    <3> QED
      BY <2>4, <2>7, <3>1
  <2>9. CASE d[1] = 0
    <3>1. g = f + Distance(r, q) * d[1]
      BY <1>2, <2>4, <2>5, <2>9
    <3> QED
      BY <2>5, <2>7, <3>1
  <2> QED
    BY <2>8, <2>9
<1>11. InBetween[s][t] = {Along(s, d, i) : i \in 1 .. n - 1}
  BY <1>6, <1>9, <1>10
<1> QED
  BY <1>11 DEF t

\* A slider on s sees t if a line joins them and nothing stands in between.
LEMMA SeenInLine ==
  ASSUME NEW occupied, NEW s \in Squares, NEW t \in Squares
  PROVE  LET open == \A u \in InBetween[s][t] : u \notin occupied IN
         /\ t \in SeenFrom(occupied, s, Diagonals) <=>
              s # t /\ FilesApart(s, t) = RanksApart(s, t) /\ open
         /\ t \in SeenFrom(occupied, s, Straights) <=>
              s # t /\ (FilesApart(s, t) = 0 \/ RanksApart(s, t) = 0) /\ open
         /\ SeenFrom(occupied, s, Steps)
              = SeenFrom(occupied, s, Diagonals)
                  \cup SeenFrom(occupied, s, Straights)
<1> DEFINE open == \A u \in InBetween[s][t] : u \notin occupied
<1>1. ASSUME NEW d \in Steps, NEW n \in 1 .. 7, Within(s, d, n),
             t = Along(s, d, n)
      PROVE  open <=> \A i \in 1 .. n - 1 : Along(s, d, i) \notin occupied
  BY <1>1, InBetweenIs
<1>2. Diagonals \subseteq Steps /\ Straights \subseteq Steps
  BY DEF Steps
<1> HIDE DEF open
<1>3. t \in SeenFrom(occupied, s, Diagonals) <=>
        \E d \in Diagonals, n \in 1 .. 7 :
          Within(s, d, n) /\ t = Along(s, d, n) /\ open
  BY <1>1, <1>2, SeenIs
<1>4. t \in SeenFrom(occupied, s, Straights) <=>
        \E d \in Straights, n \in 1 .. 7 :
          Within(s, d, n) /\ t = Along(s, d, n) /\ open
  BY <1>1, <1>2, SeenIs
<1>5. ASSUME NEW d \in Diagonals, NEW n \in 1 .. 7, Within(s, d, n),
             t = Along(s, d, n)
      PROVE  s # t /\ FilesApart(s, t) = RanksApart(s, t)
  BY <1>2, <1>5, ApartIs, StepIs
<1>6. ASSUME NEW d \in Straights, NEW n \in 1 .. 7, Within(s, d, n),
             t = Along(s, d, n)
      PROVE  s # t /\ (FilesApart(s, t) = 0 \/ RanksApart(s, t) = 0)
  BY <1>2, <1>6, ApartIs, StepIs
<1>7. SeenFrom(occupied, s, Steps)
        = SeenFrom(occupied, s, Diagonals) \cup SeenFrom(occupied, s, Straights)
  BY DEF SeenFrom, Steps
<1>8. t \in SeenFrom(occupied, s, Diagonals) <=>
        s # t /\ FilesApart(s, t) = RanksApart(s, t) /\ open
  BY <1>3, <1>5, LineIs
<1>9. t \in SeenFrom(occupied, s, Straights) <=>
        s # t /\ (FilesApart(s, t) = 0 \/ RanksApart(s, t) = 0) /\ open
  BY <1>4, <1>6, LineIs
<1> QED
  BY <1>7, <1>8, <1>9 DEF open

\* What lies between is the same from either end.
LEMMA InBetweenSymmetric ==
  ASSUME NEW s \in Squares, NEW t \in Squares
  PROVE  /\ FilesApart(s, t) = FilesApart(t, s)
         /\ RanksApart(s, t) = RanksApart(t, s)
         /\ InBetween[s][t] = InBetween[t][s]
<1>1. ASSUME NEW a \in Squares, NEW b \in Squares
      PROVE  /\ FilesApart(a, b) = FilesApart(b, a)
             /\ RanksApart(a, b) = RanksApart(b, a)
             /\ FilesApart(a, b) \in 0 .. 7 /\ RanksApart(a, b) \in 0 .. 7
  BY SquareParts DEF FilesApart, RanksApart, Distance
<1>2. ASSUME NEW a \in Squares, NEW b \in Squares, NEW u \in Squares,
             InLine(a, b, u)
      PROVE  InLine(b, a, u)
  <2> DEFINE x == FilesApart(a, u) y == FilesApart(u, b)
             z == RanksApart(a, u) w == RanksApart(u, b)
  <2>1. /\ x \in 0 .. 7 /\ y \in 0 .. 7 /\ z \in 0 .. 7 /\ w \in 0 .. 7
        /\ x = FilesApart(u, a) /\ y = FilesApart(b, u)
        /\ z = RanksApart(u, a) /\ w = RanksApart(b, u)
        /\ FilesApart(b, a) = x + y /\ RanksApart(b, a) = z + w
        /\ u \notin {b, a}
        /\ x * (z + w) = z * (x + y)
    BY <1>1, <1>2 DEF InLine
  <2> HIDE DEF x, y, z, w
  <2>2. y * (z + w) = w * (x + y)
    <3>1. \A i \in 0 .. 7 : \A j \in 0 .. 7 : \A k \in 0 .. 7 :
            i * (j + k) = i * j + i * k
      OBVIOUS
    <3>2. \A i \in 0 .. 7 : \A j \in 0 .. 7 : i * j = j * i /\ i * j \in Int
      OBVIOUS
    <3> QED
      BY <2>1, <3>1, <3>2
  <2> QED
    BY <2>1, <2>2 DEF InLine, x, y, z, w
<1>3. \A u \in Squares : InLine(s, t, u) <=> InLine(t, s, u)
  BY <1>2
<1> QED
  BY <1>1, <1>3 DEF InBetween

-----------------------------------------------------------------------------
(* The diagram of a position, and who attacks what in it.                  *)

\* The diagram shows what PieceAt reads from the bitboards.
LEMMA DiagramIs ==
  ASSUME NEW p, Coherent(p), NEW s \in Squares
  PROVE  /\ Diagram(p)[s] = PieceAt(p, s)
         /\ \A c \in Colors, k \in Kinds :
              Diagram(p)[s] = Piece(c, k) <=> s \in p.pieces[c][k]
         /\ Diagram(p)[s] = NoPiece <=> s \notin AllOccupied(p)
         /\ Diagram(p)[s] # NoPiece =>
              \E c \in Colors, k \in Kinds :
                s \in p.pieces[c][k] /\ Diagram(p)[s] = Piece(c, k)
         /\ \A c \in Colors : Diagram(p)[s].color = c <=> s \in p.occupied[c]
<1> DEFINE AnyMan == [color : Colors, kind : Kinds]
<1>1. Diagram(p)[s] = PieceAt(p, s)
  <2>1. CASE \E c \in Colors, k \in Kinds : s \in p.pieces[c][k]
    <3>1. PICK c \in Colors, k \in Kinds : s \in p.pieces[c][k]
      BY <2>1
    <3>2. PieceAt(p, s) = Piece(c, k)
      BY <3>1, PieceAtIs
    <3>3. Diagram(p)[s] = CHOOSE x \in AnyMan : s \in p.pieces[x.color][x.kind]
      BY <2>1 DEF Diagram
    <3>4. /\ Piece(c, k) \in AnyMan
          /\ Piece(c, k).color = c /\ Piece(c, k).kind = k
      BY DEF Piece
    <3>5. \A x \in AnyMan : s \in p.pieces[x.color][x.kind] => x = Piece(c, k)
      <4> TAKE x \in AnyMan
      <4> HAVE s \in p.pieces[x.color][x.kind]
      <4>1. x.color \in Colors /\ x.kind \in Kinds /\ x = Piece(x.color, x.kind)
        BY DEF Piece
      <4>2. PieceAt(p, s) = Piece(x.color, x.kind)
        BY <4>1, PieceAtIs
      <4> QED
        BY <3>2, <4>1, <4>2
    <3> QED
      BY <3>1, <3>2, <3>3, <3>4, <3>5
  <2>2. CASE ~ \E c \in Colors, k \in Kinds : s \in p.pieces[c][k]
    <3>1. Diagram(p)[s] = NoPiece
      BY <2>2 DEF Diagram
    <3>2. PieceAt(p, s) = NoPiece
      BY <2>2, PieceAtIs
    <3> QED
      BY <3>1, <3>2
  <2> QED
    BY <2>1, <2>2
<1>2. \A c \in Colors, k \in Kinds :
        PieceAt(p, s) = Piece(c, k) <=> s \in p.pieces[c][k]
  BY ManAt
<1>3. PieceAt(p, s) = NoPiece <=> s \notin AllOccupied(p)
  BY OccupiedIs, PieceAtIs
<1>4. PieceAt(p, s) # NoPiece =>
        \E c \in Colors, k \in Kinds :
          s \in p.pieces[c][k] /\ PieceAt(p, s) = Piece(c, k)
  BY PieceAtIs
<1>5. ASSUME NEW c \in Colors
      PROVE  PieceAt(p, s).color = c <=> s \in p.occupied[c]
  <2>1. CASE PieceAt(p, s) = NoPiece
    <3>1. c # "none"
      BY DEF Colors
    <3>2. s \notin p.occupied[c]
      BY <2>1, OccupiedIs, PieceAtIs
    <3> QED
      BY <2>1, <3>1, <3>2 DEF NoPiece
  <2>2. CASE PieceAt(p, s) # NoPiece
    <3>1. PICK e \in Colors, k \in Kinds :
            s \in p.pieces[e][k] /\ PieceAt(p, s) = Piece(e, k)
      BY <1>4, <2>2
    <3>2. PieceAt(p, s).color = e
      BY <3>1, PieceSame
    <3>3. s \in p.occupied[e]
      BY <3>1, OccupiedIs
    <3>4. s \in p.occupied[c] => c = e
      <4> HAVE s \in p.occupied[c]
      <4>1. PICK l \in Kinds : s \in p.pieces[c][l]
        BY OccupiedIs
      <4>2. PieceAt(p, s) = Piece(c, l)
        BY <4>1, PieceAtIs
      <4> QED
        BY <3>1, <4>2 DEF Piece
    <3> QED
      BY <3>2, <3>3, <3>4
  <2> QED
    BY <2>1, <2>2
<1> QED
  BY <1>1, <1>2, <1>3, <1>4, <1>5

\* A leap or a step leads as many files and ranks away as it says.
LEMMA TargetIs ==
  ASSUME NEW s \in Squares, NEW t \in Squares,
         NEW offsets \in SUBSET (Steps \cup Leaps)
  PROVE  t \in Targets(s, offsets) <=>
           <<File(t) - File(s), Rank(t) - Rank(s)>> \in offsets
<1>1. /\ File(s) \in 0 .. 7 /\ Rank(s) \in 0 .. 7 /\ s = File(s) + 8 * Rank(s)
      /\ File(t) \in 0 .. 7 /\ Rank(t) \in 0 .. 7 /\ t = File(t) + 8 * Rank(t)
  BY SquareParts
<1>2. ASSUME NEW d \in offsets, OnBoard(File(s) + d[1], Rank(s) + d[2]),
             t = s + d[1] + 8 * d[2]
      PROVE  d = <<File(t) - File(s), Rank(t) - Rank(s)>>
  <2>1. d[1] \in Int /\ d[2] \in Int /\ d = <<d[1], d[2]>>
    BY DEF Steps, Leaps, Diagonals, Straights
  <2>2. File(s) + d[1] \in 0 .. 7 /\ Rank(s) + d[2] \in 0 .. 7
    BY <1>2 DEF OnBoard
  <2>3. t = (File(s) + d[1]) + 8 * (Rank(s) + d[2])
    BY <1>1, <1>2, <2>1
  <2>4. File(t) = File(s) + d[1] /\ Rank(t) = Rank(s) + d[2]
    BY <2>2, <2>3, SquareFrom
  <2>5. d[1] = File(t) - File(s) /\ d[2] = Rank(t) - Rank(s)
    BY <1>1, <2>1, <2>4
  <2> QED
    BY <2>1, <2>5
<1>3. ASSUME <<File(t) - File(s), Rank(t) - Rank(s)>> \in offsets
      PROVE  \E d \in offsets : /\ OnBoard(File(s) + d[1], Rank(s) + d[2])
                                /\ t = s + d[1] + 8 * d[2]
  <2> DEFINE d == <<File(t) - File(s), Rank(t) - Rank(s)>>
  <2>1. d[1] = File(t) - File(s) /\ d[2] = Rank(t) - Rank(s)
    OBVIOUS
  <2>2. OnBoard(File(s) + d[1], Rank(s) + d[2]) /\ t = s + d[1] + 8 * d[2]
    <3> HIDE DEF d
    <3> QED
      BY <1>1, <2>1 DEF OnBoard
  <2> QED
    BY <1>3, <2>2
<1> QED
  BY <1>2, <1>3 DEF Targets

\* Leaps and steps, told from the files and ranks they cross.
LEMMA LeapIs ==
  ASSUME NEW s \in Squares, NEW t \in Squares
  PROVE  /\ t \in KnightAttacks[s] <=>
              {FilesApart(s, t), RanksApart(s, t)} = {1, 2}
         /\ t \in KingAttacks[s] <=>
              s # t /\ FilesApart(s, t) <= 1 /\ RanksApart(s, t) <= 1
         /\ \A c \in Colors : t \in PawnAttacks(c, s) <=>
              FilesApart(s, t) = 1 /\ Rank(t) = Rank(s) + Forward(c)
<1> DEFINE f == File(s) r == Rank(s) g == File(t) q == Rank(t)
<1>1. /\ f \in 0 .. 7 /\ r \in 0 .. 7 /\ g \in 0 .. 7 /\ q \in 0 .. 7
      /\ s = f + 8 * r /\ t = g + 8 * q
  BY SquareParts
<1>2. /\ t \in KnightAttacks[s] <=> <<g - f, q - r>> \in Leaps
      /\ t \in KingAttacks[s] <=> <<g - f, q - r>> \in Steps
      /\ \A c \in Colors : t \in PawnAttacks(c, s) <=>
           <<g - f, q - r>> \in {<<1, Forward(c)>>, <<-1, Forward(c)>>}
  <2>1. /\ KnightAttacks[s] = Targets(s, Leaps)
        /\ KingAttacks[s] = Targets(s, Steps)
    BY DEF KnightAttacks, KingAttacks
  <2>2. /\ t \in KnightAttacks[s] <=> <<g - f, q - r>> \in Leaps
        /\ t \in KingAttacks[s] <=> <<g - f, q - r>> \in Steps
    BY <2>1, TargetIs
  <2>3. ASSUME NEW c \in Colors
        PROVE  t \in PawnAttacks(c, s) <=>
                 <<g - f, q - r>> \in {<<1, Forward(c)>>, <<-1, Forward(c)>>}
    <3> DEFINE ahead == {<<1, Forward(c)>>, <<-1, Forward(c)>>}
    <3>1. ahead \in SUBSET (Steps \cup Leaps)
      BY DEF Forward, Steps, Diagonals
    <3>2. PawnAttacks(c, s) = Targets(s, ahead)
      BY DEF PawnAttacks
    <3> HIDE DEF ahead, f, r, g, q
    <3>3. t \in Targets(s, ahead) <=> <<g - f, q - r>> \in ahead
      BY <3>1, TargetIs DEF f, r, g, q
    <3> QED
      BY <3>2, <3>3 DEF ahead
  <2> QED
    BY <2>2, <2>3
<1>3. FilesApart(s, t) = Distance(f, g) /\ RanksApart(s, t) = Distance(r, q)
  BY DEF FilesApart, RanksApart
<1> HIDE DEF f, r, g, q
<1>4. \A a, b :
        /\ <<a, b>> \in Leaps <=> \/ a \in {1, -1} /\ b \in {2, -2}
                                  \/ a \in {2, -2} /\ b \in {1, -1}
        /\ <<a, b>> \in Steps <=>
             a \in {-1, 0, 1} /\ b \in {-1, 0, 1} /\ ~ (a = 0 /\ b = 0)
  BY DEF Leaps, Steps, Diagonals, Straights
<1>5. \A a, b : {a, b} = {1, 2} <=> (a = 1 /\ b = 2) \/ (a = 2 /\ b = 1)
  OBVIOUS
<1>6. /\ Distance(f, g) = 1 <=> g - f \in {1, -1}
      /\ Distance(f, g) = 2 <=> g - f \in {2, -2}
      /\ Distance(r, q) = 1 <=> q - r \in {1, -1}
      /\ Distance(r, q) = 2 <=> q - r \in {2, -2}
      /\ Distance(f, g) <= 1 <=> g - f \in {-1, 0, 1}
      /\ Distance(r, q) <= 1 <=> q - r \in {-1, 0, 1}
      /\ s = t <=> g - f = 0 /\ q - r = 0
  BY <1>1 DEF Distance
<1>7. t \in KnightAttacks[s] <=>
        {FilesApart(s, t), RanksApart(s, t)} = {1, 2}
  BY <1>2, <1>3, <1>4, <1>5, <1>6
<1>8. t \in KingAttacks[s] <=>
        s # t /\ FilesApart(s, t) <= 1 /\ RanksApart(s, t) <= 1
  BY <1>2, <1>3, <1>4, <1>6
<1>9. ASSUME NEW c \in Colors
      PROVE  t \in PawnAttacks(c, s) <=>
               FilesApart(s, t) = 1 /\ Rank(t) = Rank(s) + Forward(c)
  <2>1. Forward(c) \in Int
    BY DEF Forward
  <2>2. <<g - f, q - r>> \in {<<1, Forward(c)>>, <<-1, Forward(c)>>}
          <=> g - f \in {1, -1} /\ q - r = Forward(c)
    OBVIOUS
  <2>3. q - r = Forward(c) <=> q = r + Forward(c)
    BY <1>1, <2>1
  <2> QED
    BY <1>2, <1>3, <1>6, <2>2, <2>3 DEF q, r
<1> QED
  BY <1>7, <1>8, <1>9

\* The squares a man of colour c and kind k on s attacks.
Reach(p, c, k, s) ==
  CASE k = "pawn" -> PawnAttacks(c, s)
    [] k = "knight" -> KnightAttacks[s]
    [] k = "bishop" -> SeenFrom(AllOccupied(p), s, Diagonals)
    [] k = "rook" -> SeenFrom(AllOccupied(p), s, Straights)
    [] k = "queen" -> SeenFrom(AllOccupied(p), s, Steps)
    [] k = "king" -> KingAttacks[s]

LEMMA ReachOf ==
  ASSUME NEW p, NEW c, NEW s
  PROVE  /\ Reach(p, c, "pawn", s) = PawnAttacks(c, s)
         /\ Reach(p, c, "knight", s) = KnightAttacks[s]
         /\ Reach(p, c, "bishop", s) = SeenFrom(AllOccupied(p), s, Diagonals)
         /\ Reach(p, c, "rook", s) = SeenFrom(AllOccupied(p), s, Straights)
         /\ Reach(p, c, "queen", s) = SeenFrom(AllOccupied(p), s, Steps)
         /\ Reach(p, c, "king", s) = KingAttacks[s]
BY DEF Reach

LEMMA InBetweenOnBoard ==
  ASSUME NEW s \in Squares, NEW t \in Squares
  PROVE  InBetween[s][t] \subseteq Squares
BY DEF InBetween

\* Nothing stands between two squares.
Open(d, s, t) == \A u \in InBetween[s][t] : d[u] = NoPiece

LEMMA OpenIs ==
  ASSUME NEW p, Coherent(p), NEW s \in Squares, NEW t \in Squares
  PROVE  Open(Diagram(p), s, t) <=>
           \A u \in InBetween[s][t] : u \notin AllOccupied(p)
<1>1. \A u \in InBetween[s][t] : u \in Squares
  BY InBetweenOnBoard
<1>2. \A u \in Squares : Diagram(p)[u] = NoPiece <=> u \notin AllOccupied(p)
  BY DiagramIs
<1> QED
  BY <1>1, <1>2 DEF Open

\* The same, read from the diagram.
LEMMA ReachIs ==
  ASSUME NEW p, Coherent(p), NEW c \in Colors, NEW s \in Squares,
         NEW t \in Squares
  PROVE  LET files == FilesApart(s, t)
             ranks == RanksApart(s, t)
             open == Open(Diagram(p), s, t)
         IN /\ t \in Reach(p, c, "pawn", s) <=>
                 files = 1 /\ Rank(t) = Rank(s) + Forward(c)
            /\ t \in Reach(p, c, "knight", s) <=> {files, ranks} = {1, 2}
            /\ t \in Reach(p, c, "king", s) <=>
                 s # t /\ files <= 1 /\ ranks <= 1
            /\ t \in Reach(p, c, "bishop", s) <=>
                 s # t /\ files = ranks /\ open
            /\ t \in Reach(p, c, "rook", s) <=>
                 s # t /\ (files = 0 \/ ranks = 0) /\ open
            /\ t \in Reach(p, c, "queen", s) <=>
                 s # t /\ (files = ranks \/ files = 0 \/ ranks = 0) /\ open
<1> DEFINE files == FilesApart(s, t)
           ranks == RanksApart(s, t)
           open == Open(Diagram(p), s, t)
           occupied == AllOccupied(p)
<1>1. /\ t \in SeenFrom(occupied, s, Diagonals) <=>
           s # t /\ files = ranks /\ open
      /\ t \in SeenFrom(occupied, s, Straights) <=>
           s # t /\ (files = 0 \/ ranks = 0) /\ open
      /\ t \in SeenFrom(occupied, s, Steps) <=>
           \/ t \in SeenFrom(occupied, s, Diagonals)
           \/ t \in SeenFrom(occupied, s, Straights)
  <2>1. open <=> \A u \in InBetween[s][t] : u \notin occupied
    BY OpenIs
  <2> HIDE DEF open, files, ranks, occupied
  <2> QED
    BY <2>1, SeenInLine DEF files, ranks
<1>2. /\ t \in KnightAttacks[s] <=> {files, ranks} = {1, 2}
      /\ t \in KingAttacks[s] <=> s # t /\ files <= 1 /\ ranks <= 1
      /\ t \in PawnAttacks(c, s) <=>
           files = 1 /\ Rank(t) = Rank(s) + Forward(c)
  BY LeapIs
<1> HIDE DEF open, files, ranks, occupied
<1>3. /\ t \in Reach(p, c, "pawn", s) <=>
                 files = 1 /\ Rank(t) = Rank(s) + Forward(c)
      /\ t \in Reach(p, c, "knight", s) <=> {files, ranks} = {1, 2}
      /\ t \in Reach(p, c, "king", s) <=> s # t /\ files <= 1 /\ ranks <= 1
  BY <1>2, ReachOf
<1>4. /\ t \in Reach(p, c, "bishop", s) <=> s # t /\ files = ranks /\ open
      /\ t \in Reach(p, c, "rook", s) <=>
           s # t /\ (files = 0 \/ ranks = 0) /\ open
      /\ t \in Reach(p, c, "queen", s) <=>
           s # t /\ (files = ranks \/ files = 0 \/ ranks = 0) /\ open
  BY <1>1, ReachOf DEF occupied
<1> QED
  BY <1>3, <1>4 DEF open, files, ranks

\* Attacks says what the bitboards say.
LEMMA AttackIs ==
  ASSUME NEW p, Coherent(p), NEW c \in Colors, NEW k \in Kinds,
         NEW s \in p.pieces[c][k], NEW t \in Squares
  PROVE  Attacks(Diagram(p), s, t) <=> t \in Reach(p, c, k, s)
<1> DEFINE d == Diagram(p)
           files == FilesApart(s, t)
           ranks == RanksApart(s, t)
           open == Open(d, s, t)
<1>1. s \in Squares
  BY PositionTyped DEF Coherent
<1>2. d[s].color = c /\ d[s].kind = k
  <2>1. d[s] = Piece(c, k)
    BY <1>1, DiagramIs
  <2> QED
    BY <2>1, PieceSame
<1>3. files \in 0 .. 7 /\ ranks \in 0 .. 7
  BY <1>1, SquareParts DEF FilesApart, RanksApart, Distance
<1>4. ~ ({files, ranks} = {1, 2} /\ s = t)
  BY <1>1, SquareParts DEF FilesApart, RanksApart, Distance
<1>5. ~ (files = 1 /\ s = t)
  BY <1>1, SquareParts DEF FilesApart, Distance
<1>6. /\ t \in Reach(p, c, "pawn", s) <=>
           files = 1 /\ Rank(t) = Rank(s) + Forward(c)
      /\ t \in Reach(p, c, "knight", s) <=> {files, ranks} = {1, 2}
      /\ t \in Reach(p, c, "king", s) <=> s # t /\ files <= 1 /\ ranks <= 1
      /\ t \in Reach(p, c, "bishop", s) <=> s # t /\ files = ranks /\ open
      /\ t \in Reach(p, c, "rook", s) <=>
           s # t /\ (files = 0 \/ ranks = 0) /\ open
      /\ t \in Reach(p, c, "queen", s) <=>
           s # t /\ (files = ranks \/ files = 0 \/ ranks = 0) /\ open
  BY <1>1, ReachIs
<1>7. Attacks(d, s, t) <=>
        /\ s # t
        /\ CASE k = "knight" -> {files, ranks} = {1, 2}
             [] k = "king" -> files <= 1 /\ ranks <= 1
             [] k = "rook" -> (files = 0 \/ ranks = 0) /\ open
             [] k = "bishop" -> files = ranks /\ open
             [] k = "queen" -> \/ (files = 0 \/ ranks = 0) /\ open
                               \/ files = ranks /\ open
             [] k = "pawn" -> files = 1 /\ Rank(t) = Rank(s) + Forward(c)
             [] OTHER -> FALSE
  <2> HIDE DEF d
  <2> QED
    BY <1>2 DEF Attacks, Open
<1> HIDE DEF d, files, ranks, open
<1>8. CASE k = "knight"
  BY <1>4, <1>6, <1>7, <1>8 DEF d
<1>9. CASE k = "king"
  BY <1>6, <1>7, <1>9 DEF d
<1>10. CASE k = "rook"
  BY <1>6, <1>7, <1>10 DEF d
<1>11. CASE k = "bishop"
  BY <1>6, <1>7, <1>11 DEF d
<1>12. CASE k = "queen"
  BY <1>6, <1>7, <1>12 DEF d
<1>13. CASE k = "pawn"
  BY <1>5, <1>6, <1>7, <1>13 DEF d
<1> QED
  BY <1>8, <1>9, <1>10, <1>11, <1>12, <1>13 DEF Kinds

\* From the square one sees the men that attack it.
LEMMA ReachBack ==
  ASSUME NEW p, Coherent(p), NEW c \in Colors, NEW s \in Squares,
         NEW t \in Squares
  PROVE  /\ t \in Reach(p, c, "pawn", s) <=>
              s \in PawnAttacks(Opposite(c), t)
         /\ \A k \in Kinds \ {"pawn"} :
              t \in Reach(p, c, k, s) <=> s \in Reach(p, c, k, t)
<1> DEFINE files == FilesApart(s, t)
           ranks == RanksApart(s, t)
           open == Open(Diagram(p), s, t)
<1>1. /\ FilesApart(t, s) = files /\ RanksApart(t, s) = ranks
      /\ Open(Diagram(p), t, s) <=> open
  BY InBetweenSymmetric DEF Open
<1>2. /\ t \in Reach(p, c, "pawn", s) <=>
           files = 1 /\ Rank(t) = Rank(s) + Forward(c)
      /\ t \in Reach(p, c, "knight", s) <=> {files, ranks} = {1, 2}
      /\ t \in Reach(p, c, "king", s) <=> s # t /\ files <= 1 /\ ranks <= 1
      /\ t \in Reach(p, c, "bishop", s) <=> s # t /\ files = ranks /\ open
      /\ t \in Reach(p, c, "rook", s) <=>
           s # t /\ (files = 0 \/ ranks = 0) /\ open
      /\ t \in Reach(p, c, "queen", s) <=>
           s # t /\ (files = ranks \/ files = 0 \/ ranks = 0) /\ open
  BY ReachIs
<1>3. /\ s \in Reach(p, c, "knight", t) <=> {files, ranks} = {1, 2}
      /\ s \in Reach(p, c, "king", t) <=> t # s /\ files <= 1 /\ ranks <= 1
      /\ s \in Reach(p, c, "bishop", t) <=> t # s /\ files = ranks /\ open
      /\ s \in Reach(p, c, "rook", t) <=>
           t # s /\ (files = 0 \/ ranks = 0) /\ open
      /\ s \in Reach(p, c, "queen", t) <=>
           t # s /\ (files = ranks \/ files = 0 \/ ranks = 0) /\ open
  <2> HIDE DEF files, ranks, open
  <2> QED
    BY <1>1, ReachIs
<1> HIDE DEF files, ranks, open
<1>4. s \in PawnAttacks(Opposite(c), t) <=>
        files = 1 /\ Rank(s) = Rank(t) + Forward(Opposite(c))
  BY <1>1, OneOfTwo, LeapIs
<1>5. Rank(s) = Rank(t) + Forward(Opposite(c))
        <=> Rank(t) = Rank(s) + Forward(c)
  BY SquareParts, OneOfTwo
<1>6. Kinds \ {"pawn"} = {"knight", "bishop", "rook", "queen", "king"}
  BY DEF Kinds
<1> QED
  BY <1>2, <1>3, <1>4, <1>5, <1>6

\* is_square_attacked finds an attacker exactly if there is one.
LEMMA AttackedIs ==
  ASSUME NEW p, Coherent(p), NEW t \in Squares, NEW by \in Colors
  PROVE  IsSquareAttacked(p, t, by) <=> AttackedBy(Diagram(p), by, t)
<1> DEFINE d == Diagram(p)
           its == p.pieces[by]
<1>1. \A k \in Kinds : its[k] \subseteq Squares
  BY PositionTyped DEF Coherent
<1>2. AttackedBy(d, by, t) <=>
        \E k \in Kinds : \E s \in its[k] : t \in Reach(p, by, k, s)
  <2>1. ASSUME NEW k \in Kinds, NEW s \in its[k], t \in Reach(p, by, k, s)
        PROVE  AttackedBy(d, by, t)
    <3>1. s \in Squares /\ d[s] = Piece(by, k)
      BY <1>1, DiagramIs
    <3>2. Attacks(d, s, t)
      BY <2>1, AttackIs
    <3> QED
      BY <3>1, <3>2, PieceSame DEF AttackedBy, Men
  <2>2. ASSUME AttackedBy(d, by, t)
        PROVE  \E k \in Kinds : \E s \in its[k] : t \in Reach(p, by, k, s)
    <3>1. PICK s \in Squares : d[s].color = by /\ Attacks(d, s, t)
      BY <2>2 DEF AttackedBy, Men
    <3>2. s \in p.occupied[by]
      BY <3>1, DiagramIs
    <3>3. PICK k \in Kinds : s \in its[k]
      BY <3>2, OccupiedIs
    <3> QED
      BY <3>1, <3>3, AttackIs
  <2> QED
    BY <2>1, <2>2
<1>3. \A k \in Kinds \ {"pawn"} : \A s \in its[k] :
        t \in Reach(p, by, k, s) <=> s \in Reach(p, by, k, t)
  BY <1>1, ReachBack
<1>4. \A s \in its["pawn"] :
        t \in Reach(p, by, "pawn", s) <=> s \in PawnAttacks(Opposite(by), t)
  <2>1. "pawn" \in Kinds
    BY DEF Kinds
  <2> QED
    BY <1>1, <2>1, ReachBack
<1>5. \A s : s \in SeenFrom(AllOccupied(p), t, Steps) <=>
               \/ s \in SeenFrom(AllOccupied(p), t, Diagonals)
               \/ s \in SeenFrom(AllOccupied(p), t, Straights)
  BY SeenInLine
<1> DEFINE diagonal == SeenFrom(AllOccupied(p), t, Diagonals)
           straight == SeenFrom(AllOccupied(p), t, Straights)
<1>6. IsSquareAttacked(p, t, by) <=>
        \/ \E s \in its["pawn"] : s \in PawnAttacks(Opposite(by), t)
        \/ \E s \in its["knight"] : s \in KnightAttacks[t]
        \/ \E s \in its["king"] : s \in KingAttacks[t]
        \/ \E s \in its["bishop"] \cup its["queen"] : s \in diagonal
        \/ \E s \in its["rook"] \cup its["queen"] : s \in straight
  BY DEF IsSquareAttacked
<1>7. /\ Reach(p, by, "knight", t) = KnightAttacks[t]
      /\ Reach(p, by, "king", t) = KingAttacks[t]
      /\ Reach(p, by, "bishop", t) = diagonal
      /\ Reach(p, by, "rook", t) = straight
      /\ \A s : s \in Reach(p, by, "queen", t)
                  <=> s \in diagonal \/ s \in straight
  BY <1>5, ReachOf
<1> HIDE DEF d, its, diagonal, straight
<1>8. (\E k \in Kinds : \E s \in its[k] : t \in Reach(p, by, k, s)) <=>
        \/ \E s \in its["pawn"] : t \in Reach(p, by, "pawn", s)
        \/ \E s \in its["knight"] : t \in Reach(p, by, "knight", s)
        \/ \E s \in its["bishop"] : t \in Reach(p, by, "bishop", s)
        \/ \E s \in its["rook"] : t \in Reach(p, by, "rook", s)
        \/ \E s \in its["queen"] : t \in Reach(p, by, "queen", s)
        \/ \E s \in its["king"] : t \in Reach(p, by, "king", s)
  BY DEF Kinds
<1>9. Kinds \ {"pawn"} = {"knight", "bishop", "rook", "queen", "king"}
  BY DEF Kinds
<1>10. /\ \A s \in its["knight"] :
            t \in Reach(p, by, "knight", s) <=> s \in KnightAttacks[t]
       /\ \A s \in its["king"] :
            t \in Reach(p, by, "king", s) <=> s \in KingAttacks[t]
       /\ \A s \in its["bishop"] :
            t \in Reach(p, by, "bishop", s) <=> s \in diagonal
       /\ \A s \in its["rook"] :
            t \in Reach(p, by, "rook", s) <=> s \in straight
       /\ \A s \in its["queen"] :
            t \in Reach(p, by, "queen", s) <=> s \in diagonal \/ s \in straight
  BY <1>3, <1>7, <1>9
<1> QED
  BY <1>2, <1>4, <1>6, <1>8, <1>10 DEF d

\* A king is in check exactly if it is attacked.
LEMMA InCheckIs ==
  ASSUME NEW p, Coherent(p), NEW c \in Colors,
         Cardinality(p.pieces[c]["king"]) = 1
  PROVE  InCheck(p, c) <=> KingAttacked(Diagram(p), c)
<1> DEFINE d == Diagram(p)
           k == KingSquare(p, c)
<1>1. p.pieces[c]["king"] = {k} /\ k \in Squares /\ k # NoSquare
  BY KingIs DEF Coherent, Squares, NoSquare
<1>2. "king" \in Kinds /\ Opposite(c) \in Colors
  BY OneOfTwo DEF Kinds
<1>3. ASSUME NEW t \in Squares
      PROVE  d[t].color = c /\ d[t].kind = "king" <=> t = k
  <2>1. d[t] = Piece(c, "king") <=> t = k
    BY <1>1, <1>2, DiagramIs
  <2>2. d[t].color = c /\ d[t].kind = "king" => d[t] = Piece(c, "king")
    <3>1. d[t] = NoPiece \/ \E e \in Colors, l \in Kinds : d[t] = Piece(e, l)
      BY DiagramIs
    <3>2. CASE d[t] = NoPiece
      BY <3>2 DEF NoPiece, Colors
    <3>3. CASE \E e \in Colors, l \in Kinds : d[t] = Piece(e, l)
      <4>1. PICK e \in Colors, l \in Kinds : d[t] = Piece(e, l)
        BY <3>3
      <4>2. d[t].color = e /\ d[t].kind = l
        BY <4>1, PieceSame
      <4> QED
        BY <4>1, <4>2
    <3> QED
      BY <3>1, <3>2, <3>3
  <2> QED
    BY <2>1, <2>2, PieceSame
<1>4. IsSquareAttacked(p, k, Opposite(c)) <=> AttackedBy(d, Opposite(c), k)
  BY <1>1, <1>2, AttackedIs
<1> HIDE DEF d, k
<1> QED
  BY <1>1, <1>3, <1>4 DEF InCheck, KingAttacked, Men, d, k

-----------------------------------------------------------------------------
(* The diagram after a move.                                               *)

\* A man is there in two positions alike.
LEMMA SameMan ==
  ASSUME NEW p, Coherent(p), NEW q, Coherent(q), NEW u \in Squares,
         \A c \in Colors, k \in Kinds :
           u \in q.pieces[c][k] <=> u \in p.pieces[c][k]
  PROVE  Diagram(q)[u] = Diagram(p)[u]
<1>1. CASE Diagram(p)[u] = NoPiece
  <2>1. \A c \in Colors, k \in Kinds : u \notin q.pieces[c][k]
    BY <1>1, DiagramIs, OccupiedIs
  <2> QED
    BY <1>1, <2>1, DiagramIs, OccupiedIs
<1>2. CASE Diagram(p)[u] # NoPiece
  <2>1. PICK c \in Colors, k \in Kinds :
          u \in p.pieces[c][k] /\ Diagram(p)[u] = Piece(c, k)
    BY <1>2, DiagramIs
  <2> QED
    BY <2>1, DiagramIs
<1> QED
  BY <1>1, <1>2

\* What the kind of a move says of the squares it joins.
Shaped(p, m) ==
  LET d == Diagram(p) IN
  /\ m.kind = "enPassant" <=>
       /\ d[m.from].kind = "pawn" /\ d[m.to] = NoPiece
       /\ File(m.to) # File(m.from)
  /\ m.kind = "enPassant" => Rank(m.to) = Rank(m.from) + Forward(p.side)
  /\ IsCastle(m) <=> d[m.from].kind = "king" /\ FilesApart(m.from, m.to) = 2
  /\ IsPromotion(m) <=> m.promotion # NoPromotion

\* Where the pawn that en passant takes stands.
LEMMA PassedIs ==
  ASSUME NEW s \in Squares, NEW t \in Squares, NEW c \in Colors,
         Rank(t) = Rank(s) + Forward(c), NEW u \in Squares
  PROVE  File(u) = File(t) /\ Rank(u) = Rank(s) <=> u = t - 8 * Forward(c)
<1>1. /\ File(s) \in 0 .. 7 /\ Rank(s) \in 0 .. 7
      /\ File(t) \in 0 .. 7 /\ Rank(t) \in 0 .. 7 /\ t = File(t) + 8 * Rank(t)
      /\ File(u) \in 0 .. 7 /\ Rank(u) \in 0 .. 7 /\ u = File(u) + 8 * Rank(u)
  BY SquareParts
<1>2. Forward(c) \in {1, -1}
  BY DEF Forward
<1>3. t - 8 * Forward(c) = File(t) + 8 * Rank(s)
  BY <1>1, <1>2
<1>4. /\ File(File(t) + 8 * Rank(s)) = File(t)
      /\ Rank(File(t) + 8 * Rank(s)) = Rank(s)
  BY <1>1, SquareFrom
<1> QED
  BY <1>1, <1>3, <1>4

\* Make does to the bitboards what the move does to the diagram.
LEMMA PlayedIs ==
  ASSUME NEW p, Coherent(p), NEW m, Possible(p, m), Shaped(p, m)
  PROVE  Diagram(Make(p, m)) = Played(Diagram(p), m.from, m.to, m.promotion)
<1> DEFINE d == Diagram(p)
           q == Make(p, m)
           c == p.side
           s == m.from
           t == m.to
           castled == IsCastle(m)
           home == RookHome(c, WingOf(m))
           rookTo == RookTo(c, WingOf(m))
           there == CaptureSquare(m, c)
           passed == {u \in Squares : /\ d[s].kind = "pawn" /\ d[t] = NoPiece
                                      /\ File(u) = File(t) /\ File(u) # File(s)
                                      /\ Rank(u) = Rank(s)}
           wing == {w \in Wings : /\ d[s].kind = "king" /\ FilesApart(s, t) = 2
                                  /\ t = KingTo(c, w)}
           new == NewKind(p, m)
<1>1. PICK k \in Kinds : ManMoves(p, m, k)
  BY DEF Possible
<1>2. /\ c \in Colors /\ s \in Squares /\ t \in Squares /\ Coherent(q)
      /\ s \in p.pieces[c][k] /\ m.promotion \in Promotions \cup {NoPromotion}
  BY <1>1, PositionTyped, AfterCoherent DEF Coherent, Possible, ManMoves, Moves
<1>3. PieceAt(p, s) = Piece(c, k) /\ d[s] = Piece(c, k)
      /\ d[s].color = c /\ d[s].kind = k
  BY <1>1, <1>2, ManMoved, DiagramIs, PieceSame
<1>4. /\ new = (IF IsPromotion(m) THEN m.promotion ELSE k) /\ new \in Kinds
      /\ Piece(c, new) = (IF m.promotion = NoPromotion THEN d[s]
                          ELSE Piece(c, m.promotion))
  <2>1. new = (IF IsPromotion(m) THEN m.promotion ELSE k)
    BY <1>1, ManMoved
  <2>2. IsPromotion(m) <=> m.promotion # NoPromotion
    BY DEF Shaped
  <2>3. Promotions \subseteq Kinds
    BY DEF Promotions, Kinds
  <2> HIDE DEF new, d
  <2> QED
    BY <1>2, <1>3, <2>1, <2>2, <2>3
<1>5. \A u \in Squares :
        u \in passed <=> m.kind = "enPassant" /\ u = there
  <2>1. CASE m.kind = "enPassant"
    <3>1. /\ d[s].kind = "pawn" /\ d[t] = NoPiece /\ File(t) # File(s)
          /\ Rank(t) = Rank(s) + Forward(c) /\ there = t - 8 * Forward(c)
      BY <2>1 DEF Shaped, CaptureSquare
    <3> HIDE DEF d, s, t, c, there
    <3> QED
      BY <1>2, <2>1, <3>1, PassedIs
  <2>2. CASE m.kind # "enPassant"
    <3>1. ~ (d[s].kind = "pawn" /\ d[t] = NoPiece /\ File(t) # File(s))
      BY <2>2 DEF Shaped
    <3> HIDE DEF d, s, t, c, there
    <3> QED
      BY <2>2, <3>1
  <2> QED
    BY <2>1, <2>2
<1>6. \A w : w \in wing <=> castled /\ w = WingOf(m)
  <2>1. castled <=> d[s].kind = "king" /\ FilesApart(s, t) = 2
    BY DEF Shaped
  <2>2. castled => t = KingTo(c, WingOf(m))
    BY DEF Possible, CastleStands
  <2>3. WingOf(m) \in Wings
    BY DEF WingOf, Wings
  <2>4. \A w \in Wings, v \in Wings : KingTo(c, w) = KingTo(c, v) => w = v
    BY <1>2 DEF KingTo, Wings, Home, Colors
  <2> HIDE DEF d, s, t, c, castled
  <2> QED
    BY <2>1, <2>2, <2>3, <2>4
<1>7. castled => /\ m.kind # "enPassant" /\ ~ IsPromotion(m) /\ k = "king"
                 /\ home \in Squares /\ rookTo \in Squares
                 /\ rookTo # t /\ rookTo # s /\ rookTo # home
  <2> HAVE castled
  <2>1. m.kind # "enPassant" /\ ~ IsPromotion(m) /\ k = "king"
    BY <1>1 DEF IsCastle, IsPromotion, ManMoves
  <2>2. s = KingHome(c) /\ t = KingTo(c, WingOf(m))
    BY DEF Possible, CastleStands
  <2>3. WingOf(m) \in Wings
    BY DEF WingOf, Wings
  <2>4. \A w \in Wings : /\ RookTo(c, w) # KingHome(c)
                         /\ RookTo(c, w) # RookHome(c, w)
    BY <1>2 DEF RookTo, KingHome, RookHome, Home, Wings, Colors
  <2> QED
    BY <1>2, <2>1, <2>2, <2>3, <2>4, CastleSquares
<1>8. /\ Captured(p, m) # NoPiece => m.kind = "enPassant" \/ there = t
      /\ m.kind = "enPassant" => Captured(p, m) # NoPiece
  <2>1. m.kind # "enPassant" => there = t
    BY DEF CaptureSquare
  <2>2. \A e, l : Piece(e, l) = NoPiece => e \notin Colors
    BY DEF Piece, NoPiece, Colors
  <2>3. Opposite(c) \in Colors
    BY <1>2, OneOfTwo
  <2> QED
    BY <2>1, <2>2, <2>3, CapturedIs
<1>9. ASSUME NEW u \in Squares
      PROVE  /\ u \in Vacated(p, m) <=>
                  \/ u = s
                  \/ Captured(p, m) # NoPiece /\ u = there
                  \/ castled /\ u = home
             /\ \A e \in Colors, l \in Kinds :
                  u \in Arrived(p, m, e, l) <=>
                    /\ e = c
                    /\ \/ u = t /\ l = new
                       \/ castled /\ u = rookTo /\ l = "rook"
             /\ \A e \in Colors, l \in Kinds :
                  u \in q.pieces[e][l] <=>
                    \/ u \in p.pieces[e][l] /\ u \notin Vacated(p, m)
                    \/ u \in Arrived(p, m, e, l)
  BY StandsAfter DEF Vacated, Arrived
<1> DEFINE after(u) ==
      IF u = t THEN Piece(c, new)
      ELSE IF u = s \/ u \in passed \cup {RookHome(c, w) : w \in wing}
      THEN NoPiece
      ELSE IF u \in {RookTo(c, w) : w \in wing} THEN Piece(c, "rook")
      ELSE d[u]
<1>10. Played(d, s, t, m.promotion) = [u \in Squares |-> after(u)]
  BY <1>3, <1>4 DEF Played
<1>11. \A u : /\ u \in {RookHome(c, w) : w \in wing} <=> castled /\ u = home
              /\ u \in {RookTo(c, w) : w \in wing} <=> castled /\ u = rookTo
  BY <1>6
<1> HIDE DEF d, q, c, s, t, castled, home, rookTo, there, passed, wing, new
<1>12. ASSUME NEW u \in Squares PROVE Diagram(q)[u] = after(u)
  <2>1. CASE u = t
    <3>1. u \in q.pieces[c][new]
      BY <1>2, <1>4, <1>9, <2>1
    <3> QED
      BY <1>2, <1>4, <2>1, <3>1, DiagramIs
  <2>2. CASE u # t /\ castled /\ u = rookTo
    <3>1. "rook" \in Kinds
      BY DEF Kinds
    <3>2. u \in q.pieces[c]["rook"]
      BY <1>2, <1>9, <2>2, <3>1
    <3>3. Diagram(q)[u] = Piece(c, "rook")
      BY <1>2, <3>1, <3>2, DiagramIs
    <3> QED
      BY <1>5, <1>7, <1>11, <2>2, <3>3
  <2>3. CASE u # t /\ ~ (castled /\ u = rookTo)
    <3>1. \A e \in Colors, l \in Kinds :
            u \in q.pieces[e][l] <=>
              u \in p.pieces[e][l] /\ u \notin Vacated(p, m)
      BY <1>9, <2>3
    <3>2. CASE u \in Vacated(p, m)
      <4>1. Diagram(q)[u] = NoPiece
        BY <1>2, <3>1, <3>2, DiagramIs
      <4>2. u = s \/ u \in passed \/ (castled /\ u = home)
        BY <1>5, <1>8, <1>9, <2>3, <3>2
      <4> QED
        BY <1>11, <2>3, <4>1, <4>2
    <3>3. CASE u \notin Vacated(p, m)
      <4>1. Diagram(q)[u] = d[u]
        BY <1>2, <3>1, <3>3, SameMan DEF d
      <4>2. ~ (u = s \/ u \in passed \/ (castled /\ u = home))
        BY <1>5, <1>8, <1>9, <3>3
      <4> QED
        BY <1>11, <2>3, <4>1, <4>2
    <3> QED
      BY <3>2, <3>3
  <2> QED
    BY <2>1, <2>2, <2>3
<1>13. Diagram(q) = [u \in Squares |-> Diagram(q)[u]]
  BY DEF Diagram
<1> HIDE DEF after
<1>14. [u \in Squares |-> Diagram(q)[u]] = [u \in Squares |-> after(u)]
  BY <1>12
<1> QED
  BY <1>10, <1>13, <1>14 DEF d, q, s, t

\* What a pawn becomes neither blocks nor attacks its own king.
LEMMA PromotedSame ==
  ASSUME NEW p, Coherent(p), NEW s \in p.pieces[p.side]["pawn"],
         NEW t \in Squares, NEW k \in Promotions
  PROVE  KingAttacked(Played(Diagram(p), s, t, k), p.side)
           <=> KingAttacked(Played(Diagram(p), s, t, NoPromotion), p.side)
<1> DEFINE d == Diagram(p)
           c == p.side
           e == Opposite(c)
           a == Played(d, s, t, k)
           b == Played(d, s, t, NoPromotion)
<1>1. /\ c \in Colors /\ s \in Squares /\ "pawn" \in Kinds
      /\ e # c /\ e # "none" /\ k # NoPromotion /\ k # "king"
  BY PositionTyped
     DEF Coherent, Kinds, Colors, Promotions, NoPromotion, Opposite
<1>2. d[s] = Piece(c, "pawn") /\ d[s].color = c
  BY <1>1, DiagramIs, PieceSame
<1>3. /\ a[t] = Piece(c, k) /\ b[t] = Piece(c, "pawn")
      /\ \A u \in Squares : u # t => a[u] = b[u]
  <2> HIDE DEF d, c
  <2> QED
    BY <1>1, <1>2 DEF Played
<1>4. /\ a[t].color = c /\ b[t].color = c
      /\ a[t].kind = k /\ b[t].kind = "pawn"
      /\ a[t] # NoPiece /\ b[t] # NoPiece
  <2> HIDE DEF a, b
  <2> QED
    BY <1>1, <1>3 DEF Piece, NoPiece, Colors
<1> HIDE DEF a, b, c, d, e
<1>5. \A u \in Squares : /\ a[u].color = b[u].color
                         /\ a[u] = NoPiece <=> b[u] = NoPiece
  BY <1>3, <1>4
<1>6. ASSUME NEW u \in Squares, u # t, NEW v \in Squares
      PROVE  Attacks(a, u, v) <=> Attacks(b, u, v)
  <2>1. a[u] = b[u]
    BY <1>3, <1>6
  <2>2. (\A w \in InBetween[u][v] : a[w] = NoPiece)
          <=> (\A w \in InBetween[u][v] : b[w] = NoPiece)
    BY <1>5, InBetweenOnBoard
  <2> QED
    BY <2>1, <2>2 DEF Attacks
<1>7. \A v \in Squares : AttackedBy(a, e, v) <=> AttackedBy(b, e, v)
  BY <1>1, <1>4, <1>5, <1>6 DEF AttackedBy, Men
<1>8. \A v \in Squares : a[v].color = c /\ a[v].kind = "king"
                           <=> b[v].color = c /\ b[v].kind = "king"
  BY <1>1, <1>3, <1>4
<1>9. KingAttacked(a, c) <=> KingAttacked(b, c)
  BY <1>7, <1>8 DEF KingAttacked, Men, e
<1> QED
  BY <1>9 DEF a, b, c, d

-----------------------------------------------------------------------------
(* The moves that are generated are those the rules allow.                 *)

\* The rules let the man on m.from go to m.to and become what m says, were it
\* not for its king; and the kind of m fits.
Allowed(p, m) ==
  LET d == Diagram(p) IN
  /\ m.from \in Men(d, p.side) /\ m.to \in Squares
  /\ d[m.to].color # p.side
  /\ MayGo(p, d, m.from, m.to)
  /\ m.promotion \in Becomes(d, m.from, m.to)
  /\ Shaped(p, m)

\* The squares in front of a pawn.
LEMMA AheadIs ==
  ASSUME NEW s \in Squares, NEW t \in Squares, NEW c \in Colors
  PROVE  /\ File(t) = File(s) /\ Rank(t) = Rank(s) + Forward(c)
              <=> t = s + 8 * Forward(c)
         /\ File(t) = File(s) /\ Rank(t) = Rank(s) + 2 * Forward(c)
              <=> t = s + 16 * Forward(c)
         /\ t = s + 16 * Forward(c) => InBetween[s][t] = {s + 8 * Forward(c)}
<1> DEFINE e == Forward(c)
           d == <<0, e>>
<1>1. /\ File(s) \in 0 .. 7 /\ Rank(s) \in 0 .. 7 /\ s = File(s) + 8 * Rank(s)
      /\ File(t) \in 0 .. 7 /\ Rank(t) \in 0 .. 7 /\ t = File(t) + 8 * Rank(t)
  BY SquareParts
<1>2. e \in {1, -1}
  BY DEF Forward
<1>3. d \in Steps /\ d[1] = 0 /\ d[2] = e
  BY <1>2 DEF Steps, Straights
<1> HIDE DEF e, d
<1>4. /\ File(t) = File(s) /\ Rank(t) = Rank(s) + e <=> t = s + 8 * e
      /\ File(t) = File(s) /\ Rank(t) = Rank(s) + 2 * e <=> t = s + 16 * e
  <2> DEFINE f == File(s) r == Rank(s) g == File(t) q == Rank(t)
  <2>1. /\ f \in 0 .. 7 /\ r \in 0 .. 7 /\ g \in 0 .. 7 /\ q \in 0 .. 7
        /\ s = f + 8 * r /\ t = g + 8 * q
    BY <1>1
  <2> HIDE DEF f, r, g, q
  <2>2. g = f /\ q = r + e <=> t = s + 8 * e
    BY <1>2, <2>1
  <2>3. g = f /\ q = r + 2 * e <=> t = s + 16 * e
    BY <1>2, <2>1
  <2> QED
    BY <2>2, <2>3 DEF f, r, g, q
<1>5. ASSUME t = s + 16 * e PROVE InBetween[s][t] = {s + 8 * e}
  <2>1. Rank(t) = Rank(s) + 2 * e
    BY <1>4, <1>5
  <2>2. Within(s, d, 2)
    BY <1>1, <1>2, <1>3, <2>1 DEF Within, OnBoard
  <2>3. Along(s, d, 2) = t /\ Along(s, d, 1) = s + 8 * e
    BY <1>1, <1>2, <1>3, <1>5 DEF Along
  <2>4. InBetween[s][Along(s, d, 2)] = {Along(s, d, i) : i \in 1 .. 2 - 1}
    BY <1>3, <2>2, InBetweenIs
  <2>5. 1 .. 2 - 1 = {1}
    OBVIOUS
  <2> QED
    BY <2>3, <2>4, <2>5
<1> QED
  BY <1>4, <1>5 DEF e

LEMMA PawnMayIs ==
  ASSUME NEW p, Coherent(p), NEW s \in p.pieces[p.side]["pawn"],
         NEW t \in Squares
  PROVE  LET d == Diagram(p)
             c == p.side
             one == s + 8 * Forward(c)
         IN /\ d[s].kind = "pawn" /\ s \in Men(d, c) /\ s \in Squares
            /\ Becomes(d, s, t) = (IF Rank(t) \in {0, 7} THEN Promotions
                                   ELSE {NoPromotion})
            /\ MayGo(p, d, s, t) <=>
                 \/ /\ t \in PawnAttacks(c, s)
                    /\ t \in p.occupied[Opposite(c)] \/ t = p.ep
                 \/ t = one /\ t \notin AllOccupied(p)
                 \/ /\ t = s + 16 * Forward(c) /\ t \notin AllOccupied(p)
                    /\ Rank(s) = (IF c = "white" THEN 1 ELSE 6)
                    /\ one \notin AllOccupied(p)
<1> DEFINE d == Diagram(p)
           c == p.side
           one == s + 8 * Forward(c)
           two == s + 16 * Forward(c)
<1>1. /\ c \in Colors /\ Opposite(c) \in Colors /\ "pawn" \in Kinds
      /\ s \in Squares
  BY PositionTyped, OneOfTwo DEF Coherent, Kinds
<1>2. d[s].kind = "pawn" /\ d[s].color = c
  <2>1. d[s] = Piece(c, "pawn")
    BY <1>1, DiagramIs
  <2> QED
    BY <2>1, PieceSame
<1>3. s \in Men(d, c)
  BY <1>1, <1>2 DEF Men
<1>4. Becomes(d, s, t) = (IF Rank(t) \in {0, 7} THEN Promotions
                          ELSE {NoPromotion})
  BY <1>2 DEF Becomes
<1>5. Attacks(d, s, t) <=> t \in PawnAttacks(c, s)
  BY <1>1, AttackIs, ReachOf
<1>6. /\ d[t].color = Opposite(c) <=> t \in p.occupied[Opposite(c)]
      /\ d[t] = NoPiece <=> t \notin AllOccupied(p)
  BY <1>1, DiagramIs
<1>7. /\ File(t) = File(s) /\ Rank(t) = Rank(s) + Forward(c) <=> t = one
      /\ File(t) = File(s) /\ Rank(t) = Rank(s) + 2 * Forward(c) <=> t = two
  BY <1>1, AheadIs
<1>8. t = two => ((\A u \in InBetween[s][t] : d[u] = NoPiece)
                    <=> one \notin AllOccupied(p))
  <2> HAVE t = two
  <2>1. InBetween[s][t] = {one}
    BY <1>1, AheadIs
  <2>2. one \in Squares
    BY <1>1, <2>1, InBetweenOnBoard
  <2>3. d[one] = NoPiece <=> one \notin AllOccupied(p)
    BY <2>2, DiagramIs
  <2> QED
    BY <2>1, <2>3
<1> HIDE DEF d, c, one, two
<1>9. MayGo(p, d, s, t) <=>
        \/ /\ t \in PawnAttacks(c, s)
           /\ t \in p.occupied[Opposite(c)] \/ t = p.ep
        \/ t = one /\ t \notin AllOccupied(p)
        \/ /\ t = two /\ t \notin AllOccupied(p)
           /\ Rank(s) = (IF c = "white" THEN 1 ELSE 6)
           /\ one \notin AllOccupied(p)
  BY <1>2, <1>5, <1>6, <1>7, <1>8 DEF MayGo, PawnMay, c
<1> QED
  BY <1>1, <1>2, <1>3, <1>4, <1>9 DEF d, c, one, two

\* A square nobody of the side to move stands on.
LEMMA FreeIs ==
  ASSUME NEW p, Coherent(p), NEW t \in Squares
  PROVE  /\ t \notin AllOccupied(p) => Diagram(p)[t].color # p.side
         /\ t \in p.occupied[Opposite(p.side)] =>
              Diagram(p)[t].color # p.side /\ Diagram(p)[t] # NoPiece
<1>1. /\ p.side \in Colors /\ Opposite(p.side) \in Colors
      /\ Opposite(p.side) # p.side
  BY PositionTyped DEF Coherent
<1>2. ASSUME t \in p.occupied[Opposite(p.side)]
      PROVE  Diagram(p)[t].color = Opposite(p.side) /\ Diagram(p)[t] # NoPiece
  <2>1. Diagram(p)[t].color = Opposite(p.side)
    BY <1>1, <1>2, DiagramIs
  <2> QED
    BY <1>1, <2>1 DEF NoPiece, Colors
<1>3. ASSUME t \notin AllOccupied(p) PROVE Diagram(p)[t].color # p.side
  BY <1>1, <1>3, DiagramIs DEF NoPiece, Colors
<1> QED
  BY <1>1, <1>2, <1>3

LEMMA PawnDown ==
  ASSUME NEW p, Coherent(p), NEW s \in p.pieces[p.side]["pawn"],
         Rank(s) \in 1 .. 6, NEW m \in PawnMovesFrom(p, s)
  PROVE  Allowed(p, m)
<1> DEFINE c == p.side
           d == Diagram(p)
           e == Forward(c)
           one == s + 8 * e
           two == s + 16 * e
<1>1. /\ c \in Colors /\ s \in Squares /\ e \in {1, -1}
      /\ File(s) \in 0 .. 7 /\ s = File(s) + 8 * Rank(s)
  BY PositionTyped, SquareParts DEF Coherent, Kinds, Forward
<1>2. d[s].kind = "pawn" /\ s \in Men(d, c)
  BY <1>1, PawnMayIs
<1>3. ASSUME NEW t \in Squares
      PROVE  /\ Becomes(d, s, t) = (IF Rank(t) \in {0, 7} THEN Promotions
                                    ELSE {NoPromotion})
             /\ MayGo(p, d, s, t) <=>
                 \/ /\ t \in PawnAttacks(c, s)
                    /\ t \in p.occupied[Opposite(c)] \/ t = p.ep
                 \/ t = one /\ t \notin AllOccupied(p)
                 \/ /\ t = two /\ t \notin AllOccupied(p)
                    /\ Rank(s) = (IF c = "white" THEN 1 ELSE 6)
                    /\ one \notin AllOccupied(p)
  BY PawnMayIs
<1>4. ASSUME NEW t \in Squares
      PROVE  /\ t = one => File(t) = File(s)
             /\ t = two => /\ File(t) = File(s)
                           /\ \/ Rank(t) \notin {0, 7}
                              \/ Rank(s) # (IF c = "white" THEN 1 ELSE 6)
             /\ t \in PawnAttacks(c, s) =>
                  File(t) # File(s) /\ Rank(t) = Rank(s) + e
  <2>1. t = one => File(t) = File(s)
    BY <1>1, AheadIs
  <2>2. t = two => File(t) = File(s) /\ Rank(t) = Rank(s) + 2 * e
    BY <1>1, AheadIs
  <2>3. e = (IF c = "white" THEN 1 ELSE -1)
    BY DEF Forward
  <2>4. t \in PawnAttacks(c, s) => FilesApart(s, t) = 1 /\ Rank(t) = Rank(s) + e
    BY <1>1, LeapIs
  <2> HIDE DEF e, c
  <2>5. FilesApart(s, t) = 1 => File(t) # File(s)
    BY <1>1 DEF FilesApart, Distance
  <2> QED
    BY <2>1, <2>2, <2>3, <2>4, <2>5
<1> DEFINE fits(t, kind, promotion) ==
      m = [from |-> s, to |-> t, kind |-> kind, promotion |-> promotion]
<1>5. CASE m \in PawnPushes(p, s)
  <2>1. one \in Squares /\ one \notin AllOccupied(p)
    BY <1>5 DEF PawnPushes
  <2>2. d[one].color # c
    BY <2>1, FreeIs
  <2>3. CASE /\ Rank(one) \in {0, 7}
             /\ \E k \in Promotions : fits(one, "promotion", k)
    BY <1>2, <1>3, <1>4, <2>1, <2>2, <2>3
       DEF Allowed, Shaped, IsCastle, IsPromotion, Promotions, NoPromotion
  <2>4. CASE Rank(one) \notin {0, 7} /\ fits(one, "quiet", NoPromotion)
    BY <1>2, <1>3, <1>4, <2>1, <2>2, <2>4
       DEF Allowed, Shaped, IsCastle, IsPromotion
  <2>5. CASE /\ Rank(s) = (IF c = "white" THEN 1 ELSE 6)
             /\ two \notin AllOccupied(p) /\ fits(two, "double", NoPromotion)
    <3>1. two \in Squares
      BY <1>1, <2>5 DEF Forward, Squares
    <3>2. d[two].color # c
      BY <2>5, <3>1, FreeIs
    <3> QED
      BY <1>2, <1>3, <1>4, <2>1, <2>5, <3>1, <3>2
         DEF Allowed, Shaped, IsCastle, IsPromotion
  <2> QED
    BY <1>5, <2>3, <2>4, <2>5 DEF PawnPushes, PromotionMoves, Move
<1>6. CASE \E to \in PawnAttacks(c, s) : m \in PawnCaptures(p, s, to)
  <2>1. PICK t \in PawnAttacks(c, s) : m \in PawnCaptures(p, s, t)
    BY <1>6
  <2>2. t \in Squares /\ File(t) # File(s) /\ Rank(t) = Rank(s) + e
    <3>1. t \in Squares
      BY <1>1, PawnAttacksOnBoard
    <3> QED
      BY <1>4, <3>1
  <2>3. CASE /\ t \in p.occupied[Opposite(c)] /\ Rank(t) \in {0, 7}
             /\ \E k \in Promotions : fits(t, "promotionCapture", k)
    <3>1. d[t].color # c /\ d[t] # NoPiece
      BY <2>2, <2>3, FreeIs
    <3> QED
      BY <1>2, <1>3, <2>1, <2>2, <2>3, <3>1
         DEF Allowed, Shaped, IsCastle, IsPromotion, Promotions, NoPromotion
  <2>4. CASE /\ t \in p.occupied[Opposite(c)] /\ Rank(t) \notin {0, 7}
             /\ fits(t, "capture", NoPromotion)
    <3>1. d[t].color # c /\ d[t] # NoPiece
      BY <2>2, <2>4, FreeIs
    <3> QED
      BY <1>2, <1>3, <2>1, <2>2, <2>4, <3>1
         DEF Allowed, Shaped, IsCastle, IsPromotion
  <2>5. CASE /\ p.ep = t /\ EnPassantStands(p, t, c)
             /\ fits(t, "enPassant", NoPromotion)
    <3>1. PieceAt(p, t) = NoPiece /\ Rank(t) \notin {0, 7}
      BY <2>5 DEF EnPassantStands
    <3>2. d[t] = NoPiece /\ t \notin AllOccupied(p)
      BY <2>2, <3>1, DiagramIs
    <3>3. d[t].color # c
      BY <2>2, <3>2, FreeIs
    <3> QED
      BY <1>2, <1>3, <2>1, <2>2, <2>5, <3>1, <3>2, <3>3
         DEF Allowed, Shaped, IsCastle, IsPromotion
  <2> QED
    BY <2>1, <2>3, <2>4, <2>5 DEF PawnCaptures, PromotionMoves, Move
<1> QED
  BY <1>5, <1>6 DEF PawnMovesFrom

\* The text of a move of some kind.
LEMMA TextIs ==
  ASSUME NEW s, NEW t, NEW kind, NEW k
  PROVE  /\ Text([from |-> s, to |-> t, kind |-> kind, promotion |-> k])
              = [from |-> s, to |-> t, promotion |-> k]
         /\ Text(Move(s, t, kind))
              = [from |-> s, to |-> t, promotion |-> NoPromotion]
BY DEF Text, Move

LEMMA PawnUp ==
  ASSUME NEW p, Coherent(p), NEW s \in p.pieces[p.side]["pawn"],
         Rank(s) \in 1 .. 6, NEW t \in Squares,
         MayGo(p, Diagram(p), s, t),
         t \notin p.pieces[Opposite(p.side)]["king"],
         p.ep # NoSquare => EnPassantStands(p, p.ep, p.side),
         NEW k \in Becomes(Diagram(p), s, t)
  PROVE  \E m \in PawnMovesFrom(p, s) :
           Text(m) = [from |-> s, to |-> t, promotion |-> k]
<1> DEFINE c == p.side
           d == Diagram(p)
           e == Forward(c)
           one == s + 8 * e
           two == s + 16 * e
           enemy == Opposite(c)
           text == [from |-> s, to |-> t, promotion |-> k]
<1>1. /\ c \in Colors /\ s \in Squares /\ e \in {1, -1}
      /\ File(s) \in 0 .. 7 /\ s = File(s) + 8 * Rank(s)
  BY PositionTyped, SquareParts DEF Coherent, Kinds, Forward
<1>2. /\ Becomes(d, s, t) = (IF Rank(t) \in {0, 7} THEN Promotions
                             ELSE {NoPromotion})
      /\ MayGo(p, d, s, t) <=>
                 \/ /\ t \in PawnAttacks(c, s)
                    /\ t \in p.occupied[enemy] \/ t = p.ep
                 \/ t = one /\ t \notin AllOccupied(p)
                 \/ /\ t = two /\ t \notin AllOccupied(p)
                    /\ Rank(s) = (IF c = "white" THEN 1 ELSE 6)
                    /\ one \notin AllOccupied(p)
  BY PawnMayIs
<1>3. CASE t \in PawnAttacks(c, s) /\ (t \in p.occupied[enemy] \/ t = p.ep)
  <2>1. \A m : m \in PawnCaptures(p, s, t) => m \in PawnMovesFrom(p, s)
    BY <1>3 DEF PawnMovesFrom
  <2>2. CASE t \in p.occupied[enemy] /\ Rank(t) \in {0, 7}
    <3> DEFINE m == [from |-> s, to |-> t, kind |-> "promotionCapture",
                     promotion |-> k]
    <3>1. m \in PawnCaptures(p, s, t)
      BY <1>2, <2>2 DEF PawnCaptures, PromotionMoves
    <3>2. Text(m) = text
      BY TextIs
    <3> HIDE DEF m
    <3> QED
      BY <2>1, <3>1, <3>2
  <2>3. CASE t \in p.occupied[enemy] /\ Rank(t) \notin {0, 7}
    <3>1. Move(s, t, "capture") \in PawnCaptures(p, s, t) /\ k = NoPromotion
      BY <1>2, <2>3 DEF PawnCaptures
    <3> QED
      BY <2>1, <3>1, TextIs
  <2>4. CASE t \notin p.occupied[enemy]
    <3>1. t = p.ep /\ EnPassantStands(p, t, c)
      BY <1>3, <2>4 DEF NoSquare, Squares
    <3>2. Rank(t) \notin {0, 7}
      BY <3>1 DEF EnPassantStands
    <3>3. Move(s, t, "enPassant") \in PawnCaptures(p, s, t) /\ k = NoPromotion
      BY <1>2, <2>4, <3>1, <3>2 DEF PawnCaptures
    <3> QED
      BY <2>1, <3>3, TextIs
  <2> QED
    BY <2>2, <2>3, <2>4
<1>4. CASE t = one /\ t \notin AllOccupied(p)
  <2>1. CASE Rank(t) \in {0, 7}
    <3> DEFINE m == [from |-> s, to |-> t, kind |-> "promotion",
                     promotion |-> k]
    <3>1. m \in PawnPushes(p, s)
      BY <1>2, <1>4, <2>1 DEF PawnPushes, PromotionMoves
    <3>2. Text(m) = text
      BY TextIs
    <3> HIDE DEF m
    <3> QED
      BY <3>1, <3>2 DEF PawnMovesFrom
  <2>2. CASE Rank(t) \notin {0, 7}
    <3>1. Move(s, t, "quiet") \in PawnPushes(p, s) /\ k = NoPromotion
      BY <1>2, <1>4, <2>2 DEF PawnPushes
    <3> QED
      BY <3>1, TextIs DEF PawnMovesFrom
  <2> QED
    BY <2>1, <2>2
<1>5. CASE /\ t = two /\ t \notin AllOccupied(p)
           /\ Rank(s) = (IF c = "white" THEN 1 ELSE 6)
           /\ one \notin AllOccupied(p)
  <2>1. one \in Squares
    BY <1>1 DEF Squares
  <2>2. Rank(t) \notin {0, 7}
    <3>1. Rank(t) = Rank(s) + 2 * e
      BY <1>1, <1>5, AheadIs
    <3> QED
      BY <1>5, <3>1 DEF Forward
  <2>3. Move(s, t, "double") \in PawnPushes(p, s) /\ k = NoPromotion
    BY <1>2, <1>5, <2>1, <2>2 DEF PawnPushes
  <2> QED
    BY <2>3, TextIs DEF PawnMovesFrom
<1> QED
  BY <1>2, <1>3, <1>4, <1>5

\* Every man but a pawn goes where it attacks.
LEMMA PieceDown ==
  ASSUME NEW p, Coherent(p), NEW k \in Kinds \ {"pawn"},
         NEW s \in p.pieces[p.side][k],
         NEW m \in PieceMoves(p, s, Reach(p, p.side, k, s))
  PROVE  Allowed(p, m)
<1> DEFINE c == p.side
           d == Diagram(p)
           t == m.to
<1>1. /\ c \in Colors /\ s \in Squares
      /\ k \in {"knight", "bishop", "rook", "queen", "king"}
  BY PositionTyped DEF Coherent, Kinds
<1>2. /\ t \in Reach(p, c, k, s) /\ t \notin p.occupied[c]
      /\ m.from = s /\ m.promotion = NoPromotion
      /\ m.kind \in {"capture", "quiet"}
  BY DEF PieceMoves, Move
<1>3. t \in Squares
  <2>1. Diagonals \subseteq Steps /\ Straights \subseteq Steps
    BY DEF Steps
  <2>2. Reach(p, c, k, s) \subseteq Squares
    BY <1>1, <2>1, ReachOf, SeenOnBoard, LeapsOnBoard
  <2> QED
    BY <1>2, <2>2
<1>4. d[s].kind = k /\ s \in Men(d, c)
  <2>1. d[s] = Piece(c, k)
    BY <1>1, DiagramIs
  <2>2. d[s].color = c /\ d[s].kind = k
    BY <2>1, PieceSame
  <2> QED
    BY <1>1, <2>2 DEF Men
<1>5. d[t].color # c
  BY <1>1, <1>2, <1>3, DiagramIs
<1>6. Attacks(d, s, t)
  BY <1>1, <1>2, <1>3, AttackIs
<1>7. MayGo(p, d, s, t)
  BY <1>1, <1>4, <1>6 DEF MayGo
<1>8. Becomes(d, s, t) = {NoPromotion}
  BY <1>1, <1>4 DEF Becomes
<1>9. ASSUME k = "king" PROVE FilesApart(s, t) # 2
  <2>1. t \in KingAttacks[s]
    BY <1>2, <1>9, ReachOf
  <2>2. FilesApart(s, t) <= 1
    BY <1>1, <1>3, <2>1, LeapIs
  <2> QED
    BY <2>2
<1>10. Shaped(p, m)
  <2>1. ~ IsCastle(m) /\ ~ IsPromotion(m) /\ m.kind # "enPassant"
    BY <1>2 DEF IsCastle, IsPromotion
  <2> QED
    BY <1>1, <1>2, <1>4, <1>9, <2>1 DEF Shaped
<1> QED
  BY <1>2, <1>3, <1>4, <1>5, <1>7, <1>8, <1>10 DEF Allowed

LEMMA PieceUp ==
  ASSUME NEW p, Coherent(p), NEW k \in Kinds,
         NEW s \in p.pieces[p.side][k], NEW t \in Squares,
         Diagram(p)[t].color # p.side, Attacks(Diagram(p), s, t),
         t \notin p.pieces[Opposite(p.side)]["king"]
  PROVE  \E m \in PieceMoves(p, s, Reach(p, p.side, k, s)) :
           Text(m) = [from |-> s, to |-> t, promotion |-> NoPromotion]
<1> DEFINE kind == IF t \in p.occupied[Opposite(p.side)]
                   THEN "capture" ELSE "quiet"
<1>1. p.side \in Colors
  BY PositionTyped DEF Coherent
<1>2. t \in Reach(p, p.side, k, s) /\ t \notin p.occupied[p.side]
  BY <1>1, AttackIs, DiagramIs
<1>3. Move(s, t, kind) \in PieceMoves(p, s, Reach(p, p.side, k, s))
  BY <1>2 DEF PieceMoves
<1>4. Text(Move(s, t, kind))
        = [from |-> s, to |-> t, promotion |-> NoPromotion]
  BY TextIs
<1> QED
  BY <1>3, <1>4

\* Nobody attacks the king of the side that has just moved.
LEMMA KingNotTaken ==
  ASSUME NEW p \in Positions, Valid(p), NEW s \in Men(Diagram(p), p.side),
         NEW t \in p.pieces[Opposite(p.side)]["king"]
  PROVE  ~ Attacks(Diagram(p), s, t)
<1> DEFINE enemy == Opposite(p.side)
<1>1. Coherent(p)
  BY DEF Coherent, Valid
<1>2. enemy \in Colors /\ Opposite(enemy) = p.side /\ p.side \in Colors
  BY PositionTyped, OneOfTwo
<1>3. Cardinality(p.pieces[enemy]["king"]) = 1
  BY <1>2 DEF Valid
<1>4. t = KingSquare(p, enemy) /\ t \in Squares /\ t # NoSquare
  BY <1>2, <1>3, KingIs DEF Squares, NoSquare
<1>5. ~ IsSquareAttacked(p, t, p.side)
  BY <1>2, <1>4 DEF Valid, InCheck
<1>6. ~ AttackedBy(Diagram(p), p.side, t)
  BY <1>1, <1>2, <1>4, <1>5, AttackedIs
<1> QED
  BY <1>6 DEF AttackedBy

\* The squares of the home row between the king and where it or its rook is.
LEMMA HomeRow ==
  ASSUME NEW c \in Colors, NEW w \in Wings
  PROVE  /\ InBetween[KingHome(c)][RookHome(c, w)] = Between(c, w)
         /\ InBetween[KingHome(c)][KingTo(c, w)] = {RookTo(c, w)}
         /\ KingTo(c, w) \in Between(c, w)
         /\ FilesApart(KingHome(c), KingTo(c, w)) = 2
<1> DEFINE h == Home(c)
           s == h + 4
           e == IF w = "kingside" THEN 1 ELSE -1
           d == <<e, 0>>
           n == IF w = "kingside" THEN 3 ELSE 4
<1>1. /\ h \in {0, 56} /\ w \in {"kingside", "queenside"}
      /\ KingHome(c) = s /\ s \in Squares /\ File(s) = 4 /\ Rank(s) \in 0 .. 7
  BY DEF Home, Wings, KingHome, Squares, File, Rank
<1>2. /\ RookHome(c, w) = s + n * e /\ KingTo(c, w) = s + 2 * e
      /\ RookTo(c, w) = s + e
  BY <1>1 DEF RookHome, KingTo, RookTo
<1>3. d \in Steps /\ d[1] = e /\ d[2] = 0
  BY DEF Steps, Straights
<1>4. Within(s, d, n) /\ Within(s, d, 2)
  BY <1>1, <1>3 DEF Within, OnBoard
<1>5. \A i \in 1 .. 7 : Along(s, d, i) = s + i * e
  BY <1>3 DEF Along
<1>6. InBetween[s][s + n * e] = {s + i * e : i \in 1 .. n - 1}
  <2>1. InBetween[s][Along(s, d, n)] = {Along(s, d, i) : i \in 1 .. n - 1}
    BY <1>1, <1>3, <1>4, InBetweenIs
  <2>2. /\ Along(s, d, n) = s + n * e
        /\ n \in 1 .. 7 /\ 1 .. n - 1 \subseteq 1 .. 7
    BY <1>5
  <2>3. {Along(s, d, i) : i \in 1 .. n - 1} = {s + i * e : i \in 1 .. n - 1}
    <3> HIDE DEF n, s, d, e
    <3> QED
      BY <1>5, <2>2
  <2> QED
    BY <2>1, <2>2, <2>3
<1>7. InBetween[s][s + 2 * e] = {s + e}
  <2>1. InBetween[s][Along(s, d, 2)] = {Along(s, d, i) : i \in 1 .. 2 - 1}
    BY <1>1, <1>3, <1>4, InBetweenIs
  <2>2. Along(s, d, 2) = s + 2 * e /\ Along(s, d, 1) = s + e /\ 1 .. 2 - 1 = {1}
    BY <1>5
  <2> QED
    BY <2>1, <2>2
<1>8. Between(c, w) = {s + i * e : i \in 1 .. n - 1}
  <2>1. CASE w = "kingside"
    <3>1. Between(c, w) = s + 1 .. s + 2
      BY <1>1, <1>2, <2>1 DEF Between
    <3>2. {s + i * e : i \in 1 .. n - 1} = s + 1 .. s + 2
      BY <1>1, <2>1
    <3> QED
      BY <3>1, <3>2
  <2>2. CASE w = "queenside"
    <3>1. Between(c, w) = s - 3 .. s - 1
      BY <1>1, <1>2, <2>2 DEF Between
    <3>2. {s + i * e : i \in 1 .. n - 1} = s - 3 .. s - 1
      BY <1>1, <2>2
    <3> QED
      BY <3>1, <3>2
  <2> QED
    BY <1>1, <2>1, <2>2
<1>9. KingTo(c, w) \in Between(c, w)
  BY <1>1, <1>2, <1>8
<1>10. FilesApart(KingHome(c), KingTo(c, w)) = 2
  BY <1>1, <1>2 DEF FilesApart, Distance, File
<1> QED
  BY <1>1, <1>2, <1>6, <1>7, <1>8, <1>9, <1>10

\* generate_castles asks what the rules ask.
LEMMA CastleIs ==
  ASSUME NEW p \in Positions, Valid(p), NEW w \in Wings
  PROVE  LET c == p.side
             d == Diagram(p)
             s == KingHome(c)
             t == KingTo(c, w)
         IN MayCastle(p, c, w) <=>
              /\ <<c, w>> \in p.castle
              /\ \A u \in InBetween[s][RookHome(c, w)] : d[u] = NoPiece
              /\ \A u \in {s, t} \cup InBetween[s][t] :
                   ~ AttackedBy(d, Opposite(c), u)
<1> DEFINE c == p.side
           d == Diagram(p)
           s == KingHome(c)
           t == KingTo(c, w)
           home == RookHome(c, w)
<1>1. Coherent(p) /\ RightsStand(p) /\ c \in Colors /\ Opposite(c) \in Colors
      /\ Cardinality(p.pieces[c]["king"]) = 1 /\ "king" \in Kinds
  BY PositionTyped DEF Coherent, Valid, Kinds
<1>2. /\ s \in Squares /\ t \in Squares /\ home \in Squares
      /\ RookTo(c, w) \in Squares
  BY <1>1, CastleSquares
<1>3. <<c, w>> \in p.castle => /\ PieceAt(p, home) = Piece(c, "rook")
                               /\ KingSquare(p, c) = s
  <2> HAVE <<c, w>> \in p.castle
  <2>1. PieceAt(p, s) = Piece(c, "king") /\ PieceAt(p, home) = Piece(c, "rook")
    BY <1>1 DEF RightsStand
  <2>2. s \in p.pieces[c]["king"]
    BY <1>1, <2>1, ManAt
  <2>3. p.pieces[c]["king"] = {KingSquare(p, c)}
    BY <1>1, KingIs
  <2> QED
    BY <2>1, <2>2, <2>3
<1>4. Between(c, w) = InBetween[s][home]
      /\ Crossed(c, w) = {s, t} \cup InBetween[s][t]
  <2>1. InBetween[s][t] = {RookTo(c, w)} /\ InBetween[s][home] = Between(c, w)
    BY <1>1, HomeRow
  <2> QED
    BY <2>1 DEF Crossed
<1>5. Between(c, w) \cap AllOccupied(p) = {}
        <=> \A u \in InBetween[s][home] : d[u] = NoPiece
  <2>1. \A u \in InBetween[s][home] : u \in Squares
    BY <1>2, InBetweenOnBoard
  <2>2. \A u \in Squares : d[u] = NoPiece <=> u \notin AllOccupied(p)
    BY <1>1, DiagramIs
  <2> HIDE DEF d
  <2> QED
    BY <1>4, <2>1, <2>2
<1>6. \A u \in Crossed(c, w) : IsSquareAttacked(p, u, Opposite(c))
                                 <=> AttackedBy(d, Opposite(c), u)
  <2>1. Crossed(c, w) \subseteq Squares
    BY <1>2 DEF Crossed
  <2> QED
    BY <1>1, <2>1, AttackedIs
<1> HIDE DEF c, d, s, t, home
<1>7. MayCastle(p, c, w) <=>
        /\ KingSquare(p, c) = s
        /\ <<c, w>> \in p.castle
        /\ PieceAt(p, home) = Piece(c, "rook")
        /\ Between(c, w) \cap AllOccupied(p) = {}
        /\ \A u \in Crossed(c, w) : ~ IsSquareAttacked(p, u, Opposite(c))
  BY DEF MayCastle, s, home
<1>8. MayCastle(p, c, w) <=>
         /\ <<c, w>> \in p.castle
         /\ \A u \in InBetween[s][home] : d[u] = NoPiece
         /\ \A u \in {s, t} \cup InBetween[s][t] :
              ~ AttackedBy(d, Opposite(c), u)
  BY <1>3, <1>4, <1>5, <1>6, <1>7
<1> QED
  BY <1>8 DEF c, d, s, t, home

LEMMA KingAtHome ==
  ASSUME NEW p \in Positions, Valid(p), NEW w \in Wings,
         <<p.side, w>> \in p.castle
  PROVE  LET d == Diagram(p)
             s == KingHome(p.side)
         IN s \in Squares /\ s \in Men(d, p.side) /\ d[s].kind = "king"
<1>1. Coherent(p) /\ RightsStand(p) /\ p.side \in Colors /\ "king" \in Kinds
  BY PositionTyped DEF Coherent, Valid, Kinds
<1>2. PieceAt(p, KingHome(p.side)) = Piece(p.side, "king")
  BY <1>1 DEF RightsStand
<1>3. KingHome(p.side) \in Squares
  BY <1>1, CastleSquares
<1>4. Diagram(p)[KingHome(p.side)] = Piece(p.side, "king")
  BY <1>1, <1>2, <1>3, DiagramIs
<1> QED
  BY <1>3, <1>4, PieceSame DEF Men

LEMMA CastleDown ==
  ASSUME NEW p \in Positions, Valid(p), NEW m \in Castles(p)
  PROVE  Allowed(p, m)
<1> DEFINE c == p.side
           d == Diagram(p)
<1>1. Coherent(p) /\ c \in Colors
  BY PositionTyped DEF Coherent, Valid
<1>2. PICK w \in Wings : /\ MayCastle(p, c, w)
                         /\ m = Move(KingHome(c), KingTo(c, w), CastleKind(w))
  BY DEF Castles
<1>3. /\ m.from = KingHome(c) /\ m.to = KingTo(c, w)
      /\ m.promotion = NoPromotion /\ m.kind = CastleKind(w)
  BY <1>2 DEF Move
<1>4. /\ <<c, w>> \in p.castle
      /\ \A u \in InBetween[KingHome(c)][RookHome(c, w)] : d[u] = NoPiece
      /\ \A u \in {KingHome(c), KingTo(c, w)}
                    \cup InBetween[KingHome(c)][KingTo(c, w)] :
           ~ AttackedBy(d, Opposite(c), u)
  BY <1>2, CastleIs
<1>5. /\ m.from \in Squares /\ m.from \in Men(d, c) /\ d[m.from].kind = "king"
  BY <1>3, <1>4, KingAtHome
<1>6. KingMayCastle(p, d, m.from, m.to)
  BY <1>3, <1>4 DEF KingMayCastle
<1>7. m.to \in Squares /\ d[m.to].color # c
  <2>1. m.to \in Squares
    BY <1>1, <1>3, CastleSquares
  <2>2. d[m.to] = NoPiece
    BY <1>1, <1>3, <1>4, HomeRow
  <2> QED
    BY <1>1, <2>1, <2>2 DEF NoPiece, Colors
<1>8. FilesApart(m.from, m.to) = 2
  BY <1>1, <1>3, HomeRow
<1>9. Shaped(p, m)
  <2>1. IsCastle(m) /\ ~ IsPromotion(m) /\ m.kind # "enPassant"
    BY <1>3 DEF IsCastle, IsPromotion, CastleKind
  <2> QED
    BY <1>3, <1>5, <1>8, <2>1 DEF Shaped
<1>10. MayGo(p, d, m.from, m.to)
  BY <1>5, <1>6 DEF MayGo
<1>11. m.promotion \in Becomes(d, m.from, m.to)
  BY <1>3, <1>5 DEF Becomes
<1> QED
  BY <1>5, <1>7, <1>9, <1>10, <1>11 DEF Allowed

LEMMA CastleUp ==
  ASSUME NEW p \in Positions, Valid(p), NEW s, NEW t,
         KingMayCastle(p, Diagram(p), s, t)
  PROVE  \E m \in Castles(p) :
           Text(m) = [from |-> s, to |-> t, promotion |-> NoPromotion]
<1>1. PICK w \in Wings :
        /\ <<p.side, w>> \in p.castle
        /\ s = KingHome(p.side) /\ t = KingTo(p.side, w)
        /\ \A u \in InBetween[s][RookHome(p.side, w)] : Diagram(p)[u] = NoPiece
        /\ \A u \in {s, t} \cup InBetween[s][t] :
             ~ AttackedBy(Diagram(p), Opposite(p.side), u)
  BY DEF KingMayCastle
<1>2. MayCastle(p, p.side, w)
  BY <1>1, CastleIs
<1>3. Move(s, t, CastleKind(w)) \in Castles(p)
  BY <1>1, <1>2 DEF Castles
<1> QED
  BY <1>3, TextIs

\* The men of the side to move, one by one.
LEMMA PseudoIs ==
  ASSUME NEW p \in Positions, Valid(p), NEW m
  PROVE  m \in PseudoLegalMoves(p) <=>
           \/ \E s \in p.pieces[p.side]["pawn"] : m \in PawnMovesFrom(p, s)
           \/ \E k \in Kinds \ {"pawn"} : \E s \in p.pieces[p.side][k] :
                m \in PieceMoves(p, s, Reach(p, p.side, k, s))
           \/ m \in Castles(p)
<1> DEFINE its == p.pieces[p.side]
           goes(k) == \E s \in its[k] :
                        m \in PieceMoves(p, s, Reach(p, p.side, k, s))
           king == KingSquare(p, p.side)
<1>1. m \in PawnMoves(p) <=> \E s \in its["pawn"] : m \in PawnMovesFrom(p, s)
  BY DEF PawnMoves
<1>2. m \in KnightMoves(p) <=> goes("knight")
  BY ReachOf DEF KnightMoves
<1>3. m \in SliderMoves(p) <=> goes("bishop") \/ goes("rook") \/ goes("queen")
  BY ReachOf DEF SliderMoves, SliderMovesOf
<1>4. its["king"] = {king} /\ king # NoSquare
  <2>1. p.side \in Colors
    BY PositionTyped
  <2>2. its["king"] = {king} /\ king \in Squares
    BY <2>1, KingIs DEF Valid
  <2> QED
    BY <2>2 DEF Squares, NoSquare
<1>5. m \in KingMoves(p) <=> goes("king") \/ m \in Castles(p)
  <2>1. Reach(p, p.side, "king", king) = KingAttacks[king]
    BY ReachOf
  <2>2. KingMoves(p) = PieceMoves(p, king, KingAttacks[king]) \cup Castles(p)
    BY <1>4 DEF KingMoves
  <2> HIDE DEF its, king
  <2> QED
    BY <1>4, <2>1, <2>2
<1>6. m \in PseudoLegalMoves(p) <=>
        \/ m \in PawnMoves(p) \/ m \in KnightMoves(p) \/ m \in SliderMoves(p)
        \/ m \in KingMoves(p)
  BY DEF PseudoLegalMoves
<1>7. (\E k \in Kinds \ {"pawn"} : goes(k)) <=>
        \/ goes("knight") \/ goes("bishop") \/ goes("rook") \/ goes("queen")
        \/ goes("king")
  <2> HIDE DEF goes
  <2> QED
    BY DEF Kinds
<1> QED
  BY <1>1, <1>2, <1>3, <1>5, <1>6, <1>7

\* Generated moves are allowed, and what is allowed is generated, before
\* anybody asks whether the king is safe.
LEMMA PseudoDown ==
  ASSUME NEW p \in Positions, Valid(p), NEW m \in PseudoLegalMoves(p)
  PROVE  Allowed(p, m)
<1>1. Coherent(p) /\ p.side \in Colors
  BY PositionTyped DEF Coherent, Valid
<1>2. \A s \in p.pieces[p.side]["pawn"] : Rank(s) \in 1 .. 6
  BY <1>1 DEF Valid
<1> QED
  BY <1>1, <1>2, PseudoIs, PawnDown, PieceDown, CastleDown

LEMMA PseudoUp ==
  ASSUME NEW p \in Positions, Valid(p), NEW s \in Men(Diagram(p), p.side),
         NEW t \in Squares, Diagram(p)[t].color # p.side,
         MayGo(p, Diagram(p), s, t), NEW k \in Becomes(Diagram(p), s, t)
  PROVE  \E m \in PseudoLegalMoves(p) :
           Text(m) = [from |-> s, to |-> t, promotion |-> k]
<1> DEFINE d == Diagram(p)
           text == [from |-> s, to |-> t, promotion |-> k]
<1>1. /\ Coherent(p) /\ p.side \in Colors /\ s \in Squares
      /\ d[s].color = p.side
  BY PositionTyped DEF Coherent, Valid, Men
<1>2. PICK l \in Kinds : s \in p.pieces[p.side][l] /\ d[s].kind = l
  <2>1. s \in p.occupied[p.side]
    BY <1>1, DiagramIs
  <2>2. PICK l \in Kinds : s \in p.pieces[p.side][l]
    BY <1>1, <2>1, OccupiedIs
  <2>3. d[s] = Piece(p.side, l)
    BY <1>1, <2>2, DiagramIs
  <2> QED
    BY <2>2, <2>3, PieceSame
<1>3. CASE l = "pawn"
  <2>1. Rank(s) \in 1 .. 6
    BY <1>1, <1>2, <1>3 DEF Valid
  <2>2. p.ep # NoSquare => EnPassantStands(p, p.ep, p.side)
    BY DEF Valid
  <2>3. t \notin p.pieces[Opposite(p.side)]["king"]
    <3> SUFFICES ASSUME t \in p.pieces[Opposite(p.side)]["king"] PROVE FALSE
      OBVIOUS
    <3>1. Opposite(p.side) \in Colors /\ "king" \in Kinds
      BY <1>1, OneOfTwo DEF Kinds
    <3>2. PieceAt(p, t) # NoPiece /\ t \in AllOccupied(p)
      BY <1>1, <3>1, PieceAtIs, OccupiedIs
    <3>3. t # p.ep
      <4>1. t # NoSquare
        BY DEF Squares, NoSquare
      <4> QED
        BY <2>2, <3>2, <4>1 DEF EnPassantStands
    <3>4. t \in PawnAttacks(p.side, s)
      BY <1>1, <1>2, <1>3, <3>2, <3>3, PawnMayIs
    <3>5. Attacks(d, s, t)
      BY <1>1, <1>2, <1>3, <3>4, AttackIs, ReachOf
    <3> QED
      BY <3>5, KingNotTaken
  <2>4. \E m \in PawnMovesFrom(p, s) : Text(m) = text
    BY <1>1, <1>2, <1>3, <2>1, <2>2, <2>3, PawnUp
  <2> QED
    BY <1>2, <1>3, <2>4, PseudoIs
<1>4. CASE l # "pawn"
  <2>1. k = NoPromotion
    BY <1>2, <1>4 DEF Becomes
  <2>2. CASE Attacks(d, s, t)
    <3>1. t \notin p.pieces[Opposite(p.side)]["king"]
      BY <2>2, KingNotTaken
    <3>2. \E m \in PieceMoves(p, s, Reach(p, p.side, l, s)) : Text(m) = text
      BY <1>1, <1>2, <2>1, <2>2, <3>1, PieceUp
    <3> QED
      BY <1>2, <1>4, <3>2, PseudoIs
  <2>3. CASE KingMayCastle(p, d, s, t)
    BY <2>1, <2>3, CastleUp, PseudoIs
  <2> QED
    BY <1>2, <1>4, <2>2, <2>3 DEF MayGo
<1> QED
  BY <1>3, <1>4

\* A generated move is legal exactly if it does not leave the king attacked.
LEMMA SafeIs ==
  ASSUME NEW p \in Positions, Valid(p), NEW m \in PseudoLegalMoves(p)
  PROVE  InCheck(MakeFast(p, m), p.side) <=>
           KingAttacked(Played(Diagram(p), m.from, m.to, NoPromotion), p.side)
<1>1. Coherent(p) /\ p.side \in Colors
  BY PositionTyped DEF Coherent, Valid
<1>2. Possible(p, m) /\ Allowed(p, m) /\ Shaped(p, m)
  BY <1>1, PseudoPossible, PseudoDown DEF Allowed
<1> DEFINE q == Make(p, m)
<1>3. Coherent(q)
  BY <1>1, <1>2, AfterCoherent
<1>4. Cardinality(q.pieces[p.side]["king"]) = 1
  <2>1. q.pieces[p.side]["king"] = {m.to}
          \/ q.pieces[p.side]["king"] = p.pieces[p.side]["king"]
    <3>1. \A c \in Colors : Cardinality(p.pieces[c]["king"]) = 1
      BY DEF Valid
    <3> QED
      BY <1>1, <1>2, <3>1, KingsAfter
  <2> HIDE DEF q
  <2> QED
    BY <1>1, <2>1, FS_Singleton DEF Valid
<1>5. InCheck(q, p.side) <=> KingAttacked(Diagram(q), p.side)
  <2> HIDE DEF q
  <2> QED
    BY <1>1, <1>3, <1>4, InCheckIs
<1>6. Diagram(q) = Played(Diagram(p), m.from, m.to, m.promotion)
  BY <1>1, <1>2, PlayedIs
<1>7. InCheck(MakeFast(p, m), p.side) <=> InCheck(q, p.side)
  BY <1>1, <1>2, InCheckTried
<1>8. CASE m.promotion = NoPromotion
  BY <1>5, <1>6, <1>7, <1>8
<1>9. CASE m.promotion # NoPromotion
  <2>1. m.promotion \in Promotions /\ Diagram(p)[m.from].kind = "pawn"
    BY <1>2, <1>9 DEF Allowed, Becomes
  <2>2. m.from \in Squares /\ Diagram(p)[m.from].color = p.side
    BY <1>2 DEF Allowed, Men
  <2>3. m.from \in p.pieces[p.side]["pawn"] /\ m.to \in Squares
    <3>1. m.from \in p.occupied[p.side]
      BY <1>1, <2>2, DiagramIs
    <3>2. PICK l \in Kinds : m.from \in p.pieces[p.side][l]
      BY <1>1, <3>1, OccupiedIs
    <3>3. Diagram(p)[m.from] = Piece(p.side, l)
      BY <1>1, <2>2, <3>2, DiagramIs
    <3>4. l = "pawn"
      BY <2>1, <3>3, PieceSame
    <3> QED
      BY <1>2, <3>2, <3>4 DEF Allowed
  <2>4. KingAttacked(Played(Diagram(p), m.from, m.to, m.promotion), p.side)
          <=> KingAttacked(Played(Diagram(p), m.from, m.to, NoPromotion),
                           p.side)
    BY <1>1, <2>1, <2>3, PromotedSame
  <2> QED
    BY <1>5, <1>6, <1>7, <2>4
<1> QED
  BY <1>8, <1>9

LEMMA RuleIs ==
  ASSUME NEW p, NEW x
  PROVE  LET d == Diagram(p) IN
         x \in MovesOfTheRules(p) <=>
           \E s \in Men(d, p.side) : \E t \in Squares :
             /\ d[t].color # p.side
             /\ MayGo(p, d, s, t)
             /\ ~ KingAttacked(Played(d, s, t, NoPromotion), p.side)
             /\ \E k \in Becomes(d, s, t) :
                  x = [from |-> s, to |-> t, promotion |-> k]
BY DEF MovesOfTheRules

\* The legal moves of a valid position are those of the rules.
LEMMA LegalIsAllowed ==
  ASSUME NEW p \in Positions, Valid(p)
  PROVE  {Text(m) : m \in LegalMoves(p)} = MovesOfTheRules(p)
<1> DEFINE d == Diagram(p)
<1>1. ASSUME NEW m \in LegalMoves(p) PROVE Text(m) \in MovesOfTheRules(p)
  <2>1. m \in PseudoLegalMoves(p) /\ ~ InCheck(MakeFast(p, m), p.side)
    BY DEF LegalMoves
  <2>2. Allowed(p, m)
    BY <2>1, PseudoDown
  <2>3. ~ KingAttacked(Played(d, m.from, m.to, NoPromotion), p.side)
    BY <2>1, SafeIs
  <2>4. Text(m) = [from |-> m.from, to |-> m.to, promotion |-> m.promotion]
    BY DEF Text
  <2>5. /\ m.from \in Men(d, p.side) /\ m.to \in Squares
        /\ d[m.to].color # p.side /\ MayGo(p, d, m.from, m.to)
        /\ m.promotion \in Becomes(d, m.from, m.to)
    BY <2>2 DEF Allowed
  <2> HIDE DEF d
  <2> QED
    BY <2>3, <2>4, <2>5, RuleIs DEF d
<1>2. ASSUME NEW x \in MovesOfTheRules(p)
      PROVE  \E m \in LegalMoves(p) : Text(m) = x
  <2>1. PICK s \in Men(d, p.side), t \in Squares :
          /\ d[t].color # p.side
          /\ MayGo(p, d, s, t)
          /\ ~ KingAttacked(Played(d, s, t, NoPromotion), p.side)
          /\ \E k \in Becomes(d, s, t) :
               x = [from |-> s, to |-> t, promotion |-> k]
    BY RuleIs
  <2>2. PICK k \in Becomes(d, s, t) :
          x = [from |-> s, to |-> t, promotion |-> k]
    BY <2>1
  <2>3. PICK m \in PseudoLegalMoves(p) : Text(m) = x
    BY <2>1, <2>2, PseudoUp
  <2>4. m.from = s /\ m.to = t
    BY <2>2, <2>3 DEF Text
  <2>5. ~ InCheck(MakeFast(p, m), p.side)
    BY <2>1, <2>4, SafeIs
  <2> QED
    BY <2>3, <2>5 DEF LegalMoves
<1> QED
  BY <1>1, <1>2

-----------------------------------------------------------------------------
(* The board: one game, and input that belongs to it.                      *)

ValidPositions == {p \in Positions : Valid(p)}
Boards ==
  [position : ValidPositions, base : ValidPositions,
   positions : Seq(ValidPositions), moves : Seq(Moves),
   selected : Squares \cup {NoSquare}, targets : SUBSET Squares,
   pending : SUBSET Moves, mode : Modes, over : BOOLEAN]

\* The positions of a board follow one another by the moves of the game.
Follow(b) ==
  /\ Len(b.positions) = Len(b.moves) + 1
  /\ b.positions[1] = b.base
  /\ \A k \in 1 .. Len(b.moves) :
       b.positions[k + 1] = Make(b.positions[k], b.moves[k])
  /\ b.position = b.positions[Len(b.positions)]

GoodBoard(b) ==
  /\ b \in Boards /\ Follow(b)
  /\ SelectionFits(b, LegalMoves(b.position))
  /\ PendingFits(b, LegalMoves(b.position))

LEMMA LegalMovesValid ==
  ASSUME NEW p \in ValidPositions, NEW m \in LegalMoves(p)
  PROVE  /\ Make(p, m) \in ValidPositions /\ m \in Moves
         /\ m.from \in Squares /\ m.to \in Squares
BY ValidAfter DEF ValidPositions, Possible, Moves

LEMMA StartsValid ==
  /\ Startpos \in ValidPositions
  /\ \A g \in Games : g.position \in ValidPositions /\ g.mode \in Modes
BY LocalBoardConstants DEF ValidPositions

LEMMA FreshIsGood ==
  ASSUME NEW p \in ValidPositions, NEW mode \in Modes
  PROVE  GoodBoard(Fresh(p, mode))
<1> DEFINE b == Fresh(p, mode)
<1>1. /\ b.position = p /\ b.base = p /\ b.positions = <<p>> /\ b.moves = <<>>
      /\ b.selected = NoSelection /\ b.pending = NoPending
  BY DEF Fresh
<1>2. b \in Boards
  <2>1. /\ <<p>> \in Seq(ValidPositions) /\ <<>> \in Seq(Moves)
        /\ NoSelection = NoSquare /\ NoPending = {}
    BY DEF NoSelection, NoPending
  <2> QED
    BY <2>1 DEF Fresh, Boards
<1> HIDE DEF b
<1>3. Follow(b)
  <2>1. Len(b.moves) = 0 /\ Len(b.positions) = 1 /\ b.positions[1] = p
    BY <1>1
  <2> QED
    BY <1>1, <2>1 DEF Follow
<1> QED
  BY <1>1, <1>2, <1>3 DEF GoodBoard, SelectionFits, PendingFits, b

\* What the last lines of a control change of the input.
LEMMA ClearedIsGood ==
  ASSUME NEW b, GoodBoard(b), NEW over \in BOOLEAN, NEW mode \in Modes
  PROVE  /\ GoodBoard(ClearInput(b))
         /\ GoodBoard([ClearInput(b) EXCEPT !.over = over])
         /\ GoodBoard(ClearInput([b EXCEPT !.mode = mode]))
<1>1. ASSUME NEW d, d \in Boards, d.selected = NoSelection,
             d.pending = NoPending, d.position = b.position, d.base = b.base,
             d.positions = b.positions, d.moves = b.moves
      PROVE  GoodBoard(d)
  BY <1>1 DEF GoodBoard, Follow, SelectionFits, PendingFits
<1>2. b \in Boards /\ NoSelection \in Squares \cup {NoSquare}
      /\ {} \in SUBSET Squares /\ NoPending \in SUBSET Moves
  BY DEF GoodBoard, NoSelection, NoPending
<1> DEFINE c1 == ClearInput(b)
           c2 == [c1 EXCEPT !.over = over]
           c3 == ClearInput([b EXCEPT !.mode = mode])
<1>3. /\ c1 \in Boards /\ c1.selected = NoSelection /\ c1.pending = NoPending
      /\ c1.position = b.position /\ c1.base = b.base
      /\ c1.positions = b.positions /\ c1.moves = b.moves
  BY <1>2 DEF ClearInput, Boards
<1>4. /\ c2 \in Boards /\ c2.selected = NoSelection /\ c2.pending = NoPending
      /\ c2.position = b.position /\ c2.base = b.base
      /\ c2.positions = b.positions /\ c2.moves = b.moves
  <2> HIDE DEF c1
  <2> QED
    BY <1>3 DEF Boards
<1>5. /\ c3 \in Boards /\ c3.selected = NoSelection /\ c3.pending = NoPending
      /\ c3.position = b.position /\ c3.base = b.base
      /\ c3.positions = b.positions /\ c3.moves = b.moves
  BY <1>2 DEF ClearInput, Boards
<1> HIDE DEF c1, c2, c3
<1> QED
  BY <1>1, <1>3, <1>4, <1>5 DEF c1, c2, c3

\* A legal move is added at the end of the game.
LEMMA PlayedIsGood ==
  ASSUME NEW b, GoodBoard(b), NEW m \in LegalMoves(b.position)
  PROVE  /\ GoodBoard(ApplyMove(b, m))
         /\ ApplyMove(b, m).moves = Append(b.moves, m)
<1> DEFINE next == Make(b.position, m)
           d == ApplyMove(b, m)
<1>1. b \in Boards /\ Follow(b)
  BY DEF GoodBoard
<1>2. /\ b.position \in ValidPositions /\ b.moves \in Seq(Moves)
      /\ b.positions \in Seq(ValidPositions)
  BY <1>1 DEF Boards
<1>3. next \in ValidPositions /\ m \in Moves
  BY <1>2, LegalMovesValid
<1>4. /\ d.position = next /\ d.positions = Append(b.positions, next)
      /\ d.moves = Append(b.moves, m) /\ d.base = b.base
      /\ d.selected = NoSelection /\ d.pending = NoPending
  <2> HIDE DEF next
  <2> QED
    BY <1>1 DEF ApplyMove, ClearInput, Boards, next
<1>5. d \in Boards
  <2>1. /\ Append(b.positions, next) \in Seq(ValidPositions)
        /\ Append(b.moves, m) \in Seq(Moves)
        /\ NoSelection \in Squares \cup {NoSquare} /\ NoPending \in SUBSET Moves
    BY <1>2, <1>3, AppendProperties DEF NoSelection, NoPending
  <2>2. (LegalMoves(next) = {}) \in BOOLEAN
    OBVIOUS
  <2> HIDE DEF next
  <2> QED
    BY <1>1, <1>3, <2>1, <2>2 DEF ApplyMove, ClearInput, Boards, next
<1> HIDE DEF d, next
<1>6. Follow(d)
  <2>1. /\ Len(d.moves) = Len(b.moves) + 1
        /\ Len(d.positions) = Len(b.positions) + 1
        /\ d.moves[Len(b.moves) + 1] = m
        /\ d.positions[Len(b.positions) + 1] = next
        /\ \A k \in 1 .. Len(b.moves) : d.moves[k] = b.moves[k]
        /\ \A k \in 1 .. Len(b.positions) : d.positions[k] = b.positions[k]
    BY <1>2, <1>3, <1>4, AppendProperties
  <2>2. Len(b.moves) \in Nat /\ Len(b.positions) = Len(b.moves) + 1
    BY <1>1, <1>2 DEF Follow
  <2>3. d.positions[1] = d.base
    BY <1>1, <1>4, <2>1, <2>2 DEF Follow
  <2>4. ASSUME NEW k \in 1 .. Len(d.moves)
        PROVE  d.positions[k + 1] = Make(d.positions[k], d.moves[k])
    <3>1. CASE k \in 1 .. Len(b.moves)
      <4>1. k \in 1 .. Len(b.positions) /\ k + 1 \in 1 .. Len(b.positions)
        BY <2>2, <3>1
      <4> QED
        BY <1>1, <2>1, <3>1, <4>1 DEF Follow
    <3>2. CASE k = Len(b.moves) + 1
      <4>1. k = Len(b.positions) /\ k \in 1 .. Len(b.positions)
        BY <2>2, <3>2
      <4>2. d.positions[k] = b.position /\ d.positions[k + 1] = next
        BY <1>1, <2>1, <4>1 DEF Follow
      <4> QED
        BY <2>1, <3>2, <4>2 DEF next
    <3> QED
      BY <2>1, <2>2, <3>1, <3>2
  <2> QED
    BY <1>4, <2>1, <2>2, <2>3, <2>4 DEF Follow
<1> QED
  BY <1>4, <1>5, <1>6 DEF GoodBoard, SelectionFits, PendingFits, d

\* undo goes back to the position before the last move.
LEMMA UndoneIsGood ==
  ASSUME NEW b, GoodBoard(b), b.moves # <<>>
  PROVE  GoodBoard(Undo(b))
<1> DEFINE d == Undo(b)
           n == Len(b.moves)
<1>1. b \in Boards /\ Follow(b)
  BY DEF GoodBoard
<1>2. /\ b.moves \in Seq(Moves) /\ b.positions \in Seq(ValidPositions)
      /\ n \in Nat \ {0} /\ Len(b.positions) = n + 1
  BY <1>1, EmptySeq DEF Boards, Follow
<1> HIDE DEF n
<1>3. /\ Front(b.moves) = SubSeq(b.moves, 1, n - 1)
      /\ Front(b.positions) = SubSeq(b.positions, 1, n)
  <2>1. n + 1 - 1 = n
    BY <1>2
  <2> QED
    BY <1>2, <2>1 DEF Front, n
<1>4. /\ Front(b.moves) \in Seq(Moves) /\ Len(Front(b.moves)) = n - 1
      /\ \A k \in 1 .. n - 1 : Front(b.moves)[k] = b.moves[k]
  <2>1. \A k \in 1 .. n - 1 : b.moves[k] \in Moves
    BY <1>2, ElementOfSeq DEF n
  <2>2. 1 \in Int /\ n - 1 \in Int /\ n - 1 - 1 + 1 = n - 1
    BY <1>2
  <2>3. /\ Front(b.moves) \in Seq(Moves)
        /\ Len(Front(b.moves)) = IF 1 <= n - 1 THEN n - 1 - 1 + 1 ELSE 0
        /\ \A k \in 1 .. n - 1 - 1 + 1 : Front(b.moves)[k] = b.moves[1 + k - 1]
    BY <1>3, <2>1, <2>2, SubSeqProperties
  <2>4. \A k \in 1 .. n - 1 : 1 + k - 1 = k
    OBVIOUS
  <2>5. Len(Front(b.moves)) = n - 1
    BY <1>2, <2>3
  <2> QED
    BY <2>2, <2>3, <2>4, <2>5
<1>5. /\ Front(b.positions) \in Seq(ValidPositions)
      /\ Len(Front(b.positions)) = n
      /\ \A k \in 1 .. n : Front(b.positions)[k] = b.positions[k]
      /\ Last(Front(b.positions)) = b.positions[n]
      /\ b.positions[n] \in ValidPositions
  <2>1. \A k \in 1 .. n : b.positions[k] \in ValidPositions
    BY <1>2, ElementOfSeq
  <2>2. /\ Front(b.positions) \in Seq(ValidPositions)
        /\ Len(Front(b.positions)) = n
        /\ \A k \in 1 .. n : Front(b.positions)[k] = b.positions[k]
    <3>1. 1 \in Int /\ n \in Int /\ 1 <= n /\ n - 1 + 1 = n
      BY <1>2
    <3>2. /\ Front(b.positions) \in Seq(ValidPositions)
          /\ Len(Front(b.positions)) = n
          /\ \A k \in 1 .. n : Front(b.positions)[k] = b.positions[1 + k - 1]
      BY <1>3, <2>1, <3>1, SubSeqProperties
    <3>3. \A k \in 1 .. n : 1 + k - 1 = k
      OBVIOUS
    <3> QED
      BY <3>2, <3>3
  <2> QED
    BY <1>2, <2>1, <2>2 DEF Last
<1>6. /\ d.position = b.positions[n] /\ d.positions = Front(b.positions)
      /\ d.moves = Front(b.moves) /\ d.base = b.base
      /\ d.selected = NoSelection /\ d.pending = NoPending
  BY <1>1, <1>5 DEF Undo, ClearInput, Boards
<1>7. d \in Boards
  <2>1. NoSelection \in Squares \cup {NoSquare} /\ NoPending \in SUBSET Moves
    BY DEF NoSelection, NoPending
  <2> QED
    BY <1>1, <1>4, <1>5, <2>1 DEF Undo, ClearInput, Boards
<1> HIDE DEF d
<1>8. Follow(d)
  <2>1. Len(d.positions) = Len(d.moves) + 1
    BY <1>2, <1>4, <1>5, <1>6
  <2>2. d.positions[1] = d.base
    BY <1>1, <1>2, <1>5, <1>6 DEF Follow
  <2>3. ASSUME NEW k \in 1 .. Len(d.moves)
        PROVE  d.positions[k + 1] = Make(d.positions[k], d.moves[k])
    <3>1. k \in 1 .. n - 1 /\ k \in 1 .. n /\ k + 1 \in 1 .. n
      <4>1. k \in 1 .. n - 1
        BY <1>4, <1>6
      <4> QED
        BY <1>2, <4>1
    <3>2. b.positions[k + 1] = Make(b.positions[k], b.moves[k])
      BY <1>1, <3>1 DEF Follow, n
    <3> QED
      BY <1>4, <1>5, <1>6, <3>1, <3>2
  <2>4. d.position = d.positions[Len(d.positions)]
    BY <1>2, <1>5, <1>6
  <2> QED
    BY <2>1, <2>2, <2>3, <2>4 DEF Follow
<1> QED
  BY <1>6, <1>7, <1>8 DEF GoodBoard, SelectionFits, PendingFits, d

\* Only what is selected or pending changes.
LEMMA InputIsGood ==
  ASSUME NEW b, GoodBoard(b), NEW d, d \in Boards,
         d.position = b.position, d.base = b.base,
         d.positions = b.positions, d.moves = b.moves,
         SelectionFits(d, LegalMoves(d.position)),
         PendingFits(d, LegalMoves(d.position))
  PROVE  GoodBoard(d) /\ d.moves = b.moves
BY DEF GoodBoard, Follow

LEMMA TriedIsGood ==
  ASSUME NEW b, GoodBoard(b), b.selected # NoSelection, NEW s,
         Candidates(LegalMoves(b.position), b.selected, s) # {}
  PROVE  GoodBoard(
           TryMove(b, Candidates(LegalMoves(b.position), b.selected, s)))
<1> DEFINE legal == LegalMoves(b.position)
           candidates == Candidates(legal, b.selected, s)
           m == CHOOSE m \in candidates : TRUE
           d == [b EXCEPT !.pending = candidates, !.selected = m.from,
                          !.targets = {m.to}]
<1>1. m \in legal /\ m.from = b.selected /\ m.to = s
  <2>1. m \in candidates
    OBVIOUS
  <2> HIDE DEF m
  <2> QED
    BY <2>1 DEF Candidates
<1>2. b \in Boards /\ b.position \in ValidPositions
  BY DEF GoodBoard, Boards
<1>3. m.from \in Squares /\ m.to \in Squares /\ candidates \in SUBSET Moves
  <2> HIDE DEF m
  <2> QED
    BY <1>1, <1>2, LegalMovesValid DEF Candidates
<1> HIDE DEF m, candidates
<1>4. CASE IsPromotion(m)
  <2>1. /\ d \in Boards /\ d.position = b.position /\ d.base = b.base
        /\ d.positions = b.positions /\ d.moves = b.moves
        /\ d.selected = b.selected /\ d.targets = {s} /\ d.pending = candidates
        /\ d.mode = b.mode
    BY <1>1, <1>2, <1>3 DEF Boards
  <2> HIDE DEF d
  <2>2. SelectionFits(d, legal)
    BY <1>1, <2>1
       DEF SelectionFits, GoodBoard, IsHumanTurn, Selectable
  <2>3. PendingFits(d, legal)
    <3>1. (CHOOSE t \in {s} : TRUE) = s
      OBVIOUS
    <3> QED
      BY <2>1, <3>1 DEF PendingFits, candidates
  <2>4. GoodBoard(d)
    BY <2>1, <2>2, <2>3, InputIsGood
  <2> QED
    BY <1>4, <2>4 DEF TryMove, d, m, candidates
<1>5. CASE ~ IsPromotion(m)
  <2>1. GoodBoard(ApplyMove(b, m))
    BY <1>1, PlayedIsGood
  <2> QED
    BY <1>5, <2>1 DEF TryMove, m, candidates
<1> QED
  BY <1>4, <1>5

LEMMA ClickedIsGood ==
  ASSUME NEW b, GoodBoard(b), NEW s \in Squares
  PROVE  GoodBoard(ClickSquare(b, s, LegalMoves(b.position)))
<1> DEFINE legal == LegalMoves(b.position)
           d == SelectSquare(b, s, legal)
<1>1. b \in Boards /\ b.position \in ValidPositions
  BY DEF GoodBoard, Boards
<1>2. GoodBoard(ClearInput(b))
  <2>1. b.mode \in Modes
    BY <1>1 DEF Boards
  <2> QED
    BY <2>1, ClearedIsGood
<1>3. ASSUME IsHumanTurn(b), b.pending = NoPending, Selectable(b, s)
      PROVE  GoodBoard(d)
  <2>1. {m.to : m \in {m \in legal : m.from = s}} \in SUBSET Squares
    BY <1>1, LegalMovesValid
  <2>2. /\ d \in Boards /\ d.position = b.position /\ d.base = b.base
        /\ d.positions = b.positions /\ d.moves = b.moves
        /\ d.selected = s /\ d.pending = b.pending /\ d.mode = b.mode
        /\ d.targets = {m.to : m \in {m \in legal : m.from = s}}
    BY <1>1, <2>1 DEF Boards, SelectSquare
  <2> HIDE DEF d
  <2>3. SelectionFits(d, legal)
    BY <1>3, <2>2 DEF SelectionFits, IsHumanTurn, Selectable
  <2>4. PendingFits(d, legal)
    BY <1>3, <2>2 DEF PendingFits
  <2> QED
    BY <2>2, <2>3, <2>4, InputIsGood
<1>4. ASSUME b.selected # NoSelection, Candidates(legal, b.selected, s) # {}
      PROVE  GoodBoard(TryMove(b, Candidates(legal, b.selected, s)))
  BY <1>4, TriedIsGood
<1> HIDE DEF legal, d
<1>5. GoodBoard(ClickSquare(b, s, legal))
  BY <1>2, <1>3, <1>4 DEF ClickSquare, d
<1> QED
  BY <1>5 DEF legal

LEMMA PromotedIsGood ==
  ASSUME NEW b, GoodBoard(b), NEW kind
  PROVE  GoodBoard(ChoosePromotion(b, kind, LegalMoves(b.position)))
<1> DEFINE legal == LegalMoves(b.position)
           m == CHOOSE m \in b.pending : TRUE
           fits == {x \in Candidates(legal, m.from, m.to) : x.promotion = kind}
           d == [b EXCEPT !.pending = NoPending]
<1>1. CASE fits = {}
  <2>1. b \in Boards /\ NoPending \in SUBSET Moves
    BY DEF GoodBoard, NoPending
  <2>2. /\ d \in Boards /\ d.position = b.position /\ d.base = b.base
        /\ d.positions = b.positions /\ d.moves = b.moves
        /\ d.selected = b.selected /\ d.pending = NoPending /\ d.mode = b.mode
        /\ d.targets = b.targets
    BY <2>1 DEF Boards
  <2> HIDE DEF d
  <2>3. /\ SelectionFits(d, LegalMoves(d.position))
        /\ PendingFits(d, LegalMoves(d.position))
    BY <2>2 DEF GoodBoard, SelectionFits, PendingFits, IsHumanTurn, Selectable
  <2>4. GoodBoard(d)
    BY <2>2, <2>3, InputIsGood
  <2> QED
    BY <1>1, <2>4 DEF ChoosePromotion, d
<1>2. CASE fits # {}
  <2>1. (CHOOSE x \in fits : TRUE) \in fits
    BY <1>2
  <2>2. (CHOOSE x \in fits : TRUE) \in legal
    BY <2>1 DEF Candidates
  <2>3. GoodBoard(ApplyMove(b, CHOOSE x \in fits : TRUE))
    BY <2>2, PlayedIsGood
  <2> QED
    BY <1>2, <2>3 DEF ChoosePromotion
<1> QED
  BY <1>1, <1>2

LEMMA ModeIsGood ==
  ASSUME NEW b, GoodBoard(b), NEW mode \in Modes
  PROVE  GoodBoard(SetPlayMode(b, mode))
<1> DEFINE d == [b EXCEPT !.mode = mode]
<1>1. /\ d \in Boards /\ d.position = b.position /\ d.base = b.base
      /\ d.positions = b.positions /\ d.moves = b.moves /\ d.mode = mode
      /\ d.selected = b.selected /\ d.pending = b.pending
      /\ d.targets = b.targets
  BY DEF GoodBoard, Boards
<1>2. CASE IsHumanTurn(d)
  <2> HIDE DEF d
  <2>1. /\ SelectionFits(d, LegalMoves(d.position))
        /\ PendingFits(d, LegalMoves(d.position))
    BY <1>1, <1>2 DEF GoodBoard, SelectionFits, PendingFits, Selectable
  <2>2. GoodBoard(d)
    BY <1>1, <2>1, InputIsGood
  <2> QED
    BY <1>2, <2>2 DEF SetPlayMode, d
<1>3. CASE ~ IsHumanTurn(d)
  <2>1. GoodBoard(ClearInput(d))
    BY ClearedIsGood
  <2> QED
    BY <1>3, <2>1 DEF SetPlayMode
<1> QED
  BY <1>2, <1>3

LEMMA ResignedIsGood ==
  ASSUME NEW b, GoodBoard(b)
  PROVE  GoodBoard(Resign(b))
<1>1. b.mode \in Modes
  BY DEF GoodBoard, Boards
<1>2. GoodBoard(Fresh(Startpos, b.mode))
  BY <1>1, StartsValid, FreshIsGood
<1>3. GoodBoard([ClearInput(b) EXCEPT !.over = TRUE])
  BY <1>1, ClearedIsGood
<1> QED
  BY <1>2, <1>3 DEF Resign

LEMMA EngineMoveIsGood ==
  ASSUME NEW b, GoodBoard(b), NEW text
  PROVE  GoodBoard(ApplyEngineMove(b, text))
<1> DEFINE fits == {m \in LegalMoves(b.position) : Text(m) = text}
           d == [b EXCEPT !.over = TRUE]
<1>1. GoodBoard(d)
  <2>1. /\ d \in Boards /\ d.position = b.position /\ d.base = b.base
        /\ d.positions = b.positions /\ d.moves = b.moves /\ d.mode = b.mode
        /\ d.selected = b.selected /\ d.pending = b.pending
        /\ d.targets = b.targets
    BY DEF GoodBoard, Boards
  <2> HIDE DEF d
  <2>2. /\ SelectionFits(d, LegalMoves(d.position))
        /\ PendingFits(d, LegalMoves(d.position))
    BY <2>1 DEF GoodBoard, SelectionFits, PendingFits, IsHumanTurn, Selectable
  <2> QED
    BY <2>1, <2>2, InputIsGood
<1>2. ASSUME fits # {} PROVE GoodBoard(ApplyMove(b, CHOOSE m \in fits : TRUE))
  <2>1. (CHOOSE m \in fits : TRUE) \in fits
    BY <1>2
  <2>2. (CHOOSE m \in fits : TRUE) \in LegalMoves(b.position)
    BY <2>1
  <2> QED
    BY <2>2, PlayedIsGood
<1> HIDE DEF fits, d
<1> QED
  BY <1>1, <1>2 DEF ApplyEngineMove, fits, d

\* The events of a frame are handled one after the other.
Handles(f, s, events, k) ==
  f = [n \in 0 .. k |-> IF n = 0 THEN s ELSE Handle(f[n - 1], events[n])]

LEMMA HandlingEnds ==
  ASSUME NEW s, NEW events, NEW k \in Nat
  PROVE  \E f : Handles(f, s, events, k)
<1> DEFINE S == {j \in Nat : ~ \E f : Handles(f, s, events, j)}
<1>1. SUFFICES ASSUME S # {} PROVE FALSE
  OBVIOUS
<1>2. PICK j \in S : \A i \in S : j <= i
  <2>1. S \in SUBSET Nat
    OBVIOUS
  <2> QED
    BY <1>1, <2>1, Smallest
<1>3. j # 0
  <2>1. SUFFICES ASSUME j = 0 PROVE FALSE
    OBVIOUS
  <2> DEFINE f == [n \in 0 .. 0 |-> s]
  <2>2. f = [n \in 0 .. 0 |->
               IF n = 0 THEN s ELSE Handle(f[n - 1], events[n])]
    OBVIOUS
  <2>3. Handles(f, s, events, 0)
    BY <2>2 DEF Handles
  <2> QED
    BY <1>2, <2>1, <2>3
<1>4. j - 1 \in Nat /\ j - 1 \notin S
  BY <1>2, <1>3
<1>5. PICK g : Handles(g, s, events, j - 1)
  BY <1>4
<1> DEFINE f == [n \in 0 .. j |->
                   IF n = j THEN Handle(g[j - 1], events[j]) ELSE g[n]]
<1>6. \A n \in 0 .. j - 1 :
        g[n] = IF n = 0 THEN s ELSE Handle(g[n - 1], events[n])
  BY <1>5 DEF Handles
<1>7. ASSUME NEW n \in 0 .. j
      PROVE  f[n] = IF n = 0 THEN s ELSE Handle(f[n - 1], events[n])
  <2>1. CASE n = j
    <3>1. f[n] = Handle(g[j - 1], events[j]) /\ f[j - 1] = g[j - 1]
      BY <1>4, <2>1
    <3> QED
      BY <1>3, <2>1, <3>1
  <2>2. CASE n # j
    <3>1. n \in 0 .. j - 1 /\ f[n] = g[n]
      BY <1>4, <2>2
    <3>2. n # 0 => f[n - 1] = g[n - 1]
      BY <1>4, <3>1
    <3> QED
      BY <1>6, <3>1, <3>2
  <2> QED
    BY <2>1, <2>2
<1>8. f = [n \in 0 .. j |-> IF n = 0 THEN s ELSE Handle(f[n - 1], events[n])]
  <2>1. f = [n \in 0 .. j |-> f[n]]
    OBVIOUS
  <2> HIDE DEF f
  <2> QED
    BY <1>7, <2>1
<1>9. Handles(f, s, events, j)
  BY <1>8 DEF Handles
<1> QED
  BY <1>2, <1>9

\* Whatever arrived, the board it leaves is good and no search goes on.
LEMMA HandledIsGood ==
  ASSUME NEW b, GoodBoard(b), NEW searching \in BOOLEAN, NEW events,
         Len(events) \in Nat
  PROVE  LET seen == Handled([board |-> b, searching |-> searching], events)
         IN /\ GoodBoard(seen.board)
            /\ seen.searching = (searching /\ Len(events) = 0)
<1> DEFINE s == [board |-> b, searching |-> searching]
           L == Len(events)
<1>1. \E f : Handles(f, s, events, L)
  BY HandlingEnds
<1> DEFINE f == CHOOSE f :
                  f = [n \in 0 .. L |->
                         IF n = 0 THEN s ELSE Handle(f[n - 1], events[n])]
<1>2. Handles(f, s, events, L)
  <2> HIDE DEF s, L
  <2> QED
    BY <1>1 DEF Handles
<1>3. Handled(s, events) = f[L]
  BY DEF Handled
<1> HIDE DEF f
<1> DEFINE Bad == {n \in 0 .. L :
                     ~ /\ GoodBoard(f[n].board)
                       /\ f[n].searching = (searching /\ n = 0)}
<1>4. \A n \in 0 .. L : f[n] = IF n = 0 THEN s ELSE Handle(f[n - 1], events[n])
  <2> HIDE DEF s, L
  <2> QED
    BY <1>2 DEF Handles
<1>5. Bad = {}
  <2>1. SUFFICES ASSUME Bad # {} PROVE FALSE
    OBVIOUS
  <2>2. PICK n \in Bad : \A i \in Bad : n <= i
    <3>1. Bad \in SUBSET Nat
      OBVIOUS
    <3> HIDE DEF Bad
    <3> QED
      BY <2>1, <3>1, Smallest
  <2>3. n # 0
    BY <1>4, <2>2
  <2>4. n - 1 \in 0 .. L /\ n - 1 \notin Bad
    <3>1. n \in 0 .. L /\ L \in Nat
      BY <2>2
    <3>2. n - 1 \in 0 .. L /\ ~ (n <= n - 1)
      <4> HIDE DEF L
      <4> QED
        BY <2>3, <3>1
    <3> HIDE DEF Bad, L
    <3> QED
      BY <2>2, <3>2
  <2>5. GoodBoard(f[n - 1].board)
    BY <2>4
  <2>6. f[n] = Handle(f[n - 1], events[n])
    BY <1>4, <2>2, <2>3
  <2> DEFINE r == f[n - 1]
             e == events[n]
  <2> HIDE DEF r, e, f
  <2>7. GoodBoard(Handle(r, e).board) /\ Handle(r, e).searching = FALSE
    <3>1. CASE e.line = "stderr"
      <4>1. /\ Handle(r, e).board = r.board /\ Handle(r, e).searching = FALSE
        BY <3>1 DEF Handle
      <4> QED
        BY <2>5, <4>1 DEF r
    <3>2. CASE e.line # "stderr"
      <4>1. /\ Handle(r, e).board = IF /\ IsEngineTurn(r.board)
                                       /\ e.move # NoMove
                                    THEN ApplyEngineMove(r.board, e.move)
                                    ELSE r.board
            /\ Handle(r, e).searching = FALSE
        BY <3>2 DEF Handle
      <4>2. GoodBoard(ApplyEngineMove(r.board, e.move))
        BY <2>5, EngineMoveIsGood DEF r
      <4> QED
        BY <2>5, <4>1, <4>2 DEF r
    <3> QED
      BY <3>1, <3>2
  <2> QED
    BY <2>2, <2>3, <2>6, <2>7 DEF r, e
<1> QED
  BY <1>3, <1>5

\* What the engine is told is the position on the board.
LEMMA ToldIsBoard ==
  ASSUME NEW b, GoodBoard(b)
  PROVE  PositionOf(b) = b.position
<1> DEFINE L == Len(b.moves)
           f == CHOOSE f :
                  f = [n \in 0 .. L |-> IF n = 0 THEN b.base
                                        ELSE Make(f[n - 1], b.moves[n])]
           g == [n \in 0 .. L |-> b.positions[n + 1]]
<1>1. L \in Nat /\ Follow(b)
  BY DEF GoodBoard, Boards
<1> HIDE DEF L
<1>2. \A n \in 0 .. L :
        b.positions[n + 1] = IF n = 0 THEN b.base
                             ELSE Make(b.positions[n - 1 + 1], b.moves[n])
  BY <1>1 DEF Follow, L
<1>3. ASSUME NEW n \in 0 .. L
      PROVE  g[n] = IF n = 0 THEN b.base ELSE Make(g[n - 1], b.moves[n])
  <2>1. n # 0 => g[n - 1] = b.positions[n - 1 + 1]
    BY <1>1
  <2>2. g[n] = b.positions[n + 1]
    OBVIOUS
  <2> HIDE DEF g
  <2> QED
    BY <1>2, <2>1, <2>2
<1>4. g = [n \in 0 .. L |->
             IF n = 0 THEN b.base ELSE Make(g[n - 1], b.moves[n])]
  <2>1. g = [n \in 0 .. L |-> g[n]]
    OBVIOUS
  <2> HIDE DEF g
  <2> QED
    BY <1>3, <2>1
<1> HIDE DEF g
<1>5. f = [n \in 0 .. L |->
             IF n = 0 THEN b.base ELSE Make(f[n - 1], b.moves[n])]
  BY <1>4
<1>6. PositionOf(b) = f[L]
  BY DEF PositionOf, L
<1> HIDE DEF f
<1> DEFINE Off == {n \in 0 .. L : f[n] # b.positions[n + 1]}
<1>7. Off = {}
  <2>1. SUFFICES ASSUME Off # {} PROVE FALSE
    OBVIOUS
  <2>2. PICK n \in Off : \A i \in Off : n <= i
    <3>1. Off \in SUBSET Nat
      OBVIOUS
    <3> HIDE DEF Off
    <3> QED
      BY <2>1, <3>1, Smallest
  <2>3. n # 0
    BY <1>2, <1>5, <2>2
  <2>4. n - 1 \in 0 .. L /\ n - 1 \notin Off
    <3>1. n \in 0 .. L
      BY <2>2
    <3>2. n - 1 \in 0 .. L /\ ~ (n <= n - 1)
      BY <1>1, <2>3, <3>1
    <3> HIDE DEF Off
    <3> QED
      BY <2>2, <3>2
  <2> QED
    BY <1>2, <1>5, <2>2, <2>3, <2>4
<1>8. b.position = b.positions[L + 1]
  BY <1>1 DEF Follow, L
<1> QED
  BY <1>1, <1>6, <1>7, <1>8

-----------------------------------------------------------------------------
(* The engine behind the board: at most one search.                        *)

Lines == [line : {"position"}, position : ValidPositions]
           \cup {GoLine, StopLine}
MoveTexts == [from : Squares \cup {NoSquare}, to : Squares \cup {NoSquare},
              promotion : Promotions \cup {NoPromotion}]
Bestmoves == [line : {"bestmove"}, move : MoveTexts, of : ValidPositions]
Events == Bestmoves \cup {Stderr}
Clients ==
  [child : BOOLEAN, alive : BOOLEAN, input : Seq(Lines),
   output : Seq(Bestmoves), channel : Seq(Events), at : ValidPositions,
   recent : BOOLEAN, searching : BOOLEAN, asked : ValidPositions,
   lost : BOOLEAN]

Gos(c) == Places(c.input, "go")
Written(c) == Places(c.output, "bestmove")
Delivered(c) == Places(c.channel, "bestmove")
Quiet(c) == Gos(c) = {} /\ Written(c) = {} /\ Delivered(c) = {}
Single(S) == \A x \in S, y \in S : x = y

\* The position the go at place n of the input will search is the one the
\* window asked about.
Asks(c, n) ==
  \/ \E j \in 1 .. n - 1 :
       /\ c.input[j].line = "position" /\ c.input[j].position = c.asked
       /\ \A i \in j + 1 .. n - 1 : c.input[i].line # "position"
  \/ /\ c.at = c.asked
     /\ \A i \in 1 .. n - 1 : c.input[i].line # "position"

GoodClient(c) ==
  /\ c \in Clients
  /\ c.alive => /\ c.child
                /\ \A n \in 1 .. Len(c.channel) :
                     c.channel[n].line = "bestmove"
  /\ ~ c.alive => c.input = <<>>
  /\ Single(Gos(c)) /\ Single(Written(c)) /\ Single(Delivered(c))
  /\ Gos(c) = {} \/ (Written(c) = {} /\ Delivered(c) = {})
  /\ Written(c) = {} \/ Delivered(c) = {}
  /\ c.alive /\ c.lost => c.searching /\ Quiet(c)
  /\ c.alive /\ ~ c.lost => (c.searching <=> ~ Quiet(c))
  /\ \A n \in Written(c) : c.output[n].of = c.asked
  /\ \A n \in Delivered(c) : c.channel[n].of = c.asked
  /\ \A n \in Gos(c) : Asks(c, n)

LEMMA NoPlaces ==
  ASSUME NEW kind
  PROVE  Places(<<>>, kind) = {}
BY DEF Places

LEMMA PlacesAre ==
  ASSUME NEW S, NEW s \in Seq(S), NEW kind
  PROVE  /\ Places(s, kind) = {n \in 1 .. Len(s) : s[n].line = kind}
         /\ \A e \in S : Places(Append(s, e), kind) =
              Places(s, kind) \cup (IF e.line = kind THEN {Len(s) + 1} ELSE {})
         /\ s # <<>> => \A n : n \in Places(Tail(s), kind) <=>
              n \in 1 .. Len(s) - 1 /\ n + 1 \in Places(s, kind)
<1>1. Places(s, kind) = {n \in 1 .. Len(s) : s[n].line = kind}
  BY DEF Places
<1>3. ASSUME NEW e \in S
      PROVE  Places(Append(s, e), kind) =
               Places(s, kind) \cup (IF e.line = kind THEN {Len(s) + 1} ELSE {})
  <2>1. /\ Append(s, e) \in Seq(S) /\ Len(Append(s, e)) = Len(s) + 1
        /\ \A n \in 1 .. Len(s) : Append(s, e)[n] = s[n]
        /\ Append(s, e)[Len(s) + 1] = e
    BY AppendProperties
  <2>2. Places(Append(s, e), kind) =
          {n \in 1 .. Len(s) + 1 : Append(s, e)[n].line = kind}
    BY <2>1 DEF Places
  <2>3. ASSUME NEW n
        PROVE  n \in Places(Append(s, e), kind) <=>
                 n \in Places(s, kind) \/ (e.line = kind /\ n = Len(s) + 1)
    <3>1. Len(s) \in Nat
      OBVIOUS
    <3>2. CASE n \in 1 .. Len(s)
      BY <1>1, <2>1, <2>2, <3>1, <3>2
    <3>3. CASE n = Len(s) + 1
      BY <1>1, <2>1, <2>2, <3>1, <3>3
    <3>4. CASE n \notin 1 .. Len(s) + 1
      <4>1. n \notin 1 .. Len(s) /\ n # Len(s) + 1
        BY <3>1, <3>4
      <4> QED
        BY <1>1, <2>2, <3>4, <4>1
    <3> QED
      BY <3>1, <3>2, <3>3, <3>4
  <2> QED
    BY <2>3
<1>4. ASSUME s # <<>>, NEW n
      PROVE  n \in Places(Tail(s), kind) <=>
               n \in 1 .. Len(s) - 1 /\ n + 1 \in Places(s, kind)
  <2>1. /\ Tail(s) \in Seq(S) /\ Len(Tail(s)) = Len(s) - 1
        /\ \A i \in 1 .. Len(Tail(s)) : Tail(s)[i] = s[i + 1]
    BY <1>4, HeadTailProperties
  <2>2. Places(Tail(s), kind) = {i \in 1 .. Len(s) - 1 : Tail(s)[i].line = kind}
    BY <2>1 DEF Places
  <2>3. Len(s) \in Nat
    OBVIOUS
  <2>4. n \in 1 .. Len(s) - 1 => n + 1 \in 1 .. Len(s)
    BY <2>3
  <2> QED
    BY <1>1, <2>1, <2>2, <2>4
<1> QED
  BY <1>1, <1>3, <1>4

LEMMA LineKinds ==
  /\ GoLine.line = "go" /\ StopLine.line = "stop" /\ Stderr.line = "stderr"
  /\ GoLine \in Lines /\ StopLine \in Lines /\ Stderr \in Events
  /\ \A x \in Lines : /\ x.line \in {"position", "go", "stop"}
                      /\ x.line = "position" => x.position \in ValidPositions
  /\ \A e \in Bestmoves : e.line = "bestmove" /\ e \in Events
  /\ \A e \in Events : e.line # "stderr" => e \in Bestmoves
BY DEF GoLine, StopLine, Stderr, Lines, Bestmoves, Events

\* What GoodClient says of the searches is what OneSearchAtATime says.
LEMMA GoodIsOne ==
  ASSUME GoodClient(client)
  PROVE  OneSearchAtATime
<1>1. \A x, y \in Outstanding(client) : x = y
  <2>1. SUFFICES ASSUME NEW x \in Outstanding(client),
                        NEW y \in Outstanding(client)
                 PROVE  x = y
    OBVIOUS
  <2>2. \/ \E n \in Gos(client) : x = <<"input", n>>
        \/ \E n \in Written(client) : x = <<"output", n>>
        \/ \E n \in Delivered(client) : x = <<"channel", n>>
    BY DEF Outstanding, Gos, Written, Delivered
  <2>3. \/ \E n \in Gos(client) : y = <<"input", n>>
        \/ \E n \in Written(client) : y = <<"output", n>>
        \/ \E n \in Delivered(client) : y = <<"channel", n>>
    BY DEF Outstanding, Gos, Written, Delivered
  <2> QED
    BY <2>2, <2>3 DEF GoodClient, Single
<1>2. Outstanding(client) = {} <=> Quiet(client)
  <2>1. \A n : /\ n \in Gos(client) => <<"input", n>> \in Outstanding(client)
               /\ n \in Written(client) =>
                    <<"output", n>> \in Outstanding(client)
               /\ n \in Delivered(client) =>
                    <<"channel", n>> \in Outstanding(client)
    BY DEF Outstanding, Gos, Written, Delivered
  <2>2. Quiet(client) => Outstanding(client) = {}
    BY DEF Quiet, Outstanding, Gos, Written, Delivered
  <2> QED
    BY <2>1, <2>2 DEF Quiet
<1> QED
  BY <1>1, <1>2 DEF GoodClient, OneSearchAtATime, Written, Delivered

\* A client without a child keeps what the child had written.
LEMMA DeadIsGood ==
  ASSUME NEW c, GoodClient(c), NEW d, d \in Clients, ~ d.alive,
         d.input = <<>>, d.output = c.output,
         d.channel = c.channel \/ d.channel = <<>>, d.asked = c.asked
  PROVE  GoodClient(d)
<1>1. Gos(d) = {} /\ Written(d) = Written(c)
  BY NoPlaces DEF Gos, Written
<1>2. Delivered(d) = Delivered(c) \/ Delivered(d) = {}
  BY NoPlaces DEF Delivered
<1>3. \A n \in Delivered(d) : n \in Delivered(c) /\ d.channel = c.channel
  BY <1>2, NoPlaces DEF Delivered
<1> QED
  BY <1>1, <1>2, <1>3 DEF GoodClient, Single

\* A client whose child has nothing to answer.
LEMMA StartedIsGood ==
  ASSUME NEW d, d \in Clients, d.alive => d.child, d.input = <<>>,
         d.output = <<>>, d.channel = <<>>, ~ d.searching, ~ d.lost
  PROVE  GoodClient(d)
<1>1. Quiet(d)
  BY NoPlaces DEF Quiet, Gos, Written, Delivered
<1>2. \A n \in 1 .. Len(d.channel) : FALSE
  <2>1. Len(d.channel) = 0
    OBVIOUS
  <2> QED
    BY <2>1
<1> QED
  BY <1>1, <1>2 DEF GoodClient, Quiet, Single

\* The events are gone; if one of them was the answer that was waited for,
\* either the window has seen it or it is lost.
LEMMA DrainedIsGood ==
  ASSUME NEW c, GoodClient(c), NEW d, d \in Clients, d.alive = c.alive,
         d.child = c.child, d.input = c.input, d.output = c.output,
         d.channel = <<>>, d.at = c.at, d.asked = c.asked,
         \/ d.searching = c.searching /\ d.lost =
              (c.lost \/ (c.searching /\ (c.channel # <<>> \/ ~ c.alive)))
         \/ d.searching = (c.searching /\ c.channel = <<>>) /\ d.lost = c.lost
  PROVE  GoodClient(d)
<1>1. Gos(d) = Gos(c) /\ Written(d) = Written(c) /\ Delivered(d) = {}
  BY NoPlaces DEF Gos, Written, Delivered
<1>2. c.channel \in Seq(Events) /\ c \in Clients
  BY DEF GoodClient, Clients
<1>3. c.channel = <<>> => Delivered(c) = {}
  BY NoPlaces DEF Delivered
<1>4. c.alive /\ c.channel # <<>> => 1 \in Delivered(c)
  <2>1. SUFFICES ASSUME c.alive, c.channel # <<>> PROVE 1 \in Delivered(c)
    OBVIOUS
  <2>2. 1 \in 1 .. Len(c.channel)
    BY <1>2, <2>1, EmptySeq
  <2> QED
    BY <1>2, <2>1, <2>2 DEF GoodClient, Delivered, Places
<1>5. \A n \in Gos(d) : Asks(d, n)
  BY <1>1 DEF GoodClient, Asks
<1>6. \A n \in 1 .. Len(d.channel) : FALSE
  <2>1. Len(d.channel) = 0
    OBVIOUS
  <2> QED
    BY <2>1
<1>7. d.alive => /\ d.lost => d.searching /\ Quiet(d)
                 /\ ~ d.lost => (d.searching <=> ~ Quiet(d))
  <2>1. SUFFICES ASSUME c.alive
                 PROVE  /\ d.lost => d.searching /\ Quiet(d)
                        /\ ~ d.lost => (d.searching <=> ~ Quiet(d))
    OBVIOUS
  <2>2. CASE c.channel = <<>>
    <3>1. Quiet(d) <=> Quiet(c)
      BY <1>1, <1>3, <2>2 DEF Quiet
    <3>2. (d.searching <=> c.searching) /\ (d.lost <=> c.lost)
      BY <2>1, <2>2
    <3> QED
      BY <2>1, <3>1, <3>2 DEF GoodClient
  <2>3. CASE c.channel # <<>>
    <3>1. ~ Quiet(c) /\ Gos(c) = {} /\ Written(c) = {}
      BY <1>4, <2>1, <2>3 DEF GoodClient, Quiet
    <3>2. ~ c.lost /\ c.searching
      BY <2>1, <3>1 DEF GoodClient
    <3>3. Quiet(d)
      BY <1>1, <3>1 DEF Quiet
    <3> QED
      BY <2>1, <2>3, <3>2, <3>3
  <2> QED
    BY <2>2, <2>3
<1>8. /\ d.alive => d.child
      /\ ~ d.alive => d.input = <<>>
      /\ Single(Gos(d)) /\ Single(Written(d)) /\ Single(Delivered(d))
      /\ Gos(d) = {} \/ (Written(d) = {} /\ Delivered(d) = {})
      /\ Written(d) = {} \/ Delivered(d) = {}
      /\ \A n \in Written(d) : d.output[n].of = d.asked
  BY <1>1 DEF GoodClient, Single
<1> QED
  BY <1>1, <1>5, <1>6, <1>7, <1>8 DEF GoodClient

LEMMA RunningIsGood ==
  ASSUME NEW c, GoodClient(c)
  PROVE  LET r == IsRunning(c) IN
         /\ GoodClient(r)
         /\ r.child => r.alive
         /\ r.searching = c.searching
<1> DEFINE r == IsRunning(c)
<1>1. c \in Clients
  BY DEF GoodClient
<1>2. /\ r \in Clients /\ r.alive = c.alive /\ r.child = (c.child /\ c.alive)
      /\ r.input = c.input /\ r.output = c.output /\ r.channel = <<>>
      /\ r.at = c.at /\ r.asked = c.asked /\ r.searching = c.searching
      /\ r.lost = (c.lost \/ (c.searching
                       /\ (c.channel # <<>> \/ (c.child /\ ~ c.alive))))
  <2>1. <<>> \in Seq(Events)
    OBVIOUS
  <2> QED
    BY <1>1, <2>1 DEF IsRunning, Clients
<1> HIDE DEF r
<1>3. CASE c.alive
  <2>1. c.child /\ c.child \in BOOLEAN /\ c.alive \in BOOLEAN
          /\ c.lost \in BOOLEAN /\ c.searching \in BOOLEAN
    BY <1>1, <1>3 DEF GoodClient, Clients
  <2>2. r.child = c.child
    BY <1>2, <1>3, <2>1
  <2>3. r.lost = (c.lost \/ (c.searching /\ (c.channel # <<>> \/ ~ c.alive)))
    BY <1>2, <1>3, <2>1
  <2>4. GoodClient(r)
    BY <1>2, <2>2, <2>3, DrainedIsGood
  <2> QED
    BY <1>2, <1>3, <2>4 DEF r
<1>4. CASE ~ c.alive
  <2>1. r.input = <<>> /\ ~ r.alive
    BY <1>2, <1>4 DEF GoodClient
  <2>2. GoodClient(r)
    BY <1>2, <2>1, DeadIsGood
  <2> QED
    BY <1>2, <1>4, <2>2 DEF r
<1> QED
  BY <1>3, <1>4

LEMMA RestartIsGood ==
  ASSUME NEW c, GoodClient(c), NEW mayFail, NEW r \in Restart(c, mayFail)
  PROVE  /\ GoodClient(r)
         /\ r.child => r.alive
         /\ r.searching = FALSE
<1>1. c \in Clients /\ <<>> \in Seq(Lines) /\ <<>> \in Seq(Bestmoves)
      /\ <<>> \in Seq(Events) /\ Startpos \in ValidPositions
  BY StartsValid DEF GoodClient
<1>2. CASE r = Started(c)
  <2>1. /\ r \in Clients /\ r.alive = TRUE /\ r.child = TRUE
        /\ r.input = <<>> /\ r.output = <<>>
        /\ r.channel = <<>> /\ r.searching = FALSE /\ r.lost = FALSE
    BY <1>1, <1>2 DEF Started, Clients
  <2> QED
    BY <2>1, StartedIsGood
<1>3. CASE r = NotStarted(c)
  <2>1. /\ r \in Clients /\ r.alive = FALSE /\ r.child = FALSE
        /\ r.input = <<>> /\ r.output = c.output
        /\ r.channel = c.channel /\ r.searching = FALSE /\ r.asked = c.asked
    BY <1>1, <1>3 DEF NotStarted, Clients
  <2> QED
    BY <2>1, DeadIsGood
<1> QED
  BY <1>2, <1>3 DEF Restart

LEMMA ReadyIsGood ==
  ASSUME NEW c, GoodClient(c), NEW mayFail, NEW r \in EnsureReady(c, mayFail)
  PROVE  /\ GoodClient(r)
         /\ r.child => r.alive
         /\ r.searching = c.searching \/ r.searching = FALSE
<1> DEFINE i == IsRunning(c)
<1>1. GoodClient(i) /\ (i.child => i.alive) /\ i.searching = c.searching
  BY RunningIsGood
<1> HIDE DEF i
<1>2. r = i \/ r \in Restart(i, mayFail)
  BY DEF EnsureReady, i
<1> QED
  BY <1>1, <1>2, RestartIsGood

\* A line that is no go, for a child that reads it after those before it.
LEMMA SentIsGood ==
  ASSUME NEW c, GoodClient(c), NEW line \in Lines, line.line # "go"
  PROVE  LET d == Sent(c, line) IN
         /\ GoodClient(d)
         /\ d.child = c.child /\ d.alive = c.alive
         /\ d.searching = c.searching \/ d.searching = FALSE
         /\ c.child /\ c.alive => d.input = Append(c.input, line)
<1> DEFINE d == Sent(c, line)
<1>1. c \in Clients /\ c.input \in Seq(Lines)
  BY DEF GoodClient, Clients
<1>2. CASE c.child /\ c.alive
  <2>1. /\ d \in Clients /\ d.alive = c.alive /\ d.child = c.child
        /\ d.input = Append(c.input, line) /\ d.output = c.output
        /\ d.channel = c.channel /\ d.at = c.at /\ d.asked = c.asked
        /\ d.searching = c.searching /\ d.lost = c.lost
    <3>1. Append(c.input, line) \in Seq(Lines)
      BY <1>1, AppendProperties
    <3> QED
      BY <1>1, <1>2, <3>1 DEF Sent, Clients
  <2> HIDE DEF d
  <2>2. /\ Gos(d) = Gos(c) /\ Written(d) = Written(c)
        /\ Delivered(d) = Delivered(c)
    <3>1. Places(Append(c.input, line), "go") =
            Places(c.input, "go")
              \cup (IF line.line = "go" THEN {Len(c.input) + 1} ELSE {})
      BY <1>1, PlacesAre
    <3>2. Gos(d) = Gos(c)
      BY <2>1, <3>1 DEF Gos
    <3> QED
      BY <2>1, <3>2 DEF Written, Delivered
  <2>3. ASSUME NEW n \in Gos(d) PROVE Asks(d, n)
    <3>1. n \in 1 .. Len(c.input) /\ Asks(c, n)
      BY <1>1, <2>2, <2>3, PlacesAre DEF GoodClient, Gos
    <3>2. \A i \in 1 .. n - 1 : d.input[i] = c.input[i]
      <4>1. \A i \in 1 .. n - 1 : i \in 1 .. Len(c.input)
        BY <1>1, <3>1
      <4> QED
        BY <1>1, <2>1, <4>1, AppendProperties
    <3>3. CASE /\ c.at = c.asked
               /\ \A i \in 1 .. n - 1 : c.input[i].line # "position"
      BY <2>1, <3>2, <3>3 DEF Asks
    <3>4. CASE \E j \in 1 .. n - 1 :
                 /\ c.input[j].line = "position"
                 /\ c.input[j].position = c.asked
                 /\ \A i \in j + 1 .. n - 1 : c.input[i].line # "position"
      <4>1. PICK j \in 1 .. n - 1 :
              /\ c.input[j].line = "position" /\ c.input[j].position = c.asked
              /\ \A i \in j + 1 .. n - 1 : c.input[i].line # "position"
        BY <3>4
      <4>2. \A i \in j + 1 .. n - 1 : i \in 1 .. n - 1
        BY <3>1, <4>1
      <4> QED
        BY <2>1, <3>2, <4>1, <4>2 DEF Asks
    <3> QED
      BY <3>1, <3>3, <3>4 DEF Asks
  <2>4. Quiet(d) <=> Quiet(c)
    BY <2>2 DEF Quiet
  <2>5. GoodClient(d)
    BY <1>2, <2>1, <2>2, <2>3, <2>4 DEF GoodClient
  <2> QED
    BY <2>1, <2>5 DEF d
<1>3. CASE ~ (c.child /\ c.alive)
  <2>1. ~ c.alive /\ c.input = <<>>
    BY <1>3 DEF GoodClient
  <2>2. /\ d \in Clients /\ d.alive = c.alive /\ d.child = c.child
        /\ d.input = c.input /\ d.output = c.output
        /\ d.channel = c.channel /\ d.asked = c.asked
        /\ d.searching = FALSE
    BY <1>1, <1>3 DEF Sent, Clients
  <2>3. GoodClient(d)
    BY <2>1, <2>2, DeadIsGood
  <2> QED
    BY <1>3, <2>2, <2>3
<1> QED
  BY <1>2, <1>3

\* r is the client c after it was told the position of b, or without a child.
WasSent(r, c, b) ==
  /\ GoodClient(r)
  /\ r.searching = c.searching \/ r.searching = FALSE
  /\ r.child => /\ r.alive /\ r.input # <<>>
                /\ r.input[Len(r.input)].line = "position"
                /\ r.input[Len(r.input)].position = b.position

\* After SendPosition a child that is there has the position of the board as
\* the last line of its input.
LEMMA PositionSentIsGood ==
  ASSUME NEW c, GoodClient(c), NEW b, GoodBoard(b), NEW mayFail,
         NEW r \in SendPosition(c, b, mayFail)
  PROVE  WasSent(r, c, b)
<1> DEFINE line == PositionLine(b)
<1>1. /\ line \in Lines /\ line.line = "position" /\ line.position = b.position
  <2>1. line = [line |-> "position", position |-> b.position]
    BY ToldIsBoard DEF PositionLine
  <2>2. b.position \in ValidPositions
    BY DEF GoodBoard, Boards
  <2> HIDE DEF line
  <2> QED
    BY <2>1, <2>2 DEF Lines
<1>2. PICK i \in EnsureReady(c, mayFail) :
        r = IF i.child THEN Sent(i, line) ELSE i
  BY DEF SendPosition
<1> HIDE DEF line
<1>3. /\ GoodClient(i)
      /\ i.child => i.alive
      /\ i.searching = c.searching \/ i.searching = FALSE
  BY <1>2, ReadyIsGood
<1>4. CASE i.child
  <2>1. /\ GoodClient(r) /\ r.alive = i.alive
        /\ r.searching = i.searching \/ r.searching = FALSE
        /\ r.input = Append(i.input, line)
    BY <1>1, <1>2, <1>3, <1>4, SentIsGood
  <2>2. i.input \in Seq(Lines)
    BY <1>3 DEF GoodClient, Clients
  <2>3. r.input # <<>> /\ r.input[Len(r.input)] = line
    BY <1>1, <2>1, <2>2, AppendProperties
  <2> QED
    BY <1>1, <1>3, <1>4, <2>1, <2>3 DEF WasSent
<1>5. CASE ~ i.child
  BY <1>2, <1>3, <1>5 DEF WasSent
<1> QED
  BY <1>4, <1>5

\* The window asks for a move only when nothing is on its way.
LEMMA AskedIsGood ==
  ASSUME NEW r, GoodClient(r), NEW b, GoodBoard(b), ~ r.searching, r.child,
         r.alive, r.input # <<>>,
         r.input[Len(r.input)].line = "position",
         r.input[Len(r.input)].position = b.position
  PROVE  GoodClient([Sent(r, GoLine) EXCEPT !.searching = TRUE,
                                            !.asked = b.position])
<1> DEFINE d == [Sent(r, GoLine) EXCEPT !.searching = TRUE,
                                        !.asked = b.position]
           L == Len(r.input)
<1>1. /\ r \in Clients /\ r.input \in Seq(Lines) /\ L \in Nat \ {0}
      /\ b.position \in ValidPositions
  BY EmptySeq DEF GoodClient, Clients, GoodBoard, Boards
<1> HIDE DEF L
<1>2. /\ d \in Clients /\ d.alive = TRUE /\ d.child = TRUE
      /\ d.input = Append(r.input, GoLine) /\ d.output = r.output
      /\ d.channel = r.channel /\ d.asked = b.position
      /\ d.searching = TRUE /\ d.lost = r.lost
  <2>1. Append(r.input, GoLine) \in Seq(Lines)
    BY <1>1, AppendProperties, LineKinds
  <2>2. r.alive = TRUE /\ r.child = TRUE
    BY <1>1 DEF Clients
  <2>3. Sent(r, GoLine) = [r EXCEPT !.input = Append(@, GoLine)]
    BY DEF Sent
  <2> QED
    BY <1>1, <2>1, <2>2, <2>3 DEF Clients
<1>3. Quiet(r) /\ ~ r.lost
  BY DEF GoodClient
<1> HIDE DEF d
<1>4. Gos(d) = {L + 1} /\ Written(d) = {} /\ Delivered(d) = {}
  <2>1. Gos(d) = {} \cup {L + 1}
    BY <1>1, <1>2, <1>3, PlacesAre, LineKinds DEF Gos, Quiet, L
  <2> QED
    BY <1>2, <1>3, <2>1 DEF Quiet, Written, Delivered
<1>5. Asks(d, L + 1)
  <2>1. d.input[L] = r.input[L]
    BY <1>1, <1>2, AppendProperties, LineKinds DEF L
  <2>2. L \in 1 .. (L + 1) - 1 /\ \A i \in L + 1 .. (L + 1) - 1 : FALSE
    BY <1>1
  <2> QED
    BY <1>2, <2>1, <2>2 DEF Asks, L
<1>6. \A n \in 1 .. Len(d.channel) : d.channel[n].line = "bestmove"
  BY <1>2 DEF GoodClient
<1>7. ~ Quiet(d)
  BY <1>4 DEF Quiet
<1>8. GoodClient(d)
  BY <1>2, <1>3, <1>4, <1>5, <1>6, <1>7 DEF GoodClient, Single
<1> QED
  BY <1>8 DEF d

\* The child has read its first line and gone on.
LEMMA ReadOnIsGood ==
  ASSUME NEW c, GoodClient(c), c.alive, c.input # <<>>,
         c.input[1].line # "go", NEW at \in ValidPositions,
         IF c.input[1].line = "position" THEN at = c.input[1].position
         ELSE at = c.at
  PROVE  GoodClient([c EXCEPT !.input = Tail(@), !.at = at])
<1> DEFINE d == [c EXCEPT !.input = Tail(@), !.at = at]
           L == Len(c.input)
<1>1. c \in Clients /\ c.input \in Seq(Lines) /\ L \in Nat \ {0}
  BY EmptySeq DEF GoodClient, Clients
<1>2. /\ Tail(c.input) \in Seq(Lines) /\ Len(Tail(c.input)) = L - 1
      /\ \A n \in 1 .. L - 1 : Tail(c.input)[n] = c.input[n + 1]
  BY <1>1, HeadTailProperties
<1>3. /\ d \in Clients /\ d.alive = c.alive /\ d.child = c.child
      /\ d.input = Tail(c.input) /\ d.output = c.output
      /\ d.channel = c.channel /\ d.asked = c.asked /\ d.at = at
      /\ d.searching = c.searching /\ d.lost = c.lost
  BY <1>1, <1>2 DEF Clients
<1> HIDE DEF d, L
<1>4. \A n : n \in Gos(d) <=> n \in 1 .. L - 1 /\ n + 1 \in Gos(c)
  BY <1>1, <1>3, PlacesAre DEF Gos, L
<1>5. \A n \in Gos(c) : n \in 1 .. L /\ n # 1
  BY <1>1, PlacesAre DEF Gos, L
<1>6. Gos(d) = {} <=> Gos(c) = {}
  <2>1. \A n \in Gos(c) : n - 1 \in 1 .. L - 1 /\ n - 1 + 1 = n
    BY <1>1, <1>5
  <2>2. \A n \in Gos(c) : n - 1 \in Gos(d)
    BY <1>4, <2>1
  <2> QED
    BY <1>4, <2>2
<1>7. Single(Gos(d))
  <2>1. SUFFICES ASSUME NEW x \in Gos(d), NEW y \in Gos(d) PROVE x = y
    BY DEF Single
  <2>2. x + 1 = y + 1
    BY <1>4 DEF GoodClient, Single
  <2>3. x \in 1 .. L - 1 /\ y \in 1 .. L - 1
    BY <1>4
  <2> QED
    BY <2>2, <2>3
<1>8. Written(d) = Written(c) /\ Delivered(d) = Delivered(c)
  BY <1>3 DEF Written, Delivered
<1>9. Quiet(d) <=> Quiet(c)
  BY <1>6, <1>8 DEF Quiet
<1>10. ASSUME NEW n \in Gos(d) PROVE Asks(d, n)
  <2>1. n \in 1 .. L - 1 /\ n + 1 \in Gos(c) /\ Asks(c, n + 1)
    BY <1>4 DEF GoodClient
  <2>2. \A i \in 1 .. n - 1 : /\ i + 1 \in 1 .. (n + 1) - 1
                              /\ d.input[i] = c.input[i + 1]
    BY <1>1, <1>2, <1>3, <2>1
  <2>3. 1 \in 1 .. (n + 1) - 1
    BY <2>1
  <2>4. CASE /\ c.at = c.asked
             /\ \A i \in 1 .. (n + 1) - 1 : c.input[i].line # "position"
    <3>1. at = c.at
      BY <2>3, <2>4
    <3> QED
      BY <1>3, <2>2, <2>4, <3>1 DEF Asks
  <2>5. CASE \E j \in 1 .. (n + 1) - 1 :
               /\ c.input[j].line = "position" /\ c.input[j].position = c.asked
               /\ \A i \in j + 1 .. (n + 1) - 1 : c.input[i].line # "position"
    <3>1. PICK j \in 1 .. (n + 1) - 1 :
            /\ c.input[j].line = "position" /\ c.input[j].position = c.asked
            /\ \A i \in j + 1 .. (n + 1) - 1 : c.input[i].line # "position"
      BY <2>5
    <3>2. CASE j = 1
      <4>1. at = c.asked
        BY <3>1, <3>2
      <4>2. \A i \in 1 .. n - 1 : i + 1 \in j + 1 .. (n + 1) - 1
        BY <2>1, <3>2
      <4>3. \A i \in 1 .. n - 1 : d.input[i].line # "position"
        BY <2>2, <3>1, <4>2
      <4> QED
        BY <1>3, <4>1, <4>3 DEF Asks
    <3>3. CASE j # 1
      <4>1. j - 1 \in 1 .. n - 1 /\ (j - 1) + 1 = j
        BY <2>1, <3>1, <3>3
      <4>2. d.input[j - 1] = c.input[j]
        BY <2>2, <4>1
      <4>3. \A i \in (j - 1) + 1 .. n - 1 :
              i \in 1 .. n - 1 /\ i + 1 \in j + 1 .. (n + 1) - 1
        BY <2>1, <3>1, <4>1
      <4>4. \A i \in (j - 1) + 1 .. n - 1 : d.input[i].line # "position"
        BY <2>2, <3>1, <4>3
      <4> QED
        BY <1>3, <3>1, <4>1, <4>2, <4>4 DEF Asks
    <3> QED
      BY <3>2, <3>3
  <2> QED
    BY <2>1, <2>4, <2>5 DEF Asks
<1>11. GoodClient(d)
  BY <1>3, <1>6, <1>7, <1>8, <1>9, <1>10 DEF GoodClient
<1> QED
  BY <1>11 DEF d

\* The child answers the go it reads.
LEMMA AnsweredIsGood ==
  ASSUME NEW c, GoodClient(c), c.alive, c.input # <<>>,
         c.input[1].line = "go", NEW text \in MoveTexts
  PROVE  GoodClient([c EXCEPT !.input = Tail(@),
                              !.output = Append(@, BestMove(text, c.at))])
<1> DEFINE e == BestMove(text, c.at)
           d == [c EXCEPT !.input = Tail(@), !.output = Append(@, e)]
           L == Len(c.input)
<1>1. /\ c \in Clients /\ c.input \in Seq(Lines) /\ L \in Nat \ {0}
      /\ c.output \in Seq(Bestmoves) /\ c.at \in ValidPositions
  BY EmptySeq DEF GoodClient, Clients
<1>2. e \in Bestmoves /\ e.line = "bestmove" /\ e.of = c.at
  BY <1>1 DEF BestMove, Bestmoves
<1> HIDE DEF e
<1>3. /\ Tail(c.input) \in Seq(Lines) /\ Append(c.output, e) \in Seq(Bestmoves)
      /\ Append(c.output, e)[Len(c.output) + 1] = e
  BY <1>1, <1>2, HeadTailProperties, AppendProperties
<1>4. /\ d \in Clients /\ d.alive = c.alive /\ d.child = c.child
      /\ d.input = Tail(c.input) /\ d.output = Append(c.output, e)
      /\ d.channel = c.channel /\ d.asked = c.asked
      /\ d.searching = c.searching /\ d.lost = c.lost
  BY <1>1, <1>3 DEF Clients
<1> HIDE DEF d, L
<1>5. 1 \in Gos(c)
  <2>1. 1 \in 1 .. Len(c.input)
    BY <1>1 DEF L
  <2> QED
    BY <1>1, <2>1, PlacesAre DEF Gos
<1>6. Written(c) = {} /\ Delivered(c) = {} /\ ~ Quiet(c)
  BY <1>5 DEF GoodClient, Quiet
<1>7. Gos(d) = {}
  <2>1. \A n : n \in Gos(d) <=> n \in 1 .. L - 1 /\ n + 1 \in Gos(c)
    BY <1>1, <1>4, PlacesAre DEF Gos, L
  <2>2. ASSUME NEW n \in Gos(d) PROVE FALSE
    <3>1. n + 1 = 1
      BY <1>5, <2>1 DEF GoodClient, Single
    <3>2. n \in 1 .. L - 1
      BY <2>1
    <3> QED
      BY <3>1, <3>2
  <2> QED
    BY <2>2
<1>8. Written(d) = {Len(c.output) + 1} /\ Delivered(d) = {}
  <2>1. Places(Append(c.output, e), "bestmove") =
          Places(c.output, "bestmove") \cup {Len(c.output) + 1}
    BY <1>1, <1>2, PlacesAre
  <2> QED
    BY <1>4, <1>6, <2>1 DEF Written, Delivered
<1>9. c.at = c.asked
  <2>1. Asks(c, 1)
    BY <1>5 DEF GoodClient
  <2>2. \A j \in 1 .. 1 - 1 : FALSE
    OBVIOUS
  <2> QED
    BY <2>1, <2>2 DEF Asks
<1>10. ~ Quiet(d)
  BY <1>8 DEF Quiet
<1>11. \A n \in Written(d) : d.output[n].of = d.asked
  BY <1>2, <1>3, <1>4, <1>8, <1>9
<1>12. Single(Gos(d)) /\ Single(Written(d)) /\ Single(Delivered(d))
  BY <1>7, <1>8 DEF Single
<1>13. GoodClient(d)
  BY <1>4, <1>6, <1>7, <1>8, <1>10, <1>11, <1>12 DEF GoodClient
<1> QED
  BY <1>13 DEF d, e

\* An answer goes from the child's output to the channel.
LEMMA DeliveredIsGood ==
  ASSUME NEW c, GoodClient(c), c.output # <<>>
  PROVE  GoodClient([c EXCEPT !.output = Tail(@),
                              !.channel = Append(@, Head(c.output))])
<1> DEFINE e == Head(c.output)
           d == [c EXCEPT !.output = Tail(@), !.channel = Append(@, e)]
<1>1. /\ c \in Clients /\ c.output \in Seq(Bestmoves)
      /\ c.channel \in Seq(Events) /\ Len(c.output) \in Nat \ {0}
      /\ Len(c.channel) \in Nat
  BY EmptySeq DEF GoodClient, Clients
<1>2. /\ e \in Bestmoves /\ e \in Events /\ e.line = "bestmove"
      /\ e = c.output[1]
  <2>1. e \in Bestmoves
    BY <1>1, HeadTailProperties
  <2>2. e = c.output[1]
    OBVIOUS
  <2> HIDE DEF e
  <2> QED
    BY <2>1, <2>2, LineKinds
<1>3. /\ Tail(c.output) \in Seq(Bestmoves)
      /\ \A n \in 1 .. Len(c.output) : n \in Written(c)
  <2>1. \A n \in 1 .. Len(c.output) : c.output[n].line = "bestmove"
    BY <1>1, ElementOfSeq, LineKinds
  <2> QED
    BY <1>1, <2>1, HeadTailProperties, PlacesAre DEF Written
<1> HIDE DEF e
<1>4. /\ Append(c.channel, e) \in Seq(Events)
      /\ Len(Append(c.channel, e)) = Len(c.channel) + 1
      /\ \A n \in 1 .. Len(c.channel) : Append(c.channel, e)[n] = c.channel[n]
      /\ Append(c.channel, e)[Len(c.channel) + 1] = e
  BY <1>1, <1>2, AppendProperties
<1>5. /\ d \in Clients /\ d.alive = c.alive /\ d.child = c.child
      /\ d.input = c.input /\ d.output = Tail(c.output)
      /\ d.channel = Append(c.channel, e) /\ d.asked = c.asked /\ d.at = c.at
      /\ d.searching = c.searching /\ d.lost = c.lost
  BY <1>1, <1>3, <1>4 DEF Clients
<1> HIDE DEF d
<1>6. 1 \in Written(c) /\ c.output[1].of = c.asked
  <2>1. 1 \in 1 .. Len(c.output)
    BY <1>1
  <2> QED
    BY <1>3, <2>1 DEF GoodClient
<1>7. Gos(c) = {} /\ Delivered(c) = {} /\ ~ Quiet(c)
  BY <1>6 DEF GoodClient, Quiet
<1>8. Gos(d) = {}
  BY <1>5, <1>7 DEF Gos
<1>9. Written(d) = {}
  <2>1. \A n : n \in Written(d) <=>
          n \in 1 .. Len(c.output) - 1 /\ n + 1 \in Written(c)
    BY <1>1, <1>5, PlacesAre DEF Written
  <2>2. ASSUME NEW n \in Written(d) PROVE FALSE
    <3>1. n + 1 = 1 /\ n \in 1 .. Len(c.output) - 1
      BY <1>6, <2>1 DEF GoodClient, Single
    <3> QED
      BY <3>1
  <2> QED
    BY <2>2
<1>10. Delivered(d) = {Len(c.channel) + 1}
  <2>1. Places(Append(c.channel, e), "bestmove") =
          Places(c.channel, "bestmove") \cup {Len(c.channel) + 1}
    BY <1>1, <1>2, PlacesAre
  <2> QED
    BY <1>5, <1>7, <2>1 DEF Delivered
<1>11. ~ Quiet(d)
  BY <1>10 DEF Quiet
<1>12. \A n \in Delivered(d) : d.channel[n].of = d.asked
  BY <1>2, <1>4, <1>5, <1>6, <1>10
<1>13. d.alive => \A n \in 1 .. Len(d.channel) : d.channel[n].line = "bestmove"
  <2>1. SUFFICES ASSUME c.alive, NEW n \in 1 .. Len(c.channel) + 1
                 PROVE  Append(c.channel, e)[n].line = "bestmove"
    BY <1>4, <1>5
  <2>2. CASE n = Len(c.channel) + 1
    BY <1>2, <1>4, <2>2
  <2>3. CASE n # Len(c.channel) + 1
    <3>1. n \in 1 .. Len(c.channel)
      BY <1>1, <2>3
    <3> QED
      BY <1>4, <2>1, <3>1 DEF GoodClient
  <2> QED
    BY <2>2, <2>3
<1>14. Single(Gos(d)) /\ Single(Written(d)) /\ Single(Delivered(d))
  BY <1>8, <1>9, <1>10 DEF Single
<1>15. /\ d.alive => d.child
       /\ ~ d.alive => d.input = <<>>
       /\ ~ (d.alive /\ d.lost)
       /\ d.alive => d.searching
  BY <1>5, <1>7 DEF GoodClient
<1>16. GoodClient(d)
  BY <1>5, <1>8, <1>9, <1>11, <1>12, <1>13, <1>14, <1>15 DEF GoodClient
<1> QED
  BY <1>16 DEF d, e

\* The child has died; a last word on stderr is no answer.
LEMMA DiedIsGood ==
  ASSUME NEW c, GoodClient(c), NEW words \in {<<>>, <<Stderr>>}
  PROVE  GoodClient([c EXCEPT !.alive = FALSE, !.input = <<>>,
                              !.channel = @ \o words])
<1> DEFINE d == [c EXCEPT !.alive = FALSE, !.input = <<>>,
                          !.channel = @ \o words]
<1>1. c \in Clients /\ c.channel \in Seq(Events) /\ <<>> \in Seq(Lines)
  BY DEF GoodClient, Clients
<1> DEFINE e == Stderr
<1>0. e \in Events /\ e.line # "bestmove"
  BY LineKinds
<1> HIDE DEF e
<1>2. c.channel \o words \in {c.channel, Append(c.channel, e)}
  <2>1. c.channel \o <<>> = c.channel
    BY <1>1, ConcatEmptySeq
  <2>2. Append(c.channel, e) = c.channel \o <<e>>
    BY <1>0, <1>1, AppendIsConcat
  <2> QED
    BY <2>1, <2>2 DEF e
<1>3. c.channel \o words \in Seq(Events)
  <2>1. Append(c.channel, e) \in Seq(Events)
    BY <1>0, <1>1, AppendProperties
  <2> QED
    BY <1>1, <1>2, <2>1
<1>4. /\ d \in Clients /\ d.alive = FALSE /\ d.input = <<>>
      /\ d.output = c.output /\ d.channel = c.channel \o words
      /\ d.asked = c.asked
  BY <1>1, <1>3 DEF Clients
<1> HIDE DEF d
<1>5. Gos(d) = {} /\ Written(d) = Written(c)
  BY <1>4, NoPlaces DEF Gos, Written
<1>6. Delivered(d) = Delivered(c)
  <2>1. Places(Append(c.channel, e), "bestmove") =
          Places(c.channel, "bestmove")
            \cup (IF e.line = "bestmove" THEN {Len(c.channel) + 1} ELSE {})
    BY <1>0, <1>1, PlacesAre
  <2> QED
    BY <1>0, <1>2, <1>4, <2>1 DEF Delivered
<1>7. \A n \in Delivered(d) : d.channel[n].of = d.asked
  <2>1. \A n \in Delivered(c) : n \in 1 .. Len(c.channel)
    BY <1>1, PlacesAre DEF Delivered
  <2>2. \A n \in 1 .. Len(c.channel) :
          Append(c.channel, e)[n] = c.channel[n]
    BY <1>0, <1>1, AppendProperties
  <2>3. \A n \in Delivered(c) : d.channel[n] = c.channel[n]
    BY <1>2, <1>4, <2>1, <2>2
  <2> QED
    BY <1>4, <1>6, <2>3 DEF GoodClient
<1>8. GoodClient(d)
  BY <1>4, <1>5, <1>6, <1>7 DEF GoodClient, Single
<1> QED
  BY <1>8 DEF d

\* The events of a frame and then the child's exit.
LEMMA PolledIsGood ==
  ASSUME NEW c, GoodClient(c), NEW searching,
         searching = (c.searching /\ Len(c.channel) = 0)
  PROVE  GoodClient(Reaped([c EXCEPT !.channel = <<>>,
                                     !.searching = searching]))
<1> DEFINE d == [c EXCEPT !.channel = <<>>, !.searching = searching]
           r == [d EXCEPT !.child = FALSE, !.searching = FALSE]
<1>1. c \in Clients /\ c.channel \in Seq(Events) /\ <<>> \in Seq(Events)
  BY DEF GoodClient, Clients
<1>2. (Len(c.channel) = 0) <=> c.channel = <<>>
  BY <1>1, EmptySeq
<1>3. searching = (c.searching /\ c.channel = <<>>) /\ searching \in BOOLEAN
  BY <1>2
<1>4. /\ d \in Clients /\ d.alive = c.alive /\ d.child = c.child
      /\ d.input = c.input /\ d.output = c.output
      /\ d.channel = <<>> /\ d.asked = c.asked /\ d.at = c.at
      /\ d.searching = searching /\ d.lost = c.lost
  <2> HIDE DEF d
  <2>1. d = [c EXCEPT !.channel = <<>>, !.searching = searching]
    BY DEF d
  <2> QED
    BY <1>1, <1>3, <2>1 DEF Clients
<1> HIDE DEF d
<1>5. GoodClient(d)
  BY <1>3, <1>4, DrainedIsGood
<1>6. ASSUME ~ d.alive PROVE GoodClient(r)
  <2>1. /\ r \in Clients /\ r.alive = d.alive /\ r.input = d.input
        /\ r.output = d.output /\ r.channel = d.channel /\ r.asked = d.asked
    BY <1>4 DEF Clients
  <2>2. d.input = <<>>
    BY <1>5, <1>6 DEF GoodClient
  <2> HIDE DEF r
  <2> QED
    BY <1>5, <1>6, <2>1, <2>2, DeadIsGood
<1>7. GoodClient(Reaped(d))
  BY <1>5, <1>6 DEF Reaped
<1> QED
  BY <1>7 DEF d

-----------------------------------------------------------------------------
(* The invariant and the theorems.                                         *)

\* The board is one game of valid positions with input that belongs to it,
\* and at most one search is asked for, under way or answered.
IInv == GoodBoard(board) /\ GoodClient(client)

LEMMA InitIsGood ==
  ASSUME Init
  PROVE  IInv
<1>1. GoodBoard(board)
  BY StartsValid, FreshIsGood DEF Init
<1>2. GoodClient(NoClient)
  <2>1. /\ <<>> \in Seq(Lines) /\ <<>> \in Seq(Bestmoves)
        /\ <<>> \in Seq(Events) /\ Startpos \in ValidPositions
    BY StartsValid
  <2>2. /\ NoClient \in Clients /\ NoClient.alive = FALSE
        /\ NoClient.input = <<>> /\ NoClient.output = <<>>
        /\ NoClient.channel = <<>> /\ NoClient.searching = FALSE
        /\ NoClient.lost = FALSE
    BY <2>1 DEF NoClient, Clients
  <2> QED
    BY <2>2, StartedIsGood
<1> QED
  BY <1>1, <1>2 DEF Init, IInv

LEMMA ToldIsGood ==
  ASSUME IInv, NEW b, GoodBoard(b), Tell(b)
  PROVE  IInv'
<1>1. GoodClient(client')
  BY PositionSentIsGood DEF IInv, Tell, WasSent
<1> QED
  BY <1>1 DEF Tell, IInv

LEMMA KeptIsGood ==
  ASSUME IInv, NEW b, GoodBoard(b), Keep(b)
  PROVE  IInv'
BY DEF Keep, IInv

LEMMA RequestIsGood ==
  ASSUME IInv, Request
  PROVE  IInv'
<1>1. board' = board
  BY DEF Request
<1>2. CASE ~ IsEngineTurn(board) \/ client.searching
  BY <1>1, <1>2 DEF Request, IInv
<1>3. CASE IsEngineTurn(board) /\ ~ client.searching
  <2>1. PICK r \in SendPosition(client, board, game.faults > 0) :
          client' = IF r.child
                    THEN [Sent(r, GoLine) EXCEPT
                            !.searching = TRUE, !.asked = board.position]
                    ELSE r
    BY <1>3 DEF Request
  <2>2. /\ GoodClient(r) /\ ~ r.searching
        /\ r.child => /\ r.alive /\ r.input # <<>>
                      /\ r.input[Len(r.input)].line = "position"
                      /\ r.input[Len(r.input)].position = board.position
    <3>1. /\ GoodClient(r)
          /\ r.searching = client.searching \/ r.searching = FALSE
          /\ r.child => /\ r.alive /\ r.input # <<>>
                        /\ r.input[Len(r.input)].line = "position"
                        /\ r.input[Len(r.input)].position = board.position
      <4>1. GoodClient(client) /\ GoodBoard(board)
        BY DEF IInv
      <4>2. PICK fails : r \in SendPosition(client, board, fails)
        BY <2>1
      <4>3. WasSent(r, client, board)
        BY <4>1, <4>2, PositionSentIsGood
      <4> QED
        BY <4>3 DEF WasSent
    <3> QED
      BY <1>3, <3>1
  <2>3. CASE r.child
    <3>1. GoodClient([Sent(r, GoLine) EXCEPT
                        !.searching = TRUE, !.asked = board.position])
      BY <2>2, <2>3, AskedIsGood DEF IInv
    <3> QED
      BY <1>1, <2>1, <2>3, <3>1 DEF IInv
  <2>4. CASE ~ r.child
    BY <1>1, <2>1, <2>2, <2>4 DEF IInv
  <2> QED
    BY <2>3, <2>4
<1> QED
  BY <1>2, <1>3

LEMMA PollIsGood ==
  ASSUME IInv, Poll
  PROVE  IInv'
<1> DEFINE seen == Handled([board |-> board, searching |-> client.searching],
                           client.channel)
<1>1. Len(client.channel) \in Nat /\ client.searching \in BOOLEAN
  BY DEF IInv, GoodClient, Clients
<1>2. /\ GoodBoard(seen.board)
      /\ seen.searching = (client.searching /\ Len(client.channel) = 0)
  BY <1>1, HandledIsGood DEF IInv
<1> HIDE DEF seen
<1>3. /\ board' = seen.board
      /\ client' = Reaped([client EXCEPT !.channel = <<>>,
                                         !.searching = seen.searching])
  BY DEF Poll, seen
<1>4. GoodClient(client')
  BY <1>2, <1>3, PolledIsGood DEF IInv
<1> QED
  BY <1>2, <1>3, <1>4 DEF IInv

LEMMA EngineReadsIsGood ==
  ASSUME IInv, EngineReads
  PROVE  IInv'
<1> DEFINE c == client
           legal == LegalMoves(c.at)
<1>1. /\ board' = board /\ c.alive /\ c.input # <<>>
      /\ Head(c.input) = c.input[1] /\ GoodClient(c) /\ GoodBoard(board)
  <2>1. Head(c.input) = c.input[1]
    OBVIOUS
  <2> QED
    BY <2>1 DEF EngineReads, IInv
<1>2. /\ c \in Clients /\ c.input \in Seq(Lines) /\ c.at \in ValidPositions
      /\ c.input[1] \in Lines
  <2>1. c \in Clients /\ c.input \in Seq(Lines) /\ c.at \in ValidPositions
    BY <1>1 DEF GoodClient, Clients
  <2>2. 1 \in 1 .. Len(c.input)
    BY <1>1, <2>1, EmptySeq
  <2> QED
    BY <2>1, <2>2, ElementOfSeq
<1>3. CASE /\ c.input[1].line = "position"
           /\ client' = [c EXCEPT !.input = Tail(@), !.at = c.input[1].position]
  <2>1. c.input[1].position \in ValidPositions /\ c.input[1].line # "go"
    BY <1>2, <1>3, LineKinds
  <2>2. GoodClient(client')
    BY <1>1, <1>3, <2>1, ReadOnIsGood
  <2> QED
    BY <1>1, <2>2 DEF IInv
<1>4. CASE /\ c.input[1].line = "go"
           /\ \E text \in IF legal = {} THEN {NoMove}
                          ELSE {Text(m) : m \in legal} :
                client' = [c EXCEPT !.input = Tail(@),
                                    !.output = Append(@, BestMove(text, c.at))]
  <2>1. ASSUME NEW m \in legal PROVE Text(m) \in MoveTexts
    BY <1>2, LegalMovesValid DEF Text, MoveTexts, Moves
  <2>2. NoMove \in MoveTexts
    BY DEF NoMove, MoveTexts
  <2>3. PICK text \in MoveTexts :
          client' = [c EXCEPT !.input = Tail(@),
                              !.output = Append(@, BestMove(text, c.at))]
    BY <1>4, <2>1, <2>2
  <2>4. GoodClient(client')
    BY <1>1, <1>4, <2>3, AnsweredIsGood
  <2> QED
    BY <1>1, <2>4 DEF IInv
<1>5. CASE c.input[1].line = "stop" /\ client' = [c EXCEPT !.input = Tail(@)]
  <2>1. client' = [c EXCEPT !.input = Tail(@), !.at = c.at]
    BY <1>2, <1>5 DEF Clients
  <2>2. c.input[1].line # "go" /\ c.input[1].line # "position"
    BY <1>5
  <2>3. GoodClient(client')
    BY <1>1, <1>2, <2>1, <2>2, ReadOnIsGood
  <2> QED
    BY <1>1, <2>3 DEF IInv
<1> QED
  BY <1>1, <1>3, <1>4, <1>5 DEF EngineReads

LEMMA PlayIsGood ==
  ASSUME IInv, Play
  PROVE  IInv'
<1>1. GoodBoard(board) /\ GoodClient(client) /\ board.mode \in Modes
  BY DEF IInv, GoodBoard, Boards
<1>2. CASE ClickBoard
  <2>1. PICK s \in Squares :
          LET b == ClickSquare(board, s, LegalMoves(board.position))
          IN Tell(b) \/ Keep(b)
    BY <1>2 DEF ClickBoard
  <2>2. GoodBoard(ClickSquare(board, s, LegalMoves(board.position)))
    BY <1>1, ClickedIsGood
  <2> QED
    BY <2>1, <2>2, ToldIsGood, KeptIsGood
<1>3. CASE PickPromotion
  <2>1. PICK kind :
          LET b == ChoosePromotion(board, kind, LegalMoves(board.position))
          IN Tell(b) \/ Keep(b)
    BY <1>3 DEF PickPromotion
  <2>2. GoodBoard(ChoosePromotion(board, kind, LegalMoves(board.position)))
    BY <1>1, PromotedIsGood
  <2> QED
    BY <2>1, <2>2, ToldIsGood, KeptIsGood
<1>4. CASE UndoMove
  <2>1. GoodBoard(Undo(board)) /\ Tell(Undo(board))
    BY <1>1, <1>4, UndoneIsGood DEF UndoMove
  <2> QED
    BY <2>1, ToldIsGood
<1>5. CASE NewGame
  <2>1. /\ GoodBoard(Fresh(Startpos, board.mode))
        /\ Tell(Fresh(Startpos, board.mode))
    BY <1>1, <1>5, StartsValid, FreshIsGood DEF NewGame
  <2> QED
    BY <2>1, ToldIsGood
<1>6. CASE ResignOrReset
  <2>1. GoodBoard(Resign(board)) /\ Tell(Resign(board))
    BY <1>1, <1>6, ResignedIsGood DEF ResignOrReset
  <2> QED
    BY <2>1, ToldIsGood
<1>7. CASE ChangeMode
  <2>1. PICK mode \in Modes : Keep(SetPlayMode(board, mode))
    BY <1>7 DEF ChangeMode
  <2>2. GoodBoard(SetPlayMode(board, mode))
    BY <1>1, ModeIsGood
  <2> QED
    BY <2>1, <2>2, KeptIsGood
<1>8. CASE StartEngine
  <2>1. board' = board /\ client' \in Restart(client, game.faults > 0)
    BY <1>8 DEF StartEngine
  <2>2. GoodClient(client')
    BY <1>1, <2>1, RestartIsGood
  <2> QED
    BY <1>1, <2>1, <2>2 DEF IInv
<1>9. CASE StopSearch
  <2>1. board' = board /\ client' = Sent(client, StopLine)
    BY <1>9 DEF StopSearch
  <2>2. StopLine \in Lines /\ StopLine.line # "go"
    BY LineKinds
  <2>3. GoodClient(client')
    BY <1>1, <2>1, <2>2, SentIsGood
  <2> QED
    BY <1>1, <2>1, <2>3 DEF IInv
<1> QED
  BY <1>2, <1>3, <1>4, <1>5, <1>6, <1>7, <1>8, <1>9 DEF Play

LEMMA StepIsGood ==
  ASSUME IInv, [Next]_vars
  PROVE  IInv'
<1>1. CASE Draw
  <2>1. CASE Idle
    BY <2>1 DEF Idle, IInv
  <2> QED
    BY <1>1, <2>1, PollIsGood, RequestIsGood DEF Draw
<1>2. CASE Deliver
  <2>1. GoodClient(client')
    BY <1>2, DeliveredIsGood DEF Deliver, IInv
  <2> QED
    BY <1>2, <2>1 DEF Deliver, IInv
<1>3. CASE Die
  <2>1. GoodClient(client')
    BY <1>3, DiedIsGood DEF Die, IInv
  <2> QED
    BY <1>3, <2>1 DEF Die, IInv
<1>4. CASE SecondPasses
  <2> DEFINE d == [client EXCEPT !.recent = FALSE]
  <2>1. client' = d /\ board' = board /\ GoodClient(client) /\ ~ client.alive
    BY <1>4 DEF SecondPasses, IInv
  <2>2. /\ d \in Clients /\ d.alive = client.alive /\ d.input = client.input
        /\ d.output = client.output /\ d.channel = client.channel
        /\ d.asked = client.asked
    BY <2>1 DEF GoodClient, Clients
  <2>3. client.input = <<>>
    BY <2>1 DEF GoodClient
  <2> HIDE DEF d
  <2>4. GoodClient(d)
    BY <2>1, <2>2, <2>3, DeadIsGood
  <2> QED
    BY <2>1, <2>4 DEF IInv
<1>5. CASE UNCHANGED vars
  BY <1>5 DEF vars, IInv
<1> QED
  BY <1>1, <1>2, <1>3, <1>4, <1>5, PlayIsGood, EngineReadsIsGood DEF Next

\* What holds in every state: see IInv.
THEOREM Invariant == Spec => []IInv
<1>1. Init => IInv
  BY InitIsGood
<1>2. IInv /\ [Next]_vars => IInv'
  BY StepIsGood
<1> QED
  BY <1>1, <1>2, PTL DEF Spec

\* Whatever is clicked, whatever the engine answers and whenever it dies,
\* the position on the board is one validate_position accepts.
THEOREM PositionsAlwaysValid == Spec => []PositionsStayValid
<1>1. IInv => PositionsStayValid
  BY DEF IInv, GoodBoard, Boards, ValidPositions, PositionsStayValid
<1> QED
  BY <1>1, Invariant, PTL

\* The moves generated from bitboards and rays, in whatever position play
\* leads to, are those of the rules: pins, checks, castling, en passant and
\* promotion included.
THEOREM MovesAlwaysFollowRules == Spec => []MovesFollowTheRules
<1>1. IInv => MovesFollowTheRules
  <2>1. SUFFICES ASSUME IInv
                 PROVE  {Text(m) : m \in LegalMoves(board.position)}
                          = MovesOfTheRules(board.position)
    BY DEF MovesFollowTheRules
  <2>2. board.position \in Positions /\ Valid(board.position)
    BY <2>1 DEF IInv, GoodBoard, Boards, ValidPositions
  <2> QED
    BY <2>2, LegalIsAllowed
<1> QED
  BY <1>1, Invariant, PTL

\* unmake_move takes back every legal move of every position on the board.
THEOREM UnmakeAlwaysRestores == Spec => []UnmakeRestores
<1>1. IInv => UnmakeRestores
  <2>1. SUFFICES ASSUME IInv, NEW m \in LegalMoves(board.position)
                 PROVE  Unmake(Make(board.position, m), m,
                               UndoOf(board.position, m)) = board.position
    BY DEF UnmakeRestores
  <2>2. board.position \in Positions /\ Valid(board.position)
    BY <2>1 DEF IInv, GoodBoard, Boards, ValidPositions
  <2>3. Coherent(board.position) /\ Possible(board.position, m)
    BY <2>1, <2>2, ValidAfter DEF Coherent, Valid
  <2> QED
    BY <2>3, UnmakeUndoesMake
<1> QED
  BY <1>1, Invariant, PTL

\* The board, the positions undo goes back through and the moves the engine
\* is told are one game, and what is selected belongs to the position.
THEOREM BoardAlwaysOneGame == Spec => []BoardIsOneGame
<1>1. IInv => BoardIsOneGame
  <2>1. SUFFICES ASSUME GoodBoard(board) PROVE BoardIsOneGame
    BY DEF IInv
  <2>2. DOMAIN board.moves = 1 .. Len(board.moves)
    BY <2>1 DEF GoodBoard, Boards
  <2>3. PositionOf(board) = board.position
    BY <2>1, ToldIsBoard
  <2> QED
    BY <2>1, <2>2, <2>3 DEF GoodBoard, Follow, OneGame, BoardIsOneGame
<1> QED
  BY <1>1, Invariant, PTL

\* The engine is never asked again before it has answered, and an answer is
\* for the position that was asked about.
THEOREM AlwaysOneSearch == Spec => []OneSearchAtATime
<1>1. IInv => OneSearchAtATime
  BY GoodIsOne DEF IInv
<1> QED
  BY <1>1, Invariant, PTL
=============================================================================
