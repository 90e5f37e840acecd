----------------------------- MODULE MCLocalBoard -----------------------------
(* Instances of LocalBoard for TLC: small positions in which castling, en   *)
(* passant, promotion, pins and checks all happen within a few plies, and   *)
(* the numbers of moves perft counts in one of the repository's fixtures    *)
(* (tests/fixtures/perft.epd), which say that the rules are chess's.        *)
EXTENDS LocalBoard

\* A position from its men, as <<colour, kind, square>>.
Position(side, men, castle, ep) ==
  Synced([side |-> side,
          pieces |-> [c \in Colors |-> [k \in Kinds |->
            {s \in Squares : <<c, k, s>> \in men}]],
          occupied |-> [c \in Colors |-> {}], castle |-> castle, ep |-> ep,
          halfmove |-> 0, fullmove |-> 1, hash |-> {}])

Man(c, k, squares) == {<<c, k, s>> : s \in squares}
White(k, squares) == Man("white", k, squares)
Black(k, squares) == Man("black", k, squares)
Everything == Colors \X Wings

\* Ka1, a7 - Kh8
Promoting ==
  Position("white", White("king", {0}) \cup White("pawn", {48})
             \cup Black("king", {63}), {}, NoSquare)

\* Ke1, Ra1, Rh1 - Ke8, Ra8, Rh8 with all rights.
Castling ==
  Position("white", White("king", {4}) \cup White("rook", {0, 7})
             \cup Black("king", {60}) \cup Black("rook", {56, 63}),
           Everything, NoSquare)

\* Ke1, Ra1, Rh1, b7 - Ke8, Ra8, Bc4: the bishop guards f1, the pawn takes on a8.
Guarded ==
  Position("white", White("king", {4}) \cup White("rook", {0, 7})
             \cup White("pawn", {49}) \cup Black("king", {60})
             \cup Black("rook", {56}) \cup Black("bishop", {26}),
           {<<"white", "kingside">>, <<"white", "queenside">>,
            <<"black", "queenside">>}, NoSquare)

\* Ka5, e5 - Kg7, Rh5, d7, black to move: after d7-d5 the pawn is pinned
\* along the rank.
Pinned ==
  Position("black", White("king", {32}) \cup White("pawn", {36})
             \cup Black("king", {54}) \cup Black("rook", {39})
             \cup Black("pawn", {51}), {}, NoSquare)

\* Kh1, c2 - Kh8, b4, white to move: c2-c4 may be taken in passing.
Passing ==
  Position("white", White("king", {7}) \cup White("pawn", {10})
             \cup Black("king", {63}) \cup Black("pawn", {25}), {}, NoSquare)

AGame(position, mode, controls, clicks, faults) ==
  [position |-> position, mode |-> mode, controls |-> controls,
   clicks |-> clicks, faults |-> faults]

ByHand == {"click", "promotion", "undo"}
Mixed ==
  {AGame(p, "both", ByHand, 2, 0) : p \in {Castling, Guarded, Pinned}}
    \cup {AGame(Passing, "both", ByHand, 4, 0),
          AGame(Promoting, "white", {"click", "promotion", "undo"}, 3, 1),
          AGame(Promoting, "both", {"click", "resign", "undo"}, 3, 0),
          AGame(Promoting, "black", {"mode", "start", "new", "stop", "resign"}, 2, 1)}

\* 8/2p5/3p4/KP5r/1R3p1k/8/4P1P1/8 w - -: pins, checks and double steps.
Endgame ==
  Position("white",
    White("king", {32}) \cup White("rook", {25}) \cup White("pawn", {12, 14, 33})
      \cup Black("king", {31}) \cup Black("rook", {39})
      \cup Black("pawn", {29, 43, 50}), {}, NoSquare)
MovesAfter(p) ==
  MapThenSumSet(LAMBDA m : Cardinality(LegalMoves(Make(p, m))), LegalMoves(p))
ASSUME PerftOfEndgame ==
  Cardinality(LegalMoves(Endgame)) = 14 /\ MovesAfter(Endgame) = 191
=============================================================================
