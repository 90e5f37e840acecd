------------------------------ MODULE MCSearch ------------------------------
(***************************************************************************)
(* Small games for Search.                                                 *)
(***************************************************************************)
EXTENDS Search, TLC

CONSTANTS none

Board8 == 1 .. 9
TwoSlots == {0, 1, 2}
ByRemainder == [p \in Board8 |-> p % 3]

\* moves and noisy list what they are not empty for.
From(lists) == [p \in Board8 |-> IF p \in DOMAIN lists THEN lists[p] ELSE {}]

\* Transpositions, captures, checks and a mate; every move leads one ply on.
Layered(evals, check, noisy) ==
  [root |-> 1,
   moves |-> From(1 :> {2, 3} @@ 2 :> {4, 5} @@ 3 :> {4, 6} @@ 4 :> {7, 8}
                  @@ 5 :> {8} @@ 6 :> {7} @@ 8 :> {9}),
   noisy |-> From(noisy),
   check |-> check,
   eval  |-> evals]

LayeredGames ==
  {Layered([p \in Board8 |-> CASE p = 4 -> a [] p = 5 -> b [] p = 8 -> c
                               [] p = 6 -> 1 [] OTHER -> 0], check, noisy) :
     a \in {-1, 1}, b \in {-1, 0, 1}, c \in {-1, 1},
     check \in {{}, {7}, {4, 7}, {9}},
     noisy \in {<<>>, 4 :> {7, 8} @@ 8 :> {9}}}

\* Both sides' first moves lead to the same position, in which the side to
\* move is mated, or is stalemated three plies on.
Funnel(a, check) ==
  [root |-> 1,
   moves |-> From(1 :> {2, 3} @@ 2 :> {4} @@ 3 :> {4} @@ 4 :> {5, 6}
                  @@ 5 :> {7} @@ 6 :> {7, 8} @@ 8 :> {9}),
   noisy |-> From(5 :> {7}),
   check |-> check,
   eval  |-> [p \in Board8 |-> IF p \in {6, 7, 8} THEN a ELSE 0]]

FunnelGames ==
  {Funnel(a, check) : a \in {-1, 1}, check \in {{}, {7}, {4, 7}, {7, 9}}}

\* The kings come back to where they were: mates at several distances.
Circling(check, a) ==
  [root |-> 1,
   moves |-> From(1 :> {2, 3} @@ 2 :> {4, 5} @@ 3 :> {5} @@ 4 :> {6, 3}
                  @@ 5 :> {7, 2} @@ 6 :> {1, 8} @@ 7 :> {8} @@ 8 :> {9}),
   noisy |-> From(5 :> {7}),
   check |-> check,
   eval  |-> [p \in Board8 |-> IF p \in {2, 7} THEN a ELSE 0]]

CirclingGames ==
  {Circling(check, a) : check \in {{9}, {3, 9}, {8, 9}}, a \in {-1, 1}}

AllGames == LayeredGames \cup FunnelGames \cup CirclingGames
=============================================================================
