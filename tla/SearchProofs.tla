---------------------------- MODULE SearchProofs ----------------------------
(***************************************************************************)
(* Search for every set of games, every table, every limit of depth and    *)
(* quiescence and any number of searches: type correctness, that every     *)
(* mate announced or noted in the table can be forced in the plies it      *)
(* claims, and that the iterations of a first search end with the minimax  *)
(* value and a move that attains it.                                       *)
(*                                                                         *)
(* Both rest on an invariant of the stack, which says of each node what    *)
(* the scores of the moves it has done show, of each waiting node that     *)
(* this holds without its current move, and of two neighbours that one was *)
(* called by the other with its window turned round.  In MateInv what a    *)
(* value shows is a claim of mate, lower or upper, at the ply of the node; *)
(* the entries of the table hold such claims at ply 0, wherever they come  *)
(* from, which is why aborts, replacements and earlier searches do no      *)
(* harm.  In ValuesInv it is a bound on the value of the node; the entries *)
(* hold bounds on the value of their position at the one ply it is met at, *)
(* for no more depth than the search has left there, which is what Plain   *)
(* and a table that starts empty are for.                                  *)
(***************************************************************************)
EXTENDS Search, SequenceTheorems, WellFoundedInduction, TLAPS

\* The calls that have not looked at their position, and the open nodes.
Calls == {"negamax", "quiescence"}
Open == {"root", "loop", "captures"}

Scores == -MateScore .. MateScore

Frames ==
  [at : Calls \cup Open, pos : Positions, depth : Nat,
   alpha : Scores \cup {-Inf}, beta : Scores \cup {Inf},
   original : Scores \cup {-Inf}, score : Scores \cup {-Inf},
   best : Positions \cup {NoMove}, move : Positions \cup {NoMove},
   left : SUBSET Positions]

Entries ==
  [key : Positions, depth : Nat, score : Int,
   bound : {"exact", "lower", "upper"}, best_move : Positions \cup {NoMove}]

TypeOK ==
  /\ game \in Games
  /\ position \in Positions
  /\ tt \in [Slots -> Entries \cup {NoMove}]
  /\ stack \in Seq(Frames)
  /\ result \in Scores \cup {NoMove}
  /\ depth \in 0 .. MaxDepth
  /\ limit \in 0 .. MaxDepth
  /\ best \in Positions \cup {NoMove}
  /\ score \in Scores
  /\ reached \in 0 .. MaxDepth
  /\ searches \in 0 .. MaxSearches

------------------------------------------------------------------------------
(* The stack.                                                              *)

\* The moves a node tries, and those it has come to.
MovesOf(f) ==
  IF f.at = "captures" THEN QuiescenceMoves(f.pos, f.depth)
                       ELSE game.moves[f.pos]

Taken(f) == MovesOf(f) \ f.left

\* A value v of p at ply k claims no mate that is not there.
Claims(p, v, k, lower, upper) ==
  /\ lower /\ v >= MateThreshold => Mates(p, MateScore - v - k)
  /\ upper /\ v <= -MateThreshold => Mated(p, MateScore + v - k)

\* The window of a call, and what its node has before it.
Frame(f, k) ==
  /\ f.alpha < f.beta /\ f.original <= f.alpha
  /\ f.at \in Calls => f.original = f.alpha /\ f.score = -Inf
  /\ f.at \in Open =>
       /\ game.moves[f.pos] # {}
       /\ f.left \subseteq MovesOf(f)
       /\ Taken(f) # {} => k < MaxPly
  /\ f.at = "root" => f.pos = position /\ f.original = -Inf /\ f.beta = Inf

\* What the scores of the moves done show: in root and negamax, and in
\* quiescence.
MovesScored(f, k, done) ==
  /\ f.depth >= 1
  /\ f.alpha = Bigger(f.original, f.score)
  /\ f.score = -Inf <=> done = {}
  /\ f.score > f.original => Claims(f.pos, f.score, k, TRUE, FALSE)
  /\ f.score <= -MateThreshold =>
       \A m \in done : Mates(m, MateScore + f.score - k - 1)

CapturesScored(f, k, done) ==
  /\ InCheck(f.pos) \/ f.depth < MaxQuiescencePly
  /\ ~InCheck(f.pos) => f.alpha >= game.eval[f.pos]
  /\ f.alpha = -Inf => done = {}
  /\ f.alpha > f.original => Claims(f.pos, f.alpha, k, TRUE, FALSE)
  /\ InCheck(f.pos) /\ f.alpha <= -MateThreshold =>
       \A m \in done : Mates(m, MateScore + f.alpha - k - 1)

Scored(f, k, done) ==
  /\ f.at \in {"root", "loop"} => MovesScored(f, k, done)
  /\ f.at = "captures" => CapturesScored(f, k, done)

\* A node on top of the stack, and one that waits for the value of its move.
Settled(f, k) == Frame(f, k) /\ Scored(f, k, Taken(f))

Busy(f, k) ==
  /\ Frame(f, k)
  /\ f.at \in Open /\ f.move \in Taken(f)
  /\ Scored(f, k, Taken(f) \ {f.move})

\* f was called by g.
Linked(f, g) ==
  f.pos = g.move /\ f.original = -g.beta /\ f.beta = -g.alpha

StackOK(s, v) ==
  /\ Len(s) - 1 <= MaxPly
  /\ \A i \in 1 .. Len(s) : IF i = Len(s) THEN s[i].at = "root"
                                         ELSE s[i].at # "root"
  /\ \A i \in 1 .. Len(s) : i > 1 \/ v # NoMove => Busy(s[i], Len(s) - i)
  /\ s # <<>> /\ v = NoMove => Settled(s[1], Len(s) - 1)
  /\ \A i \in 1 .. Len(s) - 1 : Linked(s[i], s[i + 1])

\* What a call returns to the node g at ply k.
ResultOK(v, g, k) ==
  /\ v > -g.beta => Claims(g.move, v, k + 1, TRUE, FALSE)
  /\ v < -g.alpha => Claims(g.move, v, k + 1, FALSE, TRUE)

EntryOK(e) == Claims(e.key, e.score, 0, e.bound # "upper", e.bound # "lower")

TableOK(t) == \A slot \in Slots : t[slot] # NoMove => EntryOK(t[slot])

MateInv ==
  /\ TypeOK
  /\ StackOK(stack, result)
  /\ result # NoMove => Searching /\ ResultOK(result, Node, Ply)
  /\ TableOK(tt)
  /\ Searching => depth >= 1 /\ searches >= 1

------------------------------------------------------------------------------
(* Values.                                                                 *)

\* The value of m for the player who moves to it from f at ply k.
ValueFor(f, m, k) ==
  -(IF f.at = "captures" THEN Quiet[MaxPly - k - 1][m][f.depth + 1]
                         ELSE Minimax[MaxPly - k - 1][m][f.depth - 1])

ValueOf(f, k) ==
  IF f.at \in {"quiescence", "captures"} THEN Quiet[MaxPly - k][f.pos][f.depth]
                                         ELSE Minimax[MaxPly - k][f.pos][f.depth]

Valued(f, k, done) ==
  /\ f.pos \in Reached[k]
  /\ f.at = "negamax" => f.depth = Bigger(depth - k, 0)
  /\ f.at = "root" => f.depth = depth
  /\ f.at \in {"root", "loop"} =>
       /\ f.depth = Bigger(depth - k, 1)
       /\ InCheck(f.pos) \/ depth - k > 0
       /\ \A m \in done : ValueFor(f, m, k) <= f.score
       /\ f.score > f.original =>
            f.best \in done /\ ValueFor(f, f.best, k) >= f.score
  /\ f.at = "captures" =>
       /\ \A m \in done : ValueFor(f, m, k) <= f.alpha
       /\ f.alpha > f.original =>
            \/ ~InCheck(f.pos) /\ f.alpha = game.eval[f.pos]
            \/ \E m \in done : ValueFor(f, m, k) >= f.alpha

StackValued(s, v) ==
  /\ \A i \in 1 .. Len(s) :
       i > 1 \/ v # NoMove => Valued(s[i], Len(s) - i, Taken(s[i]) \ {s[i].move})
  /\ s # <<>> /\ v = NoMove => Valued(s[1], Len(s) - 1, Taken(s[1]))
  /\ \A i \in 1 .. Len(s) - 1 :
       ValueOf(s[i], Len(s) - i) = -ValueFor(s[i + 1], s[i].pos, Len(s) - i - 1)

ResultValued(v, g, k) ==
  /\ v > -g.beta => -ValueFor(g, g.move, k) >= v
  /\ v < -g.alpha => -ValueFor(g, g.move, k) <= v

EntryValued(e) ==
  \E k \in 0 .. MaxPly :
    /\ e.key \in Reached[k]
    /\ e.depth \in 1 .. Bigger(depth - k, 1)
    /\ e.bound # "upper" =>
         Minimax[MaxPly - k][e.key][e.depth] >= ScoreFromTt(e.score, k)
    /\ e.bound # "lower" =>
         Minimax[MaxPly - k][e.key][e.depth] <= ScoreFromTt(e.score, k)

TableValued(t) == \A slot \in Slots : t[slot] # NoMove => EntryValued(t[slot])

ValuesInv ==
  Searching /\ searches = 1 /\ Plain =>
    /\ StackValued(stack, result)
    /\ result # NoMove => ResultValued(result, Node, Ply)
    /\ TableValued(tt)

EmptyTable == searches = 0 => \A slot \in Slots : tt[slot] = NoMove

------------------------------------------------------------------------------
(* Induction, recursion and maxima.                                        *)

LEMMA Smallest ==
  ASSUME NEW S \in SUBSET Nat, S # {}
  PROVE  \E n \in S : \A k \in S : n <= k
<1>1. PICK n \in S : \A k \in S : ~ (<<k, n>> \in OpToRel(<, Nat))
  BY WFMin, NatLessThanWellFounded
<1>2. \A k \in S : k < n => <<k, n>> \in OpToRel(<, Nat)
  BY DEF OpToRel
<1>3. \A k \in S : ~ (k < n)
  BY <1>1, <1>2
<1> QED
  BY <1>3

\* Induction up to a bound, with a set of numbers in place of a predicate.
LEMMA UpTo ==
  ASSUME NEW k \in Nat, NEW S, 0 \in S,
         \A n \in 0 .. k - 1 : n \in S => n + 1 \in S
  PROVE  \A n \in 0 .. k : n \in S
<1> DEFINE Bad == {n \in 0 .. k : n \notin S}
<1>1. SUFFICES ASSUME Bad # {} PROVE FALSE
  OBVIOUS
<1>2. PICK n \in Bad : \A i \in Bad : n <= i
  <2>1. Bad \in SUBSET Nat
    OBVIOUS
  <2> HIDE DEF Bad
  <2> QED
    BY <1>1, <2>1, Smallest
<1>3. n \in 0 .. k /\ n \notin S /\ n # 0
  BY <1>2
<1>4. n - 1 \in 0 .. k - 1 /\ n - 1 \notin Bad
  BY <1>2, <1>3
<1>5. n - 1 \in S
  BY <1>4
<1> QED
  BY <1>3, <1>4, <1>5

\* f starts with b and each of its values comes from the one before by F.
Iterates(f, b, F, k) ==
  f = [n \in 0 .. k |-> IF n = 0 THEN b ELSE F[<<f[n - 1], n>>]]

\* A function defined by what it is at 0 and by steps exists.
LEMMA Recursion ==
  ASSUME NEW V, NEW b \in V, NEW F \in [V \X Nat -> V], NEW k \in Nat
  PROVE  \E f \in [0 .. k -> V] : Iterates(f, b, F, k)
<1> DEFINE S == {n \in Nat : \E f \in [0 .. n -> V] : Iterates(f, b, F, n)}
<1>1. 0 \in S
  <2> DEFINE f == [n \in 0 .. 0 |-> b]
  <2>1. f \in [0 .. 0 -> V]
    OBVIOUS
  <2>2. f = [n \in 0 .. 0 |-> IF n = 0 THEN b ELSE F[<<f[n - 1], n>>]]
    OBVIOUS
  <2> QED
    BY <2>1, <2>2 DEF Iterates
<1>2. ASSUME NEW n \in 0 .. k - 1, n \in S
      PROVE  n + 1 \in S
  <2>1. PICK g \in [0 .. n -> V] : Iterates(g, b, F, n)
    BY <1>2
  <2> DEFINE f == [i \in 0 .. n + 1 |->
                     IF i = n + 1 THEN F[<<g[n], n + 1>>] ELSE g[i]]
  <2>2. f \in [0 .. n + 1 -> V]
    OBVIOUS
  <2>3. \A i \in 0 .. n : g[i] = IF i = 0 THEN b ELSE F[<<g[i - 1], i>>]
    BY <2>1 DEF Iterates
  <2>4. ASSUME NEW i \in 0 .. n + 1
        PROVE  f[i] = IF i = 0 THEN b ELSE F[<<f[i - 1], i>>]
    <3>1. CASE i = n + 1
      <4>1. f[i] = F[<<g[n], n + 1>>] /\ f[i - 1] = g[n] /\ i # 0
        BY <3>1
      <4> QED
        BY <3>1, <4>1
    <3>2. CASE i # n + 1
      <4>1. i \in 0 .. n /\ f[i] = g[i]
        BY <3>2
      <4>2. i # 0 => f[i - 1] = g[i - 1]
        BY <4>1
      <4> QED
        BY <2>3, <4>1, <4>2
    <3> QED
      BY <3>1, <3>2
  <2>5. f = [i \in 0 .. n + 1 |-> IF i = 0 THEN b ELSE F[<<f[i - 1], i>>]]
    <3>1. f = [i \in 0 .. n + 1 |-> f[i]]
      OBVIOUS
    <3> HIDE DEF f
    <3> QED
      BY <2>4, <3>1
  <2>6. Iterates(f, b, F, n + 1)
    BY <2>5 DEF Iterates
  <2> HIDE DEF f
  <2> QED
    BY <2>2, <2>6
<1> HIDE DEF S
<1>3. k \in S
  BY <1>1, <1>2, UpTo
<1> QED
  BY <1>3 DEF S

LEMMA Numbers ==
  /\ MateScore \in Nat /\ Inf \in Nat /\ MateHorizon \in Nat /\ MaxPly \in Nat
  /\ 1 <= MaxPly /\ MaxPly < MateHorizon
  /\ MateHorizon + MateHorizon < MateScore /\ MateScore < Inf
  /\ MateThreshold = MateScore - MateHorizon
<1>1. /\ MateScore = 30000 /\ Inf = 32000 /\ MateHorizon = 1000
      /\ MateThreshold = 29000
  BY DEF Inf, MateScore, MateThreshold, MateHorizon
<1>2. MaxPly \in Nat /\ 1 <= MaxPly /\ MaxPly <= 255
  BY SearchConstants
<1> QED
  BY <1>1, <1>2

LEMMA ScoreIs ==
  ASSUME NEW x
  PROVE  x \in Scores <=> x \in Int /\ -MateScore <= x /\ x <= MateScore
BY Numbers DEF Scores

\* A set of scores has a largest one.
LEMMA MaxIs ==
  ASSUME NEW S \in SUBSET Scores, S # {}
  PROVE  Max(S) \in S /\ \A s \in S : s <= Max(S)
<1> DEFINE Below == {MateScore - s : s \in S}
<1>0. \A s \in S : s \in Int /\ -MateScore <= s /\ s <= MateScore
  BY ScoreIs
<1>1. Below \in SUBSET Nat /\ Below # {}
  BY <1>0, Numbers
<1>2. PICK b \in Below : \A n \in Below : b <= n
  <2> HIDE DEF Below
  <2> QED
    BY <1>1, Smallest
<1>3. PICK x \in S : b = MateScore - x
  BY <1>2
<1>4. \A s \in S : x >= s
  <2>1. \A s \in S : MateScore - s \in Below
    OBVIOUS
  <2> HIDE DEF Below
  <2>2. \A s \in S : MateScore - x <= MateScore - s
    BY <1>2, <1>3, <2>1
  <2> QED
    BY <1>0, <2>2, Numbers
<1>5. Max(S) \in S /\ \A s \in S : Max(S) >= s
  BY <1>4 DEF Max
<1> QED
  BY <1>0, <1>5

------------------------------------------------------------------------------
(* The game.                                                               *)

LEMMA GameIs ==
  ASSUME game \in Games
  PROVE  /\ game.root \in Positions
         /\ \A p \in Positions :
              /\ game.moves[p] \in SUBSET Positions
              /\ game.eval[p] \in Int
              /\ -MateThreshold < game.eval[p] /\ game.eval[p] < MateThreshold
              /\ game.eval[p] \in Scores
              /\ \A q \in Nat : QuiescenceMoves(p, q) \subseteq game.moves[p]
              /\ \A q \in Nat : InCheck(p) =>
                               QuiescenceMoves(p, q) = game.moves[p]
<1>1. ASSUME NEW p \in Positions
      PROVE  /\ game.moves[p] \in SUBSET Positions
             /\ game.eval[p] \in Int
             /\ -MateThreshold < game.eval[p] /\ game.eval[p] < MateThreshold
             /\ game.eval[p] \in Scores
  <2>1. game.moves[p] \in SUBSET Positions /\ game.eval[p] \in Int
    BY SearchConstants
  <2>2. -MateThreshold < game.eval[p] /\ game.eval[p] < MateThreshold
    BY EvaluationsBelowMates
  <2> QED
    BY <2>1, <2>2, Numbers, ScoreIs
<1> QED
  BY <1>1, SearchConstants DEF QuiescenceMoves

LEMMA TerminalIs ==
  ASSUME NEW p, NEW k \in 0 .. MaxPly
  PROVE  /\ TerminalScore(p, k) \in Scores
         /\ InCheck(p) => TerminalScore(p, k) = k - MateScore
         /\ ~InCheck(p) => TerminalScore(p, k) = 0
BY Numbers, ScoreIs DEF TerminalScore

LEMMA GameKept ==
  ASSUME game' = game
  PROVE  /\ Forced' = Forced /\ Quiet' = Quiet /\ Minimax' = Minimax
         /\ position' = position => Reached' = Reached
         /\ \A p : InCheck(p)' = InCheck(p)
         /\ \A p, n : Mates(p, n)' = Mates(p, n) /\ Mated(p, n)' = Mated(p, n)
<1>1. Forced' = Forced
  BY SMT DEF Forced, InCheck
<1>2. Quiet' = Quiet
  BY SMT DEF Quiet, InCheck, QuiescenceMoves, TerminalScore
<1>3. Minimax' = Minimax
  BY SMT, <1>2 DEF Minimax, InCheck, TerminalScore
<1>4. position' = position => Reached' = Reached
  BY SMT DEF Reached
<1>5. \A p : InCheck(p)' = InCheck(p)
  BY DEF InCheck
<1>6. \A p, n : Mates(p, n)' = Mates(p, n) /\ Mated(p, n)' = Mated(p, n)
  BY <1>1 DEF Mates, Mated
<1> QED
  BY <1>1, <1>2, <1>3, <1>4, <1>5, <1>6

\* One step further from the positions decided within n plies.
MatedAtOnce == {p \in Positions : game.moves[p] = {} /\ InCheck(p)}

OnePlyOn(x) ==
  [mates |-> {p \in Positions : \E m \in game.moves[p] : m \in x.mated},
   mated |-> {p \in Positions : IF game.moves[p] = {} THEN InCheck(p)
                                ELSE game.moves[p] \subseteq x.mates}]

Decided == [mates : SUBSET Positions, mated : SUBSET Positions]

LEMMA ForcedSteps ==
  /\ Forced[0] = [mates |-> {}, mated |-> MatedAtOnce]
  /\ \A n \in 1 .. MateHorizon : Forced[n] = OnePlyOn(Forced[n - 1])
  /\ Forced \in [0 .. MateHorizon -> Decided]
<1> DEFINE start == [mates |-> {}, mated |-> MatedAtOnce]
           F == [x \in Decided \X Nat |-> OnePlyOn(x[1])]
<1>1. F \in [Decided \X Nat -> Decided] /\ start \in Decided
  BY DEF OnePlyOn, Decided, MatedAtOnce
<1>2. PICK g \in [0 .. MateHorizon -> Decided] :
        Iterates(g, start, F, MateHorizon)
  <2> HIDE DEF F, start
  <2> QED
    BY <1>1, Numbers, Recursion
<1>3. \A n \in 0 .. MateHorizon :
        g[n] = IF n = 0 THEN start ELSE OnePlyOn(g[n - 1])
  <2>1. \A n \in 0 .. MateHorizon :
          g[n] = IF n = 0 THEN start ELSE F[<<g[n - 1], n>>]
    <3> HIDE DEF F, start
    <3> QED
      BY <1>2 DEF Iterates
  <2>2. \A n \in 1 .. MateHorizon : F[<<g[n - 1], n>>] = OnePlyOn(g[n - 1])
    <3>1. \A n \in 1 .. MateHorizon : g[n - 1] \in Decided /\ n \in Nat
      BY <1>2, Numbers
    <3> QED
      BY <3>1
  <2>3. \A n \in 0 .. MateHorizon : n = 0 \/ n \in 1 .. MateHorizon
    BY Numbers
  <2> HIDE DEF F, start
  <2> QED
    BY <2>1, <2>2, <2>3
<1> DEFINE Step(f, n) ==
             LET sooner == f[n - 1]
             IN  [mates |-> {p \in Positions :
                              n > 0 /\ \E m \in game.moves[p] :
                                         m \in sooner.mated},
                  mated |-> {p \in Positions :
                              IF game.moves[p] = {} THEN InCheck(p)
                              ELSE n > 0 /\ game.moves[p] \subseteq sooner.mates}]
<1>4. ASSUME NEW f, NEW n \in 0 .. MateHorizon
      PROVE  Step(f, n) = IF n = 0 THEN start ELSE OnePlyOn(f[n - 1])
  <2>1. CASE n = 0
    <3>1. ~ (n > 0)
      BY <2>1
    <3>2. Step(f, n).mates = {} /\ Step(f, n).mated = MatedAtOnce
      BY <3>1 DEF MatedAtOnce
    <3> QED
      BY <2>1, <3>2
  <2>2. CASE n # 0
    <3>1. n > 0
      BY <2>2, Numbers
    <3> QED
      BY <2>2, <3>1 DEF OnePlyOn
  <2> QED
    BY <2>1, <2>2
<1>5. g = [n \in 0 .. MateHorizon |-> Step(g, n)]
  <2>1. g = [n \in 0 .. MateHorizon |-> g[n]]
    BY <1>2
  <2> HIDE DEF Step, start
  <2> QED
    BY <1>3, <1>4, <2>1
<1>6. Forced = CHOOSE f : f = [n \in 0 .. MateHorizon |-> Step(f, n)]
  BY DEF Forced
<1> HIDE DEF Step
<1>7. Forced = [n \in 0 .. MateHorizon |-> Step(Forced, n)]
  BY <1>5, <1>6
<1>8. \A n \in 0 .. MateHorizon :
        Forced[n] = IF n = 0 THEN start ELSE OnePlyOn(Forced[n - 1])
  <2> HIDE DEF start
  <2> QED
    BY <1>4, <1>7
<1>9. Forced[0] = start /\ \A n \in 1 .. MateHorizon :
                              Forced[n] = OnePlyOn(Forced[n - 1])
  <2> HIDE DEF start
  <2> QED
    BY <1>8, Numbers
<1>10. \A n \in 0 .. MateHorizon : Forced[n] \in Decided
  <2>1. \A x : OnePlyOn(x) \in Decided
    BY DEF OnePlyOn, Decided
  <2> HIDE DEF start
  <2> QED
    BY <1>1, <1>8, <2>1
<1>11. Forced \in [0 .. MateHorizon -> Decided]
  BY <1>7, <1>10
<1> QED
  BY <1>9, <1>11

LEMMA ForcedAt ==
  ASSUME NEW p \in Positions, NEW n \in 0 .. MateHorizon
  PROVE  /\ Mates(p, n) <=> n > 0 /\ \E m \in game.moves[p] : Mated(m, n - 1)
         /\ game.moves[p] = {} => (Mated(p, n) <=> InCheck(p))
         /\ game.moves[p] # {} =>
              (Mated(p, n) <=> n > 0 /\ \A m \in game.moves[p] : Mates(m, n - 1))
<1>1. CASE n = 0
  BY <1>1, ForcedSteps, Numbers DEF Mates, Mated, MatedAtOnce
<1>2. CASE n # 0
  <2>1. n \in 1 .. MateHorizon /\ n > 0 /\ n - 1 \in 0 .. MateHorizon
    BY <1>2, Numbers
  <2>2. Forced[n] = OnePlyOn(Forced[n - 1])
    BY <2>1, ForcedSteps
  <2> QED
    BY <2>1, <2>2 DEF Mates, Mated, OnePlyOn
<1> QED
  BY <1>1, <1>2

\* Who is mated within n plies is mated within more.
LEMMA ForcedGrows ==
  ASSUME NEW i \in 0 .. MateHorizon, NEW j \in 0 .. MateHorizon, i <= j
  PROVE  /\ Forced[i].mates \subseteq Forced[j].mates
         /\ Forced[i].mated \subseteq Forced[j].mated
<1> DEFINE Grows(n) == /\ Forced[n].mates \subseteq Forced[n + 1].mates
                       /\ Forced[n].mated \subseteq Forced[n + 1].mated
           S == {n \in Nat : n < MateHorizon => Grows(n)}
<1>1. 0 \in S
  <2>1. Forced[0 + 1] = OnePlyOn(Forced[0])
    BY ForcedSteps, Numbers
  <2>2. Forced[0].mates = {} /\ Forced[0].mated \subseteq Forced[0 + 1].mated
    BY <2>1, ForcedSteps DEF OnePlyOn, MatedAtOnce
  <2> QED
    BY <2>2
<1>2. ASSUME NEW n \in 0 .. MateHorizon - 1, n \in S PROVE n + 1 \in S
  <2> SUFFICES ASSUME n + 1 < MateHorizon PROVE Grows(n + 1)
    OBVIOUS
  <2>1. Grows(n)
    BY <1>2, Numbers
  <2>2. /\ Forced[n + 1] = OnePlyOn(Forced[n])
        /\ Forced[n + 1 + 1] = OnePlyOn(Forced[n + 1])
    BY ForcedSteps, Numbers
  <2> QED
    BY <2>1, <2>2 DEF OnePlyOn
<1>3. \A n \in 0 .. MateHorizon : n \in S
  <2> HIDE DEF S
  <2> QED
    BY <1>1, <1>2, Numbers, UpTo
<1> DEFINE T == {n \in Nat : i + n <= MateHorizon =>
                   /\ Forced[i].mates \subseteq Forced[i + n].mates
                   /\ Forced[i].mated \subseteq Forced[i + n].mated}
<1>4. 0 \in T
  <2>1. i + 0 = i
    BY Numbers
  <2> QED
    BY <2>1
<1>5. ASSUME NEW n \in 0 .. MateHorizon - 1, n \in T PROVE n + 1 \in T
  <2> SUFFICES ASSUME i + (n + 1) <= MateHorizon
               PROVE  /\ Forced[i].mates \subseteq Forced[i + (n + 1)].mates
                      /\ Forced[i].mated \subseteq Forced[i + (n + 1)].mated
    BY Numbers
  <2>1. i + n \in 0 .. MateHorizon /\ i + n < MateHorizon
        /\ i + (n + 1) = i + n + 1
    BY Numbers
  <2>2. Grows(i + n)
    BY <1>3, <2>1
  <2> QED
    BY <1>5, <2>1, <2>2
<1>6. \A n \in 0 .. MateHorizon : n \in T
  <2> HIDE DEF T
  <2> QED
    BY <1>4, <1>5, Numbers, UpTo
<1>7. j - i \in 0 .. MateHorizon /\ i + (j - i) = j
  BY Numbers
<1> QED
  BY <1>6, <1>7

LEMMA MatesGrow ==
  ASSUME NEW p, NEW i \in Int, NEW j \in 0 .. MateHorizon, i <= j
  PROVE  (Mates(p, i) => Mates(p, j)) /\ (Mated(p, i) => Mated(p, j))
<1> SUFFICES ASSUME i \in 0 .. MateHorizon
             PROVE  (Mates(p, i) => Mates(p, j)) /\ (Mated(p, i) => Mated(p, j))
  BY DEF Mates, Mated
<1> QED
  BY ForcedGrows DEF Mates, Mated

------------------------------------------------------------------------------
(* The values.                                                             *)

\* One step of Quiet, from the values x of the positions a ply further on.
QuietStep(x, n, p, qply) ==
  LET values == {-x[m][qply + 1] : m \in QuiescenceMoves(p, qply)}
  IN  IF ~InCheck(p) /\ qply >= MaxQuiescencePly THEN game.eval[p]
      ELSE IF game.moves[p] = {} THEN TerminalScore(p, MaxPly - n)
      ELSE IF n = 0 THEN game.eval[p]
      ELSE IF InCheck(p) THEN Max(values)
      ELSE Max(values \cup {game.eval[p]})

QuietValues == [Positions -> [Nat -> Scores]]

LEMMA QuietStepIs ==
  ASSUME game \in Games, NEW x, NEW n \in 0 .. MaxPly,
         n = 0 \/ x \in QuietValues,
         NEW p \in Positions, NEW qply \in Nat
  PROVE  QuietStep(x, n, p, qply) \in Scores
<1> DEFINE moves == QuiescenceMoves(p, qply)
           values == {-x[m][qply + 1] : m \in moves}
<1>1. TerminalScore(p, MaxPly - n) \in Scores /\ game.eval[p] \in Scores
  <2>1. MaxPly - n \in 0 .. MaxPly
    BY Numbers
  <2> QED
    BY <2>1, TerminalIs, GameIs
<1>2. ASSUME n # 0
      PROVE  values \in SUBSET Scores /\ (moves # {} => values # {})
  <2>1. \A m \in moves : m \in Positions
    <3>1. game.moves[p] \in SUBSET Positions
      BY GameIs
    <3>2. moves \subseteq game.moves[p]
      BY GameIs
    <3> QED
      BY <3>1, <3>2
  <2>2. \A m \in moves : x[m][qply + 1] \in Scores
    BY <1>2, <2>1 DEF QuietValues
  <2>3. \A s \in Scores : -s \in Scores
    BY ScoreIs, Numbers
  <2> HIDE DEF moves
  <2> QED
    BY <2>2, <2>3
<1>3. InCheck(p) /\ game.moves[p] # {} => moves # {}
  BY GameIs
<1>4. CASE n # 0 /\ InCheck(p) /\ game.moves[p] # {}
  <2>1. values \in SUBSET Scores /\ values # {}
    BY <1>2, <1>3, <1>4
  <2> HIDE DEF values
  <2>2. Max(values) \in Scores
    BY <2>1, MaxIs
  <2> QED
    BY <1>4, <2>2 DEF QuietStep, values
<1>5. CASE n # 0 /\ ~InCheck(p) /\ game.moves[p] # {}
  <2>1. /\ values \cup {game.eval[p]} \in SUBSET Scores
        /\ values \cup {game.eval[p]} # {}
    BY <1>1, <1>2, <1>5
  <2> HIDE DEF values
  <2>2. Max(values \cup {game.eval[p]}) \in Scores
    BY <2>1, MaxIs
  <2> QED
    BY <1>1, <1>5, <2>2 DEF QuietStep, values
<1>6. CASE n = 0 \/ game.moves[p] = {}
  BY <1>1, <1>6 DEF QuietStep
<1> QED
  BY <1>4, <1>5, <1>6

LEMMA QuietSteps ==
  ASSUME game \in Games
  PROVE  /\ \A n \in 0 .. MaxPly : Quiet[n] \in QuietValues
         /\ \A n \in 0 .. MaxPly, p \in Positions, qply \in Nat :
              Quiet[n][p][qply] = QuietStep(Quiet[n - 1], n, p, qply)
<1> DEFINE Layer(x, n) ==
             [p \in Positions |-> [qply \in Nat |-> QuietStep(x, n, p, qply)]]
           F == [y \in QuietValues \X Nat |->
                   IF y[2] \in 0 .. MaxPly THEN Layer(y[1], y[2]) ELSE y[1]]
           start == Layer(0, 0)
<1>1. /\ \A n \in 0 .. MaxPly, x \in QuietValues : Layer(x, n) \in QuietValues
      /\ start \in QuietValues
  <2>1. 0 \in 0 .. MaxPly
    BY Numbers
  <2> QED
    BY <2>1, QuietStepIs DEF QuietValues
<1>2. F \in [QuietValues \X Nat -> QuietValues]
  <2> HIDE DEF Layer
  <2> QED
    BY <1>1
<1>3. PICK g \in [0 .. MaxPly -> QuietValues] : Iterates(g, start, F, MaxPly)
  <2> HIDE DEF F, start
  <2> QED
    BY <1>1, <1>2, Numbers, Recursion
<1>4. ASSUME NEW n \in 0 .. MaxPly, NEW f
      PROVE  n = 0 => Layer(f[n - 1], n) = start
  BY DEF QuietStep
<1>5. \A n \in 0 .. MaxPly : g[n] = Layer(g[n - 1], n)
  <2>1. \A n \in 0 .. MaxPly :
          g[n] = IF n = 0 THEN start ELSE F[<<g[n - 1], n>>]
    <3> HIDE DEF F, start, Layer
    <3> QED
      BY <1>3 DEF Iterates
  <2>2. ASSUME NEW n \in 0 .. MaxPly, n # 0
        PROVE  F[<<g[n - 1], n>>] = Layer(g[n - 1], n)
    <3>1. g[n - 1] \in QuietValues /\ n \in Nat
      BY <1>3, <2>2, Numbers
    <3> HIDE DEF Layer
    <3> QED
      BY <3>1
  <2>3. \A n \in 0 .. MaxPly : n = 0 => g[n] = Layer(g[n - 1], n)
    <3> HIDE DEF F, start, Layer
    <3> QED
      BY <1>4, <2>1
  <2> HIDE DEF F, start, Layer
  <2> QED
    BY <2>1, <2>2, <2>3
<1>6. g = [n \in 0 .. MaxPly |-> Layer(g[n - 1], n)]
  <2>1. g = [n \in 0 .. MaxPly |-> g[n]]
    BY <1>3
  <2> HIDE DEF Layer
  <2> QED
    BY <1>5, <2>1
<1>7. Quiet = CHOOSE f : f = [n \in 0 .. MaxPly |-> Layer(f[n - 1], n)]
  BY DEF Quiet, QuietStep
<1> HIDE DEF Layer
<1>8. Quiet = [n \in 0 .. MaxPly |-> Layer(Quiet[n - 1], n)]
  BY <1>6, <1>7
<1>9. \A n \in 0 .. MaxPly : Quiet[n] = Layer(Quiet[n - 1], n)
  BY <1>8
<1>10. ASSUME NEW n \in 0 .. MaxPly, NEW p \in Positions, NEW qply \in Nat
       PROVE  Quiet[n][p][qply] = QuietStep(Quiet[n - 1], n, p, qply)
  <2>1. Quiet[n] = Layer(Quiet[n - 1], n)
    BY <1>9
  <2> QED
    BY <2>1 DEF Layer
<1>11. ASSUME NEW n \in 0 .. MaxPly, n # 0, Quiet[n - 1] \in QuietValues
       PROVE  Quiet[n] \in QuietValues
  <2>1. Quiet[n] = Layer(Quiet[n - 1], n)
    BY <1>9
  <2> QED
    BY <1>1, <1>11, <2>1
<1>12. \A n \in 0 .. MaxPly : Quiet[n] \in QuietValues
  <2> DEFINE S == {n \in Nat : n <= MaxPly => Quiet[n] \in QuietValues}
  <2>1. 0 \in S
    <3>1. Quiet[0] = start
      BY <1>4, <1>8, Numbers DEF start
    <3> QED
      BY <1>1, <3>1
  <2>2. ASSUME NEW n \in 0 .. MaxPly - 1, n \in S PROVE n + 1 \in S
    <3>1. /\ n + 1 \in 0 .. MaxPly /\ n + 1 \in Nat /\ n + 1 - 1 = n
          /\ Quiet[n] \in QuietValues
      BY <2>2, Numbers
    <3>2. n + 1 # 0 /\ Quiet[n + 1 - 1] \in QuietValues
      BY <3>1
    <3>3. Quiet[n + 1] \in QuietValues
      BY <1>11, <3>1, <3>2
    <3> QED
      BY <3>1, <3>3
  <2> HIDE DEF S
  <2>3. \A n \in 0 .. MaxPly : n \in S
    BY <2>1, <2>2, Numbers, UpTo
  <2> QED
    BY <2>3 DEF S
<1> QED
  BY <1>10, <1>12

\* One step of Minimax, from the values x of the positions a ply further on.
MinimaxStep(x, n, p, d) ==
  IF d <= 0 /\ ~InCheck(p) THEN Quiet[n][p][0]
  ELSE IF game.moves[p] = {} THEN TerminalScore(p, MaxPly - n)
  ELSE IF n = 0 THEN game.eval[p]
  ELSE Max({-x[m][Bigger(d, 1) - 1] : m \in game.moves[p]})

MinimaxValues == [Positions -> [Int -> Scores]]

LEMMA MinimaxStepIs ==
  ASSUME game \in Games, NEW x, NEW n \in 0 .. MaxPly,
         n = 0 \/ x \in MinimaxValues,
         NEW p \in Positions, NEW d \in Int
  PROVE  MinimaxStep(x, n, p, d) \in Scores
<1> DEFINE values == {-x[m][Bigger(d, 1) - 1] : m \in game.moves[p]}
<1>1. TerminalScore(p, MaxPly - n) \in Scores /\ game.eval[p] \in Scores
  <2>1. MaxPly - n \in 0 .. MaxPly
    BY Numbers
  <2> QED
    BY <2>1, TerminalIs, GameIs
<1>2. Quiet[n][p][0] \in Scores
  BY QuietSteps DEF QuietValues
<1>3. CASE n # 0 /\ game.moves[p] # {}
  <2>1. \A m \in game.moves[p] : m \in Positions
    BY GameIs
  <2>2. Bigger(d, 1) - 1 \in Int
    BY DEF Bigger
  <2>3. \A m \in game.moves[p] : x[m][Bigger(d, 1) - 1] \in Scores
    BY <1>3, <2>1, <2>2 DEF MinimaxValues
  <2>4. \A s \in Scores : -s \in Scores
    BY ScoreIs, Numbers
  <2>5. values \in SUBSET Scores /\ values # {}
    BY <1>3, <2>3, <2>4
  <2> HIDE DEF values
  <2>6. Max(values) \in Scores
    BY <2>5, MaxIs
  <2> QED
    BY <1>1, <1>2, <1>3, <2>6 DEF MinimaxStep, values
<1>4. CASE n = 0 \/ game.moves[p] = {}
  BY <1>1, <1>2, <1>4 DEF MinimaxStep
<1> QED
  BY <1>3, <1>4

LEMMA MinimaxSteps ==
  ASSUME game \in Games
  PROVE  /\ \A n \in 0 .. MaxPly : Minimax[n] \in MinimaxValues
         /\ \A n \in 0 .. MaxPly, p \in Positions, d \in Int :
              Minimax[n][p][d] = MinimaxStep(Minimax[n - 1], n, p, d)
<1> DEFINE Layer(x, n) ==
             [p \in Positions |-> [d \in Int |-> MinimaxStep(x, n, p, d)]]
           F == [y \in MinimaxValues \X Nat |->
                   IF y[2] \in 0 .. MaxPly THEN Layer(y[1], y[2]) ELSE y[1]]
           start == Layer(0, 0)
<1>1. /\ \A n \in 0 .. MaxPly, x \in MinimaxValues : Layer(x, n) \in MinimaxValues
      /\ start \in MinimaxValues
  <2>1. 0 \in 0 .. MaxPly
    BY Numbers
  <2> QED
    BY <2>1, MinimaxStepIs DEF MinimaxValues
<1>2. F \in [MinimaxValues \X Nat -> MinimaxValues]
  <2> HIDE DEF Layer
  <2> QED
    BY <1>1
<1>3. PICK g \in [0 .. MaxPly -> MinimaxValues] : Iterates(g, start, F, MaxPly)
  <2> HIDE DEF F, start
  <2> QED
    BY <1>1, <1>2, Numbers, Recursion
<1>4. ASSUME NEW n \in 0 .. MaxPly, NEW f
      PROVE  n = 0 => Layer(f[n - 1], n) = start
  BY DEF MinimaxStep
<1>5. \A n \in 0 .. MaxPly : g[n] = Layer(g[n - 1], n)
  <2>1. \A n \in 0 .. MaxPly :
          g[n] = IF n = 0 THEN start ELSE F[<<g[n - 1], n>>]
    <3> HIDE DEF F, start, Layer
    <3> QED
      BY <1>3 DEF Iterates
  <2>2. ASSUME NEW n \in 0 .. MaxPly, n # 0
        PROVE  F[<<g[n - 1], n>>] = Layer(g[n - 1], n)
    <3>1. g[n - 1] \in MinimaxValues /\ n \in Nat
      BY <1>3, <2>2, Numbers
    <3> HIDE DEF Layer
    <3> QED
      BY <3>1
  <2>3. \A n \in 0 .. MaxPly : n = 0 => g[n] = Layer(g[n - 1], n)
    <3> HIDE DEF F, start, Layer
    <3> QED
      BY <1>4, <2>1
  <2> HIDE DEF F, start, Layer
  <2> QED
    BY <2>1, <2>2, <2>3
<1>6. g = [n \in 0 .. MaxPly |-> Layer(g[n - 1], n)]
  <2>1. g = [n \in 0 .. MaxPly |-> g[n]]
    BY <1>3
  <2> HIDE DEF Layer
  <2> QED
    BY <1>5, <2>1
<1>7. Minimax = CHOOSE f : f = [n \in 0 .. MaxPly |-> Layer(f[n - 1], n)]
  BY DEF Minimax, MinimaxStep
<1> HIDE DEF Layer
<1>8. Minimax = [n \in 0 .. MaxPly |-> Layer(Minimax[n - 1], n)]
  BY <1>6, <1>7
<1>9. \A n \in 0 .. MaxPly : Minimax[n] = Layer(Minimax[n - 1], n)
  BY <1>8
<1>10. ASSUME NEW n \in 0 .. MaxPly, NEW p \in Positions, NEW d \in Int
       PROVE  Minimax[n][p][d] = MinimaxStep(Minimax[n - 1], n, p, d)
  <2>1. Minimax[n] = Layer(Minimax[n - 1], n)
    BY <1>9
  <2> QED
    BY <2>1 DEF Layer
<1>11. ASSUME NEW n \in 0 .. MaxPly, n # 0, Minimax[n - 1] \in MinimaxValues
       PROVE  Minimax[n] \in MinimaxValues
  <2>1. Minimax[n] = Layer(Minimax[n - 1], n)
    BY <1>9
  <2> QED
    BY <1>1, <1>11, <2>1
<1>12. \A n \in 0 .. MaxPly : Minimax[n] \in MinimaxValues
  <2> DEFINE S == {n \in Nat : n <= MaxPly => Minimax[n] \in MinimaxValues}
  <2>1. 0 \in S
    <3>1. Minimax[0] = start
      BY <1>4, <1>8, Numbers DEF start
    <3> QED
      BY <1>1, <3>1
  <2>2. ASSUME NEW n \in 0 .. MaxPly - 1, n \in S PROVE n + 1 \in S
    <3>1. /\ n + 1 \in 0 .. MaxPly /\ n + 1 \in Nat /\ n + 1 - 1 = n
          /\ Minimax[n] \in MinimaxValues
      BY <2>2, Numbers
    <3>2. n + 1 # 0 /\ Minimax[n + 1 - 1] \in MinimaxValues
      BY <3>1
    <3>3. Minimax[n + 1] \in MinimaxValues
      BY <1>11, <3>1, <3>2
    <3> QED
      BY <3>1, <3>3
  <2> HIDE DEF S
  <2>3. \A n \in 0 .. MaxPly : n \in S
    BY <2>1, <2>2, Numbers, UpTo
  <2> QED
    BY <2>3 DEF S
<1> QED
  BY <1>10, <1>12

LEMMA ReachedSteps ==
  ASSUME game \in Games, position \in Positions
  PROVE  /\ Reached[0] = {position}
         /\ \A n \in 1 .. MaxPly :
              Reached[n] = UNION {game.moves[p] : p \in Reached[n - 1]}
         /\ \A n \in 0 .. MaxPly : Reached[n] \in SUBSET Positions
<1> DEFINE V == SUBSET Positions
           Layer(X) == UNION {game.moves[p] : p \in X}
           F == [y \in V \X Nat |-> Layer(y[1])]
<1>1. \A X \in V : Layer(X) \in V
  <2>1. \A p \in Positions : game.moves[p] \in SUBSET Positions
    BY GameIs
  <2> QED
    BY <2>1
<1>2. F \in [V \X Nat -> V] /\ {position} \in V
  <2> HIDE DEF Layer
  <2> QED
    BY <1>1
<1>3. PICK g \in [0 .. MaxPly -> V] : Iterates(g, {position}, F, MaxPly)
  <2> HIDE DEF F, V
  <2> QED
    BY <1>2, Numbers, Recursion
<1>4. \A n \in 0 .. MaxPly :
        g[n] = IF n = 0 THEN {position} ELSE Layer(g[n - 1])
  <2>1. \A n \in 0 .. MaxPly :
          g[n] = IF n = 0 THEN {position} ELSE F[<<g[n - 1], n>>]
    <3> HIDE DEF F, V
    <3> QED
      BY <1>3 DEF Iterates
  <2>2. ASSUME NEW n \in 0 .. MaxPly, n # 0
        PROVE  F[<<g[n - 1], n>>] = Layer(g[n - 1])
    <3>1. g[n - 1] \in V /\ n \in Nat
      BY <1>3, <2>2, Numbers
    <3> HIDE DEF Layer, V
    <3> QED
      BY <3>1
  <2> HIDE DEF F, Layer, V
  <2> QED
    BY <2>1, <2>2
<1>5. g = [n \in 0 .. MaxPly |->
             IF n = 0 THEN {position} ELSE Layer(g[n - 1])]
  <2>1. g = [n \in 0 .. MaxPly |-> g[n]]
    BY <1>3
  <2> HIDE DEF Layer
  <2> QED
    BY <1>4, <2>1
<1>6. Reached = CHOOSE f : f = [n \in 0 .. MaxPly |->
                  IF n = 0 THEN {position} ELSE Layer(f[n - 1])]
  BY DEF Reached
<1> HIDE DEF Layer
<1>7. Reached = [n \in 0 .. MaxPly |->
                   IF n = 0 THEN {position} ELSE Layer(Reached[n - 1])]
  BY <1>5, <1>6
<1>8. \A n \in 0 .. MaxPly :
        Reached[n] = IF n = 0 THEN {position} ELSE Layer(Reached[n - 1])
  BY <1>7
<1>9. ASSUME NEW n \in 0 .. MaxPly, n # 0, Reached[n - 1] \in V
      PROVE  Reached[n] \in V
  <2> HIDE DEF V
  <2> QED
    BY <1>1, <1>8, <1>9
<1>10. \A n \in 0 .. MaxPly : Reached[n] \in V
  <2> DEFINE S == {n \in Nat : n <= MaxPly => Reached[n] \in V}
  <2>1. 0 \in S
    BY <1>2, <1>8, Numbers
  <2>2. ASSUME NEW n \in 0 .. MaxPly - 1, n \in S PROVE n + 1 \in S
    <3>1. /\ n + 1 \in 0 .. MaxPly /\ n + 1 \in Nat /\ n + 1 - 1 = n
          /\ Reached[n] \in V
      BY <2>2, Numbers
    <3>2. n + 1 # 0 /\ Reached[n + 1 - 1] \in V
      BY <3>1
    <3>3. Reached[n + 1] \in V
      BY <1>9, <3>1, <3>2
    <3> QED
      BY <3>1, <3>3
  <2> HIDE DEF S
  <2>3. \A n \in 0 .. MaxPly : n \in S
    BY <2>1, <2>2, Numbers, UpTo
  <2> QED
    BY <2>3 DEF S
<1>11. Reached[0] = {position} /\ \A n \in 1 .. MaxPly :
                                     Reached[n] = Layer(Reached[n - 1])
  <2>1. 0 \in 0 .. MaxPly /\ \A n \in 1 .. MaxPly : n \in 0 .. MaxPly /\ n # 0
    BY Numbers
  <2> QED
    BY <1>8, <2>1
<1> QED
  BY <1>10, <1>11 DEF Layer

------------------------------------------------------------------------------
(* Claims of mate.                                                         *)

LEMMA MovesOfIs ==
  ASSUME game \in Games, NEW f \in Frames
  PROVE  /\ MovesOf(f) \in SUBSET Positions
         /\ MovesOf(f) \subseteq game.moves[f.pos]
         /\ f.at # "captures" => MovesOf(f) = game.moves[f.pos]
         /\ InCheck(f.pos) => MovesOf(f) = game.moves[f.pos]
<1>1. f.pos \in Positions /\ f.depth \in Nat
  BY DEF Frames
<1>2. game.moves[f.pos] \in SUBSET Positions
  BY <1>1, GameIs
<1>3. QuiescenceMoves(f.pos, f.depth) \subseteq game.moves[f.pos]
  BY <1>1, GameIs
<1>4. InCheck(f.pos) => QuiescenceMoves(f.pos, f.depth) = game.moves[f.pos]
  BY <1>1, GameIs
<1> QED
  BY <1>2, <1>3, <1>4 DEF MovesOf

\* A weaker claim.
LEMMA ClaimsWeaken ==
  ASSUME NEW p, NEW k \in 0 .. MaxPly, NEW v \in Int, NEW w \in Int
  PROVE  /\ w <= v /\ Claims(p, v, k, TRUE, FALSE) => Claims(p, w, k, TRUE, FALSE)
         /\ v <= w /\ Claims(p, v, k, FALSE, TRUE) => Claims(p, w, k, FALSE, TRUE)
<1>1. ASSUME w <= v, Claims(p, v, k, TRUE, FALSE), w >= MateThreshold
      PROVE  Mates(p, MateScore - w - k)
  <2>1. Mates(p, MateScore - v - k)
    BY <1>1, Numbers DEF Claims
  <2>2. MateScore - v - k \in 0 .. MateHorizon
    BY <2>1 DEF Mates
  <2>3. /\ MateScore - w - k \in 0 .. MateHorizon /\ MateScore - v - k \in Int
        /\ MateScore - v - k <= MateScore - w - k
    BY <1>1, <2>2, Numbers
  <2> QED
    BY <2>1, <2>3, MatesGrow
<1>2. ASSUME v <= w, Claims(p, v, k, FALSE, TRUE), w <= -MateThreshold
      PROVE  Mated(p, MateScore + w - k)
  <2>1. Mated(p, MateScore + v - k)
    BY <1>2, Numbers DEF Claims
  <2>2. MateScore + v - k \in 0 .. MateHorizon
    BY <2>1 DEF Mated
  <2>3. /\ MateScore + w - k \in 0 .. MateHorizon /\ MateScore + v - k \in Int
        /\ MateScore + v - k <= MateScore + w - k
    BY <1>2, <2>2, Numbers
  <2> QED
    BY <2>1, <2>3, MatesGrow
<1> QED
  BY <1>1, <1>2 DEF Claims

\* What a move into a lost position is worth.
LEMMA ClaimsTurn ==
  ASSUME game \in Games, NEW p \in Positions, NEW m \in game.moves[p],
         NEW k \in 0 .. MaxPly, NEW v \in Int, Claims(m, v, k + 1, FALSE, TRUE)
  PROVE  Claims(p, -v, k, TRUE, FALSE)
<1> SUFFICES ASSUME -v >= MateThreshold
             PROVE  Mates(p, MateScore - (-v) - k)
  BY DEF Claims
<1>1. v <= -MateThreshold
  BY Numbers
<1>2. Mated(m, MateScore + v - (k + 1))
  BY <1>1 DEF Claims
<1>3. MateScore + v - (k + 1) \in 0 .. MateHorizon
  BY <1>2 DEF Mated
<1>4. /\ MateScore - (-v) - k \in 0 .. MateHorizon
      /\ MateScore - (-v) - k > 0
      /\ MateScore - (-v) - k - 1 = MateScore + v - (k + 1)
  BY <1>1, <1>3, Numbers
<1> QED
  BY <1>2, <1>4, ForcedAt

\* All moves lead to positions won by the other side.
LEMMA ClaimsLost ==
  ASSUME game \in Games, NEW p \in Positions, NEW k \in 0 .. MaxPly, NEW v \in Int,
         game.moves[p] # {}, v <= -MateThreshold,
         \A m \in game.moves[p] : Mates(m, MateScore + v - k - 1)
  PROVE  Claims(p, v, k, FALSE, TRUE)
<1> DEFINE n == MateScore + v - k
<1>0. MateScore + v - k - 1 = n - 1
  BY Numbers
<1>1. PICK m \in game.moves[p] : Mates(m, n - 1)
  <2> HIDE DEF n
  <2> QED
    BY <1>0
<1>2. n - 1 \in 0 .. MateHorizon
  BY <1>1 DEF Mates
<1>3. n \in 0 .. MateHorizon /\ n > 0
  BY <1>2, Numbers
<1>4. Mated(p, n)
  <2> HIDE DEF n
  <2>1. \A q \in game.moves[p] : Mates(q, n - 1)
    BY <1>0
  <2> QED
    BY <1>3, <2>1, ForcedAt
<1> QED
  BY <1>4 DEF Claims

LEMMA ClaimsTerminal ==
  ASSUME game \in Games, NEW p \in Positions, NEW k \in 0 .. MaxPly,
         game.moves[p] = {}
  PROVE  Claims(p, TerminalScore(p, k), k, TRUE, TRUE)
<1>1. TerminalScore(p, k) < MateThreshold
  BY TerminalIs, Numbers, ScoreIs
<1>2. ASSUME TerminalScore(p, k) <= -MateThreshold
      PROVE  Mated(p, MateScore + TerminalScore(p, k) - k)
  <2>1. InCheck(p)
    BY <1>2, TerminalIs, Numbers
  <2>2. MateScore + TerminalScore(p, k) - k = 0 /\ 0 \in 0 .. MateHorizon
    BY <2>1, TerminalIs, Numbers
  <2>3. Mated(p, 0)
    BY <2>1, <2>2, ForcedAt
  <2> QED
    BY <2>2, <2>3
<1> QED
  BY <1>1, <1>2, TerminalIs, ScoreIs, Numbers DEF Claims

\* A score that is no mate's claims nothing.
LEMMA ClaimsNothing ==
  ASSUME NEW p, NEW k, NEW v \in Int, NEW lower \in BOOLEAN, NEW upper \in BOOLEAN
  PROVE  /\ v < MateThreshold => Claims(p, v, k, lower, FALSE)
         /\ v > -MateThreshold => Claims(p, v, k, FALSE, upper)
         /\ v < MateThreshold /\ v > -MateThreshold => Claims(p, v, k, lower, upper)
BY Numbers DEF Claims

\* To the table and back.
LEMMA ClaimsToTable ==
  ASSUME NEW p, NEW k \in 0 .. MaxPly, NEW v \in Int,
         NEW lower \in BOOLEAN, NEW upper \in BOOLEAN,
         Claims(p, v, k, lower, upper)
  PROVE  /\ ScoreToTt(v, k) \in Int
         /\ Claims(p, ScoreToTt(v, k), 0, lower, upper)
<1>1. CASE v >= MateThreshold
  <2>1. ScoreToTt(v, k) = v + k /\ v + k > -MateThreshold
        /\ MateScore - (v + k) - 0 = MateScore - v - k
    BY <1>1, Numbers DEF ScoreToTt
  <2> QED
    BY <1>1, <2>1, Numbers DEF Claims
<1>2. CASE v <= -MateThreshold
  <2>1. ScoreToTt(v, k) = v - k /\ v - k < MateThreshold
        /\ MateScore + (v - k) - 0 = MateScore + v - k
    BY <1>2, Numbers DEF ScoreToTt
  <2> QED
    BY <1>2, <2>1, Numbers DEF Claims
<1>3. CASE v < MateThreshold /\ v > -MateThreshold
  <2>1. ScoreToTt(v, k) = v
    BY <1>3, Numbers DEF ScoreToTt
  <2> QED
    BY <1>3, <2>1, ClaimsNothing
<1> QED
  BY <1>1, <1>2, <1>3, Numbers

LEMMA ClaimsFromTable ==
  ASSUME NEW p, NEW k \in 0 .. MaxPly, NEW e \in Int,
         NEW lower \in BOOLEAN, NEW upper \in BOOLEAN,
         Claims(p, e, 0, lower, upper)
  PROVE  /\ ScoreFromTt(e, k) \in Int
         /\ Claims(p, ScoreFromTt(e, k), k, lower, upper)
         /\ lower => ScoreFromTt(e, k) <= MateScore
         /\ upper => ScoreFromTt(e, k) >= -MateScore
<1>1. CASE e >= MateThreshold
  <2>1. ScoreFromTt(e, k) = e - k /\ e - k > -MateThreshold
        /\ MateScore - (e - k) - k = MateScore - e - 0
    BY <1>1, Numbers DEF ScoreFromTt
  <2>2. lower => Mates(p, MateScore - e - 0)
    BY <1>1 DEF Claims
  <2>3. lower => MateScore - e >= 0
    BY <2>2, Numbers DEF Mates
  <2> QED
    BY <1>1, <2>1, <2>2, <2>3, Numbers DEF Claims
<1>2. CASE e <= -MateThreshold
  <2>1. ScoreFromTt(e, k) = e + k /\ e + k < MateThreshold
        /\ MateScore + (e + k) - k = MateScore + e - 0
    BY <1>2, Numbers DEF ScoreFromTt
  <2>2. upper => Mated(p, MateScore + e - 0)
    BY <1>2 DEF Claims
  <2>3. upper => MateScore + e >= 0
    BY <2>2, Numbers DEF Mated
  <2> QED
    BY <1>2, <2>1, <2>2, <2>3, Numbers DEF Claims
<1>3. CASE e < MateThreshold /\ e > -MateThreshold
  <2>1. ScoreFromTt(e, k) = e
    BY <1>3, Numbers DEF ScoreFromTt
  <2> QED
    BY <1>3, <2>1, Numbers DEF Claims
<1> QED
  BY <1>1, <1>2, <1>3, Numbers

------------------------------------------------------------------------------
(* The stack.                                                              *)

\* The stack t is s with f in place of its top, s with f in place of its top and
\* c called, and s after its top has returned.
IsReplaced(t, s, f) == t = <<f>> \o Tail(s)
IsPushed(t, s, c, f) == t = <<c, f>> \o Tail(s)
IsPopped(t, s) == t = Tail(s)

LEMMA StackParts ==
  ASSUME NEW s \in Seq(Frames), s # <<>>
  PROVE  /\ Len(s) \in Nat /\ Len(s) >= 1
         /\ Head(s) = s[1] /\ Head(s) \in Frames
         /\ \A i \in 1 .. Len(s) : s[i] \in Frames
         /\ Tail(s) \in Seq(Frames) /\ Len(Tail(s)) = Len(s) - 1
         /\ \A i \in 1 .. Len(s) - 1 : Tail(s)[i] = s[i + 1]
BY SMT

LEMMA ReplacedIs ==
  ASSUME NEW s \in Seq(Frames), s # <<>>, NEW f \in Frames,
         NEW t, IsReplaced(t, s, f)
  PROVE  /\ t \in Seq(Frames) /\ Len(t) = Len(s) /\ t # <<>>
         /\ t[1] = f /\ Head(t) = f
         /\ \A i \in 2 .. Len(s) : t[i] = s[i]
<1>1. /\ Tail(s) \in Seq(Frames) /\ Len(Tail(s)) = Len(s) - 1
      /\ Len(s) \in Nat /\ Len(s) >= 1
      /\ \A i \in 1 .. Len(s) - 1 : Tail(s)[i] = s[i + 1]
  BY StackParts
<1>2. <<f>> \in Seq(Frames) /\ Len(<<f>>) = 1 /\ <<f>>[1] = f
  OBVIOUS
<1>3. /\ t \in Seq(Frames) /\ Len(t) = Len(s)
      /\ \A i \in 1 .. Len(s) : t[i] = IF i <= 1 THEN <<f>>[i] ELSE Tail(s)[i - 1]
  BY <1>1, <1>2, ConcatProperties DEF IsReplaced
<1>4. t[1] = f /\ t # <<>>
  BY <1>1, <1>2, <1>3
<1>5. \A i \in 2 .. Len(s) : t[i] = s[i]
  <2> TAKE i \in 2 .. Len(s)
  <2>1. i \in 1 .. Len(s) /\ ~(i <= 1) /\ i - 1 \in 1 .. Len(s) - 1
        /\ i - 1 + 1 = i
    BY <1>1
  <2> QED
    BY <1>1, <1>3, <2>1
<1> QED
  BY <1>3, <1>4, <1>5, HeadTailProperties

LEMMA PushedIs ==
  ASSUME NEW s \in Seq(Frames), s # <<>>, NEW c \in Frames, NEW f \in Frames,
         NEW t, IsPushed(t, s, c, f)
  PROVE  /\ t \in Seq(Frames) /\ Len(t) = Len(s) + 1 /\ t # <<>>
         /\ t[1] = c /\ Head(t) = c /\ t[2] = f
         /\ \A i \in 3 .. Len(s) + 1 : t[i] = s[i - 1]
<1>1. /\ Tail(s) \in Seq(Frames) /\ Len(Tail(s)) = Len(s) - 1
      /\ Len(s) \in Nat /\ Len(s) >= 1
      /\ \A i \in 1 .. Len(s) - 1 : Tail(s)[i] = s[i + 1]
  BY StackParts
<1>2. <<c, f>> \in Seq(Frames) /\ Len(<<c, f>>) = 2
      /\ <<c, f>>[1] = c /\ <<c, f>>[2] = f
  OBVIOUS
<1>3. /\ t \in Seq(Frames) /\ Len(t) = Len(s) + 1
      /\ \A i \in 1 .. Len(s) + 1 :
           t[i] = IF i <= 2 THEN <<c, f>>[i] ELSE Tail(s)[i - 2]
  BY <1>1, <1>2, ConcatProperties DEF IsPushed
<1>4. t[1] = c /\ t[2] = f /\ t # <<>>
  BY <1>1, <1>2, <1>3
<1>5. \A i \in 3 .. Len(s) + 1 : t[i] = s[i - 1]
  <2> TAKE i \in 3 .. Len(s) + 1
  <2>1. i \in 1 .. Len(s) + 1 /\ ~(i <= 2) /\ i - 2 \in 1 .. Len(s) - 1
        /\ i - 2 + 1 = i - 1
    BY <1>1
  <2> QED
    BY <1>1, <1>3, <2>1
<1> QED
  BY <1>3, <1>4, <1>5, HeadTailProperties

LEMMA PoppedIs ==
  ASSUME NEW s \in Seq(Frames), s # <<>>, NEW t, IsPopped(t, s)
  PROVE  /\ t \in Seq(Frames) /\ Len(t) = Len(s) - 1 /\ Len(t) \in Nat
         /\ \A i \in 1 .. Len(t) : t[i] = s[i + 1]
         /\ Len(s) > 1 => t # <<>> /\ Head(t) = s[2]
<1>1. /\ t \in Seq(Frames) /\ Len(t) = Len(s) - 1 /\ Len(t) \in Nat
      /\ Len(s) \in Nat
      /\ \A i \in 1 .. Len(t) : t[i] = s[i + 1]
  BY StackParts DEF IsPopped
<1>2. ASSUME Len(s) > 1 PROVE t # <<>> /\ Head(t) = s[2]
  <2>1. Len(t) >= 1
    BY <1>1, <1>2
  <2>2. t # <<>> /\ Head(t) = t[1]
    BY <1>1, <2>1, HeadTailProperties
  <2>3. t[1] = s[1 + 1]
    BY <1>1, <2>1
  <2> QED
    BY <2>2, <2>3
<1> QED
  BY <1>1, <1>2

LEMMA OneMore ==
  ASSUME NEW n \in Nat
  PROVE  (2 = n + 1 <=> 1 = n) /\ (n >= 1 /\ 1 # n => n > 1)
OBVIOUS

\* The rules and the root stay, so what was true of frames still is.
LEMMA FramesKept ==
  ASSUME game' = game, position' = position
  PROVE  /\ \A f, k : Settled(f, k)' <=> Settled(f, k)
         /\ \A f, k : Busy(f, k)' <=> Busy(f, k)
         /\ \A s, v : StackOK(s, v)' <=> StackOK(s, v)
         /\ \A v, g, k : ResultOK(v, g, k)' <=> ResultOK(v, g, k)
         /\ \A e : EntryOK(e)' <=> EntryOK(e)
         /\ \A t : TableOK(t)' <=> TableOK(t)
<1>1. /\ \A p, n : Mates(p, n)' <=> Mates(p, n)
      /\ \A p, n : Mated(p, n)' <=> Mated(p, n)
      /\ \A p : InCheck(p)' <=> InCheck(p)
  BY GameKept
<1>2. \A p, v, k, lower, upper :
        Claims(p, v, k, lower, upper)' <=> Claims(p, v, k, lower, upper)
  BY <1>1 DEF Claims
<1>3. \A f : MovesOf(f)' = MovesOf(f) /\ Taken(f)' = Taken(f)
  BY DEF MovesOf, Taken, QuiescenceMoves, InCheck
<1>4. \A f, k : Frame(f, k)' <=> Frame(f, k)
  BY <1>3 DEF Frame
<1>5. \A f, k, done : Scored(f, k, done)' <=> Scored(f, k, done)
  <2>1. \A p, v, k : Claims(p, v, k, TRUE, FALSE)' <=> Claims(p, v, k, TRUE, FALSE)
    BY <1>1 DEF Claims
  <2>2. \A f, k, done : MovesScored(f, k, done)' <=> MovesScored(f, k, done)
    BY <1>1, <2>1, ZenonT(40) DEF MovesScored
  <2>3. ASSUME NEW f, NEW k, NEW done
        PROVE  CapturesScored(f, k, done)' <=> CapturesScored(f, k, done)
    <3>1. \A n : (\A m \in done : Mates(m, n)') <=> \A m \in done : Mates(m, n)
      BY <1>1
    <3>2. game'.eval[f.pos] = game.eval[f.pos]
      OBVIOUS
    <3>3. InCheck(f.pos)' <=> InCheck(f.pos)
      BY <1>1
    <3> QED
      BY <2>1, <3>1, <3>2, <3>3, Zenon DEF CapturesScored
  <2> QED
    BY <2>2, <2>3 DEF Scored
<1>6. \A f, k : Settled(f, k)' <=> Settled(f, k)
  BY <1>3, <1>4, <1>5 DEF Settled
<1>7. \A f, k : Busy(f, k)' <=> Busy(f, k)
  BY <1>3, <1>4, <1>5 DEF Busy
<1>8. \A s, v : StackOK(s, v)' <=> StackOK(s, v)
  BY <1>6, <1>7 DEF StackOK
<1>9. \A v, g, k : ResultOK(v, g, k)' <=> ResultOK(v, g, k)
  BY <1>2 DEF ResultOK
<1>10. \A e : EntryOK(e)' <=> EntryOK(e)
  BY <1>2 DEF EntryOK
<1>11. \A t : TableOK(t)' <=> TableOK(t)
  BY <1>10 DEF TableOK
<1> QED
  BY <1>6, <1>7, <1>8, <1>9, <1>10, <1>11

\* f in place of the node on top, with the window it was called with.
LEMMA Replaced ==
  ASSUME NEW s \in Seq(Frames), s # <<>>, NEW f \in Frames, NEW v, StackOK(s, v),
         f.at = "root" <=> Head(s).at = "root", f.pos = Head(s).pos,
         f.original = Head(s).original, f.beta = Head(s).beta,
         Settled(f, Len(s) - 1), NEW t, IsReplaced(t, s, f)
  PROVE  t \in Seq(Frames) /\ t # <<>> /\ Head(t) = f /\ StackOK(t, NoMove)
<1>1. /\ t \in Seq(Frames) /\ Len(t) = Len(s) /\ t # <<>>
      /\ t[1] = f /\ Head(t) = f
      /\ \A i \in 2 .. Len(s) : t[i] = s[i]
  BY ReplacedIs
<1>2. Len(s) \in Nat /\ Len(s) >= 1 /\ Head(s) = s[1]
  BY StackParts
<1>3. Len(t) - 1 <= MaxPly
  BY <1>1 DEF StackOK
<1>4. \A i \in 1 .. Len(t) : IF i = Len(t) THEN t[i].at = "root"
                                         ELSE t[i].at # "root"
  <2> TAKE i \in 1 .. Len(t)
  <2>1. IF i = Len(s) THEN s[i].at = "root" ELSE s[i].at # "root"
    BY <1>1 DEF StackOK
  <2>2. CASE i = 1
    BY <1>1, <1>2, <2>1, <2>2
  <2>3. CASE i # 1
    <3>1. t[i] = s[i]
      BY <1>1, <1>2, <2>3
    <3> QED
      BY <1>1, <2>1, <3>1
  <2> QED
    BY <2>2, <2>3
<1>5. \A i \in 1 .. Len(t) : i > 1 => Busy(t[i], Len(t) - i)
  <2> SUFFICES ASSUME NEW i \in 1 .. Len(t), i > 1
               PROVE  Busy(t[i], Len(t) - i)
    OBVIOUS
  <2>1. i \in 2 .. Len(s)
    BY <1>1, <1>2
  <2>2. Busy(s[i], Len(s) - i)
    BY <1>1 DEF StackOK
  <2> QED
    BY <1>1, <2>1, <2>2
<1>6. \A i \in 1 .. Len(t) - 1 : Linked(t[i], t[i + 1])
  <2> TAKE i \in 1 .. Len(t) - 1
  <2>1. Linked(s[i], s[i + 1])
    BY <1>1 DEF StackOK
  <2>2. t[i + 1] = s[i + 1]
    <3>1. i + 1 \in 2 .. Len(s)
      BY <1>1, <1>2
    <3> QED
      BY <1>1, <3>1
  <2>3. CASE i = 1
    BY <1>1, <1>2, <2>1, <2>2, <2>3 DEF Linked
  <2>4. CASE i # 1
    <3>1. t[i] = s[i]
      BY <1>1, <1>2, <2>4
    <3> QED
      BY <2>1, <2>2, <3>1
  <2> QED
    BY <2>3, <2>4
<1>7. Settled(t[1], Len(t) - 1)
  BY <1>1
<1> QED
  BY <1>1, <1>3, <1>4, <1>5, <1>6, <1>7 DEF StackOK

\* The node on top, now f, calls c.
LEMMA Pushed ==
  ASSUME NEW s \in Seq(Frames), s # <<>>, NEW c \in Frames, NEW f \in Frames,
         StackOK(s, NoMove), Len(s) - 1 < MaxPly,
         f.at = "root" <=> Head(s).at = "root", f.pos = Head(s).pos,
         f.original = Head(s).original, f.beta = Head(s).beta,
         c.at # "root", Linked(c, f),
         Busy(f, Len(s) - 1), Settled(c, Len(s)), NEW t, IsPushed(t, s, c, f)
  PROVE  t \in Seq(Frames) /\ t # <<>> /\ Head(t) = c /\ StackOK(t, NoMove)
<1>1. /\ t \in Seq(Frames) /\ Len(t) = Len(s) + 1 /\ t # <<>>
      /\ t[1] = c /\ Head(t) = c /\ t[2] = f
      /\ \A i \in 3 .. Len(s) + 1 : t[i] = s[i - 1]
  BY PushedIs
<1>2. Len(s) \in Nat /\ Len(s) >= 1 /\ Head(s) = s[1]
  BY StackParts
<1>3. Len(t) - 1 <= MaxPly
  BY <1>1, <1>2, Numbers
<1>4. \A i \in 1 .. Len(t) : i = 1 \/ i = 2 \/ i \in 3 .. Len(s) + 1
  BY <1>1, <1>2
<1>5. \A i \in 1 .. Len(t) : IF i = Len(t) THEN t[i].at = "root"
                                         ELSE t[i].at # "root"
  <2> TAKE i \in 1 .. Len(t)
  <2>1. \A j \in 1 .. Len(s) : IF j = Len(s) THEN s[j].at = "root"
                                         ELSE s[j].at # "root"
    BY DEF StackOK
  <2>2. CASE i = 1
    BY <1>1, <1>2, <2>2
  <2>3. CASE i = 2
    <3>1. 1 \in 1 .. Len(s)
      BY <1>2
    <3>2. IF 1 = Len(s) THEN s[1].at = "root" ELSE s[1].at # "root"
      BY <2>1, <3>1
    <3>3. i = Len(t) <=> 1 = Len(s)
      <4>1. Len(t) = Len(s) + 1
        BY <1>1
      <4>2. Len(s) \in Nat
        BY <1>2
      <4>3. 2 = Len(s) + 1 <=> 1 = Len(s)
        BY <4>2, OneMore
      <4> QED
        BY <2>3, <4>1, <4>3, Zenon
    <3>4. f.at = "root" <=> s[1].at = "root"
      BY <1>2
    <3>5. t[i] = f
      BY <1>1, <2>3
    <3> QED
      BY <3>2, <3>3, <3>4, <3>5
  <2>4. CASE i \in 3 .. Len(s) + 1
    <3>1. i - 1 \in 1 .. Len(s)
      BY <1>2, <2>4
    <3>2. IF i - 1 = Len(s) THEN s[i - 1].at = "root" ELSE s[i - 1].at # "root"
      BY <2>1, <3>1
    <3>3. i - 1 = Len(s) <=> i = Len(t)
      BY <1>1, <1>2, <2>4
    <3> QED
      BY <1>1, <2>4, <3>2, <3>3
  <2> QED
    BY <1>4, <2>2, <2>3, <2>4
<1>6. \A i \in 1 .. Len(t) : i > 1 => Busy(t[i], Len(t) - i)
  <2> SUFFICES ASSUME NEW i \in 1 .. Len(t), i > 1
               PROVE  Busy(t[i], Len(t) - i)
    OBVIOUS
  <2>1. CASE i = 2
    <3>1. Len(t) - i = Len(s) - 1
      BY <1>1, <1>2, <2>1
    <3> QED
      BY <1>1, <2>1, <3>1
  <2>2. CASE i \in 3 .. Len(s) + 1
    <3>1. i - 1 \in 1 .. Len(s) /\ i - 1 > 1 /\ Len(s) - (i - 1) = Len(t) - i
      BY <1>1, <1>2, <2>2
    <3>2. Busy(s[i - 1], Len(s) - (i - 1))
      BY <3>1 DEF StackOK
    <3> QED
      BY <1>1, <2>2, <3>1, <3>2
  <2> QED
    BY <1>4, <2>1, <2>2
<1>7. \A i \in 1 .. Len(t) - 1 : Linked(t[i], t[i + 1])
  <2> TAKE i \in 1 .. Len(t) - 1
  <2>1. CASE i = 1
    BY <1>1, <2>1
  <2>2. CASE i = 2
    <3>1. 3 \in 3 .. Len(s) + 1 /\ 1 \in 1 .. Len(s) - 1
      BY <1>1, <1>2, <2>2
    <3>2. t[3] = s[2] /\ Linked(s[1], s[2])
      BY <1>1, <3>1 DEF StackOK
    <3> QED
      BY <1>1, <1>2, <2>2, <3>2 DEF Linked
  <2>3. CASE i # 1 /\ i # 2
    <3>1. /\ i \in 3 .. Len(s) + 1 /\ i + 1 \in 3 .. Len(s) + 1
          /\ i - 1 \in 1 .. Len(s) - 1 /\ i - 1 + 1 = i /\ i + 1 - 1 = i
      BY <1>1, <1>2, <2>3
    <3>2. Linked(s[i - 1], s[i])
      <4>1. Linked(s[i - 1], s[i - 1 + 1])
        BY <3>1 DEF StackOK
      <4> QED
        BY <3>1, <4>1
    <3>3. t[i] = s[i - 1] /\ t[i + 1] = s[i]
      BY <1>1, <3>1
    <3> QED
      BY <3>2, <3>3, Zenon
  <2> QED
    BY <2>1, <2>2, <2>3
<1>8. Settled(t[1], Len(t) - 1)
  BY <1>1, <1>2
<1> QED
  BY <1>1, <1>3, <1>5, <1>6, <1>7, <1>8 DEF StackOK

\* The node on top returns v.
LEMMA Popped ==
  ASSUME NEW s \in Seq(Frames), s # <<>>, NEW w, StackOK(s, w),
         Head(s).at # "root", NEW v \in Int, NEW t, IsPopped(t, s)
  PROVE  /\ t \in Seq(Frames) /\ t # <<>> /\ StackOK(t, v)
         /\ Linked(Head(s), Head(t)) /\ Len(t) = Len(s) - 1
<1>1. Len(s) \in Nat /\ Len(s) >= 1 /\ Head(s) = s[1]
  BY StackParts
<1>2. Len(s) > 1
  <2>1. IF 1 = Len(s) THEN s[1].at = "root" ELSE s[1].at # "root"
    <3>1. 1 \in 1 .. Len(s)
      BY <1>1
    <3> QED
      BY <3>1 DEF StackOK
  <2>2. 1 # Len(s)
    BY <1>1, <2>1, Zenon
  <2> QED
    BY <1>1, <2>2, OneMore
<1>3. /\ t \in Seq(Frames) /\ Len(t) = Len(s) - 1 /\ Len(t) \in Nat
      /\ \A i \in 1 .. Len(t) : t[i] = s[i + 1]
      /\ t # <<>> /\ Head(t) = s[2]
  BY <1>2, PoppedIs
<1>4. Len(t) - 1 <= MaxPly
  <2>1. Len(s) - 1 <= MaxPly
    BY DEF StackOK
  <2> QED
    BY <1>1, <1>3, <2>1, Numbers
<1>5. \A i \in 1 .. Len(t) : /\ i + 1 \in 1 .. Len(s) /\ i + 1 > 1
                            /\ Len(s) - (i + 1) = Len(t) - i
                            /\ i + 1 = Len(s) <=> i = Len(t)
  BY <1>1, <1>3
<1>6. \A i \in 1 .. Len(t) : IF i = Len(t) THEN t[i].at = "root"
                                         ELSE t[i].at # "root"
  <2> TAKE i \in 1 .. Len(t)
  <2>1. IF i + 1 = Len(s) THEN s[i + 1].at = "root" ELSE s[i + 1].at # "root"
    BY <1>5 DEF StackOK
  <2> QED
    BY <1>3, <1>5, <2>1
<1>7. \A i \in 1 .. Len(t) : Busy(t[i], Len(t) - i)
  <2> TAKE i \in 1 .. Len(t)
  <2>1. Busy(s[i + 1], Len(s) - (i + 1))
    BY <1>5 DEF StackOK
  <2> QED
    BY <1>3, <1>5, <2>1
<1>8. \A i \in 1 .. Len(t) - 1 : Linked(t[i], t[i + 1])
  <2> TAKE i \in 1 .. Len(t) - 1
  <2>1. i + 1 \in 1 .. Len(s) - 1 /\ i \in 1 .. Len(t) /\ i + 1 \in 1 .. Len(t)
    BY <1>1, <1>3
  <2>2. Linked(s[i + 1], s[i + 1 + 1])
    BY <2>1 DEF StackOK
  <2> QED
    BY <1>3, <2>1, <2>2
<1>9. v # NoMove
  BY SearchConstants
<1>10. StackOK(t, v)
  BY <1>4, <1>6, <1>7, <1>8, <1>9 DEF StackOK
<1>11. Linked(s[1], s[2])
  <2>1. 1 \in 1 .. Len(s) - 1 /\ 1 + 1 = 2
    BY <1>1, <1>2
  <2>2. Linked(s[1], s[1 + 1])
    BY <2>1 DEF StackOK
  <2> QED
    BY <2>1, <2>2
<1> QED
  BY <1>1, <1>3, <1>10, <1>11

------------------------------------------------------------------------------
(* Steps of the invariant.                                                 *)

\* What is true of the node on top.
LEMMA OnTop ==
  ASSUME MateInv, Searching
  PROVE  /\ stack \in Seq(Frames) /\ stack # <<>>
         /\ Node \in Frames /\ Node = Head(stack)
         /\ Ply \in 0 .. MaxPly /\ Len(stack) = Ply + 1 /\ Ply = Len(stack) - 1
         /\ result = NoMove => Settled(Node, Ply)
         /\ result # NoMove =>
              Busy(Node, Ply) /\ ResultOK(result, Node, Ply) /\ result \in Scores
<1>1. stack \in Seq(Frames) /\ stack # <<>> /\ StackOK(stack, result)
  BY DEF MateInv, TypeOK, Searching
<1>2. Len(stack) \in Nat /\ Len(stack) >= 1 /\ Head(stack) = stack[1]
      /\ Head(stack) \in Frames
  BY <1>1, StackParts
<1>3. Len(stack) - 1 <= MaxPly
  BY <1>1 DEF StackOK
<1>4. Ply \in 0 .. MaxPly /\ Len(stack) = Ply + 1 /\ Ply = Len(stack) - 1
  BY <1>2, <1>3, Numbers DEF Ply
<1>5. result = NoMove => Settled(Node, Ply)
  BY <1>1, <1>2, <1>4 DEF StackOK, Node
<1>6. ASSUME result # NoMove PROVE Busy(Node, Ply)
  <2>1. 1 \in 1 .. Len(stack)
    BY <1>2
  <2>2. Busy(stack[1], Len(stack) - 1)
    BY <1>1, <1>6, <2>1 DEF StackOK
  <2> QED
    BY <1>2, <1>4, <2>2 DEF Node
<1>7. result # NoMove => ResultOK(result, Node, Ply) /\ result \in Scores
  BY DEF MateInv, TypeOK
<1> QED
  BY <1>1, <1>2, <1>4, <1>5, <1>6, <1>7 DEF Node

\* A step within a search.
LEMMA SearchKept ==
  ASSUME MateInv, Searching, UNCHANGED searchVars,
         stack' \in Seq(Frames), stack' # <<>>, StackOK(stack', result'),
         tt' \in [Slots -> Entries \cup {NoMove}], TableOK(tt'),
         \/ result' = NoMove
         \/ /\ result' \in Scores
            /\ ResultOK(result', Head(stack'), Len(stack') - 1)
  PROVE  MateInv'
<1>1. game' = game /\ position' = position
  BY DEF searchVars
<1>2. TypeOK'
  BY DEF MateInv, TypeOK, searchVars
<1>3. StackOK(stack, result)' /\ TableOK(tt)'
  BY <1>1, FramesKept
<1>4. ASSUME result' # NoMove PROVE Searching' /\ ResultOK(result, Node, Ply)'
  BY <1>1, <1>4, FramesKept DEF Searching, Node, Ply
<1>5. (depth >= 1 /\ searches >= 1)'
  BY DEF MateInv, searchVars
<1> QED
  BY <1>2, <1>3, <1>4, <1>5 DEF MateInv

LEMMA BecomesKept ==
  ASSUME MateInv, Searching, UNCHANGED <<searchVars, tt>>, result' = NoMove,
         NEW f \in Frames, Becomes(f),
         f.at = "root" <=> Node.at = "root", f.pos = Node.pos,
         f.original = Node.original, f.beta = Node.beta, Settled(f, Ply)
  PROVE  MateInv'
<1>1. /\ stack \in Seq(Frames) /\ stack # <<>> /\ Node = Head(stack)
      /\ Ply = Len(stack) - 1
  BY OnTop
<1>2. StackOK(stack, result) /\ TableOK(tt)
      /\ tt \in [Slots -> Entries \cup {NoMove}]
  BY DEF MateInv, TypeOK
<1>3. IsReplaced(stack', stack, f)
  BY DEF Becomes, IsReplaced
<1>4. stack' \in Seq(Frames) /\ stack' # <<>> /\ StackOK(stack', NoMove)
  BY <1>1, <1>2, <1>3, Replaced
<1> QED
  BY <1>2, <1>4, SearchKept

LEMMA ReturnKept ==
  ASSUME MateInv, Searching, UNCHANGED searchVars, Node.at # "root",
         tt' \in [Slots -> Entries \cup {NoMove}], TableOK(tt'),
         NEW v \in Scores, Return(v),
         v > Node.original => Claims(Node.pos, v, Ply, TRUE, FALSE),
         v < Node.beta => Claims(Node.pos, v, Ply, FALSE, TRUE)
  PROVE  MateInv'
<1>1. /\ stack \in Seq(Frames) /\ stack # <<>> /\ Node = Head(stack)
      /\ Ply = Len(stack) - 1
  BY OnTop
<1>2. StackOK(stack, result)
  BY DEF MateInv
<1>3. IsPopped(stack', stack) /\ result' = v /\ v \in Int
  BY ScoreIs DEF Return, IsPopped
<1>4. /\ stack' \in Seq(Frames) /\ stack' # <<>> /\ StackOK(stack', v)
      /\ Linked(Node, Head(stack')) /\ Len(stack') = Len(stack) - 1
  BY <1>1, <1>2, <1>3, Popped
<1>5. Len(stack') - 1 + 1 = Ply
  <2>1. Len(stack) \in Nat
    BY <1>1, StackParts
  <2> QED
    BY <1>1, <1>4, <2>1
<1>6. ResultOK(v, Head(stack'), Len(stack') - 1)
  BY <1>4, <1>5 DEF ResultOK, Linked
<1> QED
  BY <1>3, <1>4, <1>6, SearchKept

LEMMA StoredKept ==
  ASSUME MateInv, NEW p \in Positions, NEW d \in Nat, NEW s \in Int,
         NEW bound \in {"exact", "lower", "upper"},
         NEW move \in Positions \cup {NoMove},
         bound # "upper" => Claims(p, s, 0, TRUE, FALSE),
         bound # "lower" => Claims(p, s, 0, FALSE, TRUE)
  PROVE  /\ Stored(p, d, s, bound, move) \in [Slots -> Entries \cup {NoMove}]
         /\ TableOK(Stored(p, d, s, bound, move))
<1> DEFINE e == [key |-> p, depth |-> d, score |-> s, bound |-> bound,
                 best_move |-> move]
           there == SlotOf[p]
<1>1. tt \in [Slots -> Entries \cup {NoMove}] /\ TableOK(tt) /\ there \in Slots
  BY SearchConstants DEF MateInv, TypeOK
<1>2. e \in Entries /\ EntryOK(e)
  BY DEF Entries, EntryOK, Claims
<1>3. Stored(p, d, s, bound, move) = IF Keeps(tt[there], p, d) THEN tt
                                     ELSE [tt EXCEPT ![there] = e]
  BY DEF Stored
<1> HIDE DEF e, there
<1>4. /\ [tt EXCEPT ![there] = e] \in [Slots -> Entries \cup {NoMove}]
      /\ TableOK([tt EXCEPT ![there] = e])
  BY <1>1, <1>2 DEF TableOK
<1> QED
  BY <1>1, <1>3, <1>4

LEMMA FrameIs ==
  ASSUME NEW f \in Frames
  PROVE  /\ f.pos \in Positions /\ f.depth \in Nat /\ f.at \in Calls \cup Open
         /\ f.left \in SUBSET Positions
         /\ f.best \in Positions \cup {NoMove} /\ f.move \in Positions \cup {NoMove}
         /\ f.alpha \in Int /\ -Inf <= f.alpha /\ f.alpha <= MateScore
         /\ f.beta \in Int /\ -MateScore <= f.beta /\ f.beta <= Inf
         /\ f.original \in Int /\ -Inf <= f.original /\ f.original <= MateScore
         /\ f.score \in Int /\ -Inf <= f.score /\ f.score <= MateScore
         /\ f.alpha # -Inf => f.alpha \in Scores
         /\ f.beta # Inf => f.beta \in Scores
         /\ f.score # -Inf => f.score \in Scores
         /\ f.original # -Inf => f.original \in Scores
<1>1. \A x \in Scores \cup {-Inf} :
        x \in Int /\ -Inf <= x /\ x <= MateScore /\ (x # -Inf => x \in Scores)
  BY ScoreIs, Numbers
<1>2. \A x \in Scores \cup {Inf} :
        x \in Int /\ -MateScore <= x /\ x <= Inf /\ (x # Inf => x \in Scores)
  BY ScoreIs, Numbers
<1>3. /\ f.alpha \in Scores \cup {-Inf} /\ f.beta \in Scores \cup {Inf}
      /\ f.original \in Scores \cup {-Inf} /\ f.score \in Scores \cup {-Inf}
      /\ f.pos \in Positions /\ f.depth \in Nat /\ f.at \in Calls \cup Open
      /\ f.left \in SUBSET Positions
      /\ f.best \in Positions \cup {NoMove} /\ f.move \in Positions \cup {NoMove}
  BY DEF Frames
<1> QED
  BY <1>1, <1>2, <1>3

\* The move of a waiting node.
LEMMA MoveIs ==
  ASSUME game \in Games, NEW f \in Frames, NEW k \in 0 .. MaxPly, Busy(f, k)
  PROVE  /\ f.move \in game.moves[f.pos] /\ f.move \in Positions
         /\ game.moves[f.pos] # {} /\ k < MaxPly /\ k + 1 \in 0 .. MaxPly
         /\ Taken(f) = (Taken(f) \ {f.move}) \cup {f.move} /\ Taken(f) # {}
<1>1. f.move \in Taken(f) /\ f.at \in Open /\ Frame(f, k)
  BY DEF Busy
<1>2. f.move \in MovesOf(f)
  BY <1>1 DEF Taken
<1>3. f.move \in game.moves[f.pos] /\ f.move \in Positions
  BY <1>2, MovesOfIs
<1>4. k < MaxPly
  BY <1>1 DEF Frame
<1>5. k + 1 \in 0 .. MaxPly
  BY <1>4, Numbers
<1> QED
  BY <1>1, <1>3, <1>4, <1>5

\* What the value of its move tells a node: s for the node itself.
LEMMA MoveClaims ==
  ASSUME game \in Games, NEW f \in Frames, NEW k \in 0 .. MaxPly, Busy(f, k),
         NEW r \in Scores, ResultOK(r, f, k), NEW s, s = -r
  PROVE  /\ s \in Scores /\ s \in Int
         /\ s > f.alpha => Claims(f.pos, s, k, TRUE, FALSE)
         /\ s < f.beta /\ s <= -MateThreshold => Mates(f.move, MateScore + s - k - 1)
<1>1. r \in Int /\ -MateScore <= r /\ r <= MateScore
  BY ScoreIs
<1>2. s \in Scores /\ s \in Int /\ -s = r
  BY <1>1, ScoreIs, Numbers
<1>3. /\ f.alpha \in Int /\ f.beta \in Int /\ f.pos \in Positions
      /\ f.move \in game.moves[f.pos]
  BY FrameIs, MoveIs
<1>4. ASSUME s > f.alpha PROVE Claims(f.pos, s, k, TRUE, FALSE)
  <2>1. r < -f.alpha
    BY <1>1, <1>3, <1>4
  <2>2. Claims(f.move, r, k + 1, FALSE, TRUE)
    BY <2>1 DEF ResultOK
  <2>3. Claims(f.pos, -r, k, TRUE, FALSE)
    BY <1>1, <1>3, <2>2, ClaimsTurn
  <2> QED
    BY <2>3
<1>5. ASSUME s < f.beta, s <= -MateThreshold
      PROVE  Mates(f.move, MateScore + s - k - 1)
  <2>1. r > -f.beta
    BY <1>1, <1>3, <1>5
  <2>2. Claims(f.move, r, k + 1, TRUE, FALSE)
    BY <2>1 DEF ResultOK
  <2>3. r >= MateThreshold
    BY <1>1, <1>5, Numbers
  <2>4. Mates(f.move, MateScore - r - (k + 1))
    BY <2>2, <2>3 DEF Claims
  <2>5. MateScore - r - (k + 1) = MateScore + s - k - 1
    BY <1>1, Numbers
  <2> QED
    BY <2>4, <2>5
<1> QED
  BY <1>2, <1>4, <1>5

\* Moves that are won for the other side in time are won in more time.
LEMMA MatesOf ==
  ASSUME NEW done, NEW k \in 0 .. MaxPly, NEW a \in Int, NEW b \in Int, a <= b,
         b <= -MateThreshold, \A m \in done : Mates(m, MateScore + a - k - 1)
  PROVE  \A m \in done : Mates(m, MateScore + b - k - 1)
<1> TAKE m \in done
<1>1. Mates(m, MateScore + a - k - 1)
  OBVIOUS
<1>2. MateScore + a - k - 1 \in 0 .. MateHorizon
  BY <1>1 DEF Mates
<1>3. /\ MateScore + b - k - 1 \in 0 .. MateHorizon /\ MateScore + a - k - 1 \in Int
      /\ MateScore + a - k - 1 <= MateScore + b - k - 1
  BY <1>2, Numbers
<1> QED
  BY <1>1, <1>3, MatesGrow

\* The bound a node has, x, once the score of its move is in.
LEMMA BoundRaised ==
  ASSUME game \in Games, NEW f \in Frames, NEW k \in 0 .. MaxPly, Busy(f, k),
         NEW r \in Scores, ResultOK(r, f, k), -r < f.beta, NEW x \in Int,
         NEW done, done = Taken(f) \ {f.move}, NEW y, y = Bigger(x, -r),
         x <= -MateThreshold => \A m \in done : Mates(m, MateScore + x - k - 1)
  PROVE  y <= -MateThreshold =>
           \A m \in Taken(f) : Mates(m, MateScore + y - k - 1)
<1> SUFFICES ASSUME y <= -MateThreshold
             PROVE  \A m \in Taken(f) : Mates(m, MateScore + y - k - 1)
  OBVIOUS
<1>1. r \in Int /\ -r \in Int
  BY ScoreIs
<1>2. y \in Int /\ x <= y /\ -r <= y
  BY <1>1 DEF Bigger
<1>3. x <= -MateThreshold /\ -r <= -MateThreshold
  BY <1>1, <1>2, Numbers
<1>4. \A m \in done : Mates(m, MateScore + y - k - 1)
  BY <1>2, <1>3, MatesOf, ZenonT(40)
<1>5. Mates(f.move, MateScore + (-r) - k - 1)
  BY <1>3, MoveClaims
<1> DEFINE one == {f.move}
<1>6. \A m \in one : Mates(m, MateScore + (-r) - k - 1)
  BY <1>5
<1> HIDE DEF one
<1>7. \A m \in one : Mates(m, MateScore + y - k - 1)
  BY <1>1, <1>2, <1>6, MatesOf
<1> QED
  BY <1>4, <1>7, MoveIs DEF one

\* A node of root or negamax, and one of quiescence, with the score s of a move.
WithScore(f, s) ==
  [f EXCEPT !.score = Bigger(f.score, s),
            !.best = IF s > f.score THEN f.move ELSE f.best,
            !.alpha = Bigger(f.alpha, s)]

WithCapture(f, s) == [f EXCEPT !.alpha = Bigger(f.alpha, s)]

\* A node of root or negamax takes the score s of its move.
LEMMA ScoreTaken ==
  ASSUME game \in Games, NEW f \in Frames, NEW k \in 0 .. MaxPly, Busy(f, k),
         f.at \in {"root", "loop"}, NEW r \in Scores, ResultOK(r, f, k),
         NEW s, s = -r, s < f.beta, NEW g, g = WithScore(f, s)
  PROVE  /\ g \in Frames /\ g.at = f.at /\ g.pos = f.pos
         /\ g.original = f.original /\ g.beta = f.beta
         /\ Settled(g, k)
<1>1. /\ s \in Scores /\ s \in Int /\ -MateScore <= s /\ s <= MateScore /\ -s = r
      /\ s > f.alpha => Claims(f.pos, s, k, TRUE, FALSE)
  <2>1. r \in Int /\ -MateScore <= r /\ r <= MateScore
    BY ScoreIs
  <2>2. /\ s \in Scores /\ s \in Int
        /\ s > f.alpha => Claims(f.pos, s, k, TRUE, FALSE)
    BY MoveClaims
  <2>3. -MateScore <= s /\ s <= MateScore /\ -s = r
    BY <2>1, Numbers
  <2> QED
    BY <2>2, <2>3, Zenon
<1>2. Frame(f, k) /\ Scored(f, k, Taken(f) \ {f.move})
  BY DEF Busy
<1>3. MovesScored(f, k, Taken(f) \ {f.move})
  BY <1>2 DEF Scored
<1>4. /\ Bigger(f.alpha, s) \in Scores \cup {-Inf} /\ Bigger(f.alpha, s) \in Int
      /\ Bigger(f.score, s) \in Scores \cup {-Inf} /\ Bigger(f.score, s) \in Int
      /\ Bigger(f.alpha, s) < f.beta /\ f.alpha <= Bigger(f.alpha, s)
      /\ f.original <= Bigger(f.alpha, s)
      /\ Bigger(f.alpha, s) = Bigger(f.original, Bigger(f.score, s))
      /\ Bigger(f.score, s) # -Inf
  <2>1. f.alpha < f.beta /\ f.original <= f.alpha
    BY <1>2 DEF Frame
  <2>2. f.alpha = Bigger(f.original, f.score)
    BY <1>3 DEF MovesScored
  <2> QED
    BY <1>1, <2>1, <2>2, FrameIs, Numbers DEF Bigger
<1>5. /\ g.at = f.at /\ g.pos = f.pos /\ g.original = f.original
      /\ g.beta = f.beta /\ g.depth = f.depth /\ g.left = f.left
      /\ g.move = f.move
      /\ g.alpha = Bigger(f.alpha, s) /\ g.score = Bigger(f.score, s)
  BY DEF Frames, WithScore
<1>6. g \in Frames
  <2>1. f.move \in Positions
    BY MoveIs
  <2> QED
    BY <1>4, <2>1, ZenonT(40) DEF Frames, WithScore
<1>7. MovesOf(g) = MovesOf(f) /\ Taken(g) = Taken(f)
  BY <1>5 DEF MovesOf, Taken
<1>8. Frame(g, k)
  BY <1>2, <1>4, <1>5, <1>7 DEF Frame, Calls
<1>9. MovesScored(g, k, Taken(f))
  <2>1. g.depth >= 1
    BY <1>3, <1>5 DEF MovesScored
  <2>2. g.alpha = Bigger(g.original, g.score)
    BY <1>4, <1>5
  <2>3. g.score = -Inf <=> Taken(f) = {}
    BY <1>4, <1>5, MoveIs
  <2>4. ASSUME g.score > g.original
        PROVE  Claims(g.pos, g.score, k, TRUE, FALSE)
    <3>1. CASE s > f.score
      <4>1. g.score = s /\ s > f.original
        BY <1>1, <1>5, <2>4, <3>1, FrameIs DEF Bigger
      <4>2. s > f.alpha
        BY <1>3, <3>1, <4>1 DEF MovesScored, Bigger
      <4> QED
        BY <1>1, <1>5, <4>1, <4>2
    <3>2. CASE ~(s > f.score)
      <4>1. g.score = f.score
        BY <1>1, <1>5, <3>2, FrameIs DEF Bigger
      <4> QED
        BY <1>3, <1>5, <2>4, <4>1 DEF MovesScored
    <3> QED
      BY <3>1, <3>2
  <2>5. g.score <= -MateThreshold =>
          \A m \in Taken(f) : Mates(m, MateScore + g.score - k - 1)
    <3>1. f.score <= -MateThreshold =>
            \A m \in Taken(f) \ {f.move} : Mates(m, MateScore + f.score - k - 1)
      BY <1>3 DEF MovesScored
    <3>2. f.score \in Int /\ -r < f.beta /\ g.score = Bigger(f.score, -r)
      BY <1>5, FrameIs
    <3> QED
      BY <3>1, <3>2, BoundRaised
  <2> QED
    BY <2>1, <2>2, <2>3, <2>4, <2>5 DEF MovesScored
<1>10. Settled(g, k)
  BY <1>5, <1>7, <1>8, <1>9 DEF Settled, Scored
<1> QED
  BY <1>5, <1>6, <1>10

\* A node of the quiescence search takes the score s of its move.
LEMMA CaptureTaken ==
  ASSUME game \in Games, NEW f \in Frames, NEW k \in 0 .. MaxPly, Busy(f, k),
         f.at = "captures", NEW r \in Scores, ResultOK(r, f, k),
         NEW s, s = -r, s < f.beta, NEW g, g = WithCapture(f, s)
  PROVE  /\ g \in Frames /\ g.at = f.at /\ g.pos = f.pos
         /\ g.original = f.original /\ g.beta = f.beta
         /\ Settled(g, k)
<1>1. /\ s \in Scores /\ s \in Int /\ -MateScore <= s /\ s <= MateScore /\ -s = r
      /\ s > f.alpha => Claims(f.pos, s, k, TRUE, FALSE)
  <2>1. r \in Int /\ -MateScore <= r /\ r <= MateScore
    BY ScoreIs
  <2>2. /\ s \in Scores /\ s \in Int
        /\ s > f.alpha => Claims(f.pos, s, k, TRUE, FALSE)
    BY MoveClaims
  <2>3. -MateScore <= s /\ s <= MateScore /\ -s = r
    BY <2>1, Numbers
  <2> QED
    BY <2>2, <2>3, Zenon
<1>2. Frame(f, k) /\ Scored(f, k, Taken(f) \ {f.move})
  BY DEF Busy
<1>3. CapturesScored(f, k, Taken(f) \ {f.move})
  BY <1>2 DEF Scored
<1>4. /\ Bigger(f.alpha, s) \in Scores \cup {-Inf} /\ Bigger(f.alpha, s) \in Int
      /\ Bigger(f.alpha, s) < f.beta /\ f.alpha <= Bigger(f.alpha, s)
      /\ f.original <= Bigger(f.alpha, s) /\ Bigger(f.alpha, s) # -Inf
  <2>1. f.alpha < f.beta /\ f.original <= f.alpha
    BY <1>2 DEF Frame
  <2> QED
    BY <1>1, <2>1, FrameIs, Numbers DEF Bigger
<1>5. /\ g.at = f.at /\ g.pos = f.pos /\ g.original = f.original
      /\ g.beta = f.beta /\ g.depth = f.depth /\ g.left = f.left
      /\ g.move = f.move
      /\ g.alpha = Bigger(f.alpha, s)
  BY DEF Frames, WithCapture
<1>6. g \in Frames
  BY <1>4 DEF Frames, WithCapture
<1>7. MovesOf(g) = MovesOf(f) /\ Taken(g) = Taken(f)
  BY <1>5 DEF MovesOf, Taken
<1>8. Frame(g, k)
  BY <1>2, <1>4, <1>5, <1>7 DEF Frame, Calls
<1>9. CapturesScored(g, k, Taken(f))
  <2>1. InCheck(g.pos) \/ g.depth < MaxQuiescencePly
    BY <1>3, <1>5 DEF CapturesScored
  <2>2. ~InCheck(g.pos) => g.alpha >= game.eval[g.pos]
    <3>1. ~InCheck(f.pos) => f.alpha >= game.eval[f.pos]
      BY <1>3 DEF CapturesScored
    <3>2. f.alpha \in Int /\ game.eval[f.pos] \in Int
      BY FrameIs, GameIs
    <3> QED
      BY <1>4, <1>5, <3>1, <3>2
  <2>3. g.alpha # -Inf
    BY <1>4, <1>5
  <2>4. ASSUME g.alpha > g.original
        PROVE  Claims(g.pos, g.alpha, k, TRUE, FALSE)
    <3>1. CASE s > f.alpha
      <4>1. g.alpha = s
        BY <1>1, <1>5, <3>1, FrameIs DEF Bigger
      <4> QED
        BY <1>1, <1>5, <3>1, <4>1
    <3>2. CASE ~(s > f.alpha)
      <4>1. g.alpha = f.alpha
        BY <1>1, <1>5, <3>2, FrameIs DEF Bigger
      <4> QED
        BY <1>3, <1>5, <2>4, <4>1 DEF CapturesScored
    <3> QED
      BY <3>1, <3>2
  <2>5. InCheck(g.pos) /\ g.alpha <= -MateThreshold =>
          \A m \in Taken(f) : Mates(m, MateScore + g.alpha - k - 1)
    <3> SUFFICES ASSUME InCheck(g.pos), g.alpha <= -MateThreshold
                 PROVE  \A m \in Taken(f) : Mates(m, MateScore + g.alpha - k - 1)
      OBVIOUS
    <3>1. f.alpha <= -MateThreshold =>
            \A m \in Taken(f) \ {f.move} : Mates(m, MateScore + f.alpha - k - 1)
      BY <1>3, <1>5 DEF CapturesScored
    <3>2. f.alpha \in Int /\ -r < f.beta /\ g.alpha = Bigger(f.alpha, -r)
      BY <1>5, FrameIs
    <3> QED
      BY <3>1, <3>2, BoundRaised
  <2> QED
    BY <2>1, <2>2, <2>3, <2>4, <2>5 DEF CapturesScored
<1>10. Settled(g, k)
  BY <1>5, <1>7, <1>8, <1>9 DEF Settled, Scored
<1> QED
  BY <1>5, <1>6, <1>10

------------------------------------------------------------------------------
(* The steps of negamax.                                                   *)

\* What the invariant says of the game.
LEMMA GameOK ==
  ASSUME MateInv
  PROVE  /\ game \in Games /\ position \in Positions
         /\ tt \in [Slots -> Entries \cup {NoMove}] /\ TableOK(tt)
BY DEF MateInv, TypeOK

\* A node that has not looked at its position.
LEMMA CallIs ==
  ASSUME MateInv, Searching, result = NoMove, Node.at \in Calls
  PROVE  /\ Node.original = Node.alpha /\ Node.score = -Inf
         /\ Node.alpha < Node.beta
BY OnTop DEF Settled, Frame

\* A call is settled.
LEMMA NewCall ==
  ASSUME NEW kind \in Calls, NEW p \in Positions, NEW d \in Nat,
         NEW alpha \in Scores \cup {-Inf}, NEW beta \in Scores \cup {Inf},
         alpha < beta, NEW k
  PROVE  /\ Call(kind, p, d, alpha, beta) \in Frames
         /\ Settled(Call(kind, p, d, alpha, beta), k)
<1> DEFINE c == Call(kind, p, d, alpha, beta)
<1>1. /\ c.at = kind /\ c.pos = p /\ c.depth = d /\ c.alpha = alpha
      /\ c.beta = beta /\ c.original = alpha /\ c.score = -Inf
  BY DEF Call
<1>2. c \in Frames
  BY DEF Call, Frames
<1>3. alpha <= alpha
  BY ScoreIs, Numbers
<1>4. kind \notin Open
  BY DEF Calls, Open
<1> HIDE DEF c
<1>5. Frame(c, k)
  BY <1>1, <1>3, <1>4 DEF Frame, Open
<1>6. Settled(c, k)
  BY <1>1, <1>4, <1>5 DEF Settled, Scored, Open
<1> QED
  BY <1>2, <1>6 DEF c

\* A node that begins to try its moves.
LEMMA NewLoop ==
  ASSUME game \in Games, NEW f \in Frames, NEW k \in 0 .. MaxPly, Frame(f, k),
         f.at \in Calls, NEW d \in Nat, d >= 1, game.moves[f.pos] # {}, NEW g,
         g = [f EXCEPT !.at = "loop", !.depth = d, !.left = game.moves[f.pos]]
  PROVE  /\ g \in Frames /\ g.at = "loop" /\ g.pos = f.pos
         /\ g.original = f.original /\ g.beta = f.beta
         /\ Settled(g, k)
<1>1. /\ g.at = "loop" /\ g.pos = f.pos /\ g.depth = d /\ g.alpha = f.alpha
      /\ g.beta = f.beta /\ g.original = f.original /\ g.score = f.score
      /\ g.left = game.moves[f.pos]
  BY DEF Frames
<1>2. game.moves[f.pos] \in SUBSET Positions
  BY FrameIs, GameIs
<1>3. g \in Frames
  BY <1>2 DEF Frames, Open
<1>4. MovesOf(g) = g.left /\ Taken(g) = {}
  BY <1>1 DEF MovesOf, Taken
<1>5. /\ f.alpha < f.beta /\ f.original <= f.alpha
      /\ f.original = f.alpha /\ f.score = -Inf
  BY DEF Frame
<1>6. Frame(g, k)
  BY <1>1, <1>4, <1>5 DEF Frame, Calls
<1>7. /\ f.alpha = Bigger(f.original, f.score) /\ ~(f.score > f.original)
      /\ f.score = -Inf
  BY <1>5, FrameIs DEF Bigger
<1>8. MovesScored(g, k, {})
  BY <1>1, <1>7 DEF MovesScored
<1> QED
  BY <1>1, <1>3, <1>4, <1>6, <1>8 DEF Settled, Scored

LEMMA EntryIs ==
  ASSUME MateInv, NEW p \in Positions, NEW entry, entry = Probe(p),
         entry # NoMove
  PROVE  entry \in Entries /\ entry.key = p /\ EntryOK(entry)
<1>1. SlotOf[p] \in Slots
  BY SearchConstants
<1>2. /\ entry = tt[SlotOf[p]] /\ entry.key = p
  BY DEF Probe
<1> QED
  BY <1>1, <1>2, GameOK DEF TableOK

\* An entry that answers shows what its value shows.
LEMMA AnswerClaims ==
  ASSUME MateInv, NEW f \in Frames, NEW k \in 0 .. MaxPly,
         f.original = f.alpha, NEW entry, entry = Probe(f.pos), NEW d,
         Answers(entry, d, f.alpha, f.beta, k),
         NEW v, v = ScoreFromTt(entry.score, k)
  PROVE  /\ v \in Scores
         /\ v > f.original => Claims(f.pos, v, k, TRUE, FALSE)
         /\ v < f.beta => Claims(f.pos, v, k, FALSE, TRUE)
<1>1. f.pos \in Positions /\ f.alpha \in Int /\ f.beta \in Int
      /\ f.alpha <= MateScore /\ -MateScore <= f.beta
  BY FrameIs
<1>2. entry # NoMove /\ entry \in Entries /\ entry.key = f.pos /\ EntryOK(entry)
  BY <1>1, EntryIs DEF Answers
<1>3. entry.score \in Int /\ entry.bound \in {"exact", "lower", "upper"}
  BY <1>2 DEF Entries
<1>4. /\ entry.bound # "upper" => Claims(f.pos, entry.score, 0, TRUE, FALSE)
      /\ entry.bound # "lower" => Claims(f.pos, entry.score, 0, FALSE, TRUE)
  BY <1>2 DEF EntryOK, Claims
<1>5. /\ v \in Int
      /\ entry.bound # "upper" => Claims(f.pos, v, k, TRUE, FALSE) /\ v <= MateScore
      /\ entry.bound # "lower" => Claims(f.pos, v, k, FALSE, TRUE) /\ v >= -MateScore
  <2>1. v \in Int
    BY <1>3 DEF ScoreFromTt
  <2>2. ASSUME entry.bound # "upper"
        PROVE  Claims(f.pos, v, k, TRUE, FALSE) /\ v <= MateScore
    BY <1>3, <1>4, <2>2, ClaimsFromTable
  <2>3. ASSUME entry.bound # "lower"
        PROVE  Claims(f.pos, v, k, FALSE, TRUE) /\ v >= -MateScore
    BY <1>3, <1>4, <2>3, ClaimsFromTable
  <2> QED
    BY <2>1, <2>2, <2>3
<1>6. CASE entry.bound = "exact"
  BY <1>5, <1>6, ScoreIs
<1>7. CASE entry.bound = "lower" /\ v >= f.beta
  <2>1. v \in Scores
    BY <1>1, <1>5, <1>7, ScoreIs, Numbers
  <2>2. ~(v < f.beta)
    BY <1>1, <1>5, <1>7
  <2>3. Claims(f.pos, v, k, TRUE, FALSE)
    BY <1>5, <1>7
  <2> QED
    BY <2>1, <2>2, <2>3
<1>8. CASE entry.bound = "upper" /\ v <= f.alpha
  <2>1. v \in Scores
    BY <1>1, <1>5, <1>8, ScoreIs, Numbers
  <2>2. ~(v > f.original)
    BY <1>1, <1>5, <1>8
  <2>3. Claims(f.pos, v, k, FALSE, TRUE)
    BY <1>5, <1>8
  <2> QED
    BY <2>1, <2>2, <2>3
<1> QED
  BY <1>6, <1>7, <1>8 DEF Answers

LEMMA EnterNegamaxKept ==
  ASSUME MateInv, EnterNegamax
  PROVE  MateInv'
<1> DEFINE f == Node
           d == Extended(f)
           entry == Probe(f.pos)
<1>1. /\ Searching /\ result = NoMove /\ f.at = "negamax"
      /\ UNCHANGED <<searchVars, tt>>
  BY DEF EnterNegamax, At
<1>2. f \in Frames /\ Ply \in 0 .. MaxPly /\ Settled(f, Ply)
  BY <1>1, OnTop
<1>3. f.original = f.alpha /\ f.alpha < f.beta
  BY <1>1, CallIs DEF Calls
<1>4. d \in Nat
  BY <1>2, FrameIs DEF Extended
<1> HIDE DEF f, d, entry
<1>5. CASE d <= 0
  <2>1. Becomes(Call("quiescence", f.pos, 0, f.alpha, f.beta)) /\ result' = NoMove
    BY <1>1, <1>5 DEF EnterNegamax, f, d
  <2> DEFINE c == Call("quiescence", f.pos, 0, f.alpha, f.beta)
  <2>2. c \in Frames /\ Settled(c, Ply)
    BY <1>2, <1>3, NewCall DEF Frames, Calls
  <2>3. /\ c.at = "quiescence" /\ c.pos = f.pos /\ c.original = f.alpha
        /\ c.beta = f.beta
    BY DEF Call
  <2> HIDE DEF c
  <2> QED
    BY <1>1, <1>3, <2>1, <2>2, <2>3, BecomesKept DEF f, c
<1>6. CASE ~(d <= 0) /\ Answers(entry, d, f.alpha, f.beta, Ply)
  <2> DEFINE v == ScoreFromTt(entry.score, Ply)
  <2>1. Return(v)
    BY <1>6 DEF EnterNegamax, f, d, entry
  <2>2. /\ v \in Scores
        /\ v > f.original => Claims(f.pos, v, Ply, TRUE, FALSE)
        /\ v < f.beta => Claims(f.pos, v, Ply, FALSE, TRUE)
    BY <1>2, <1>3, <1>6, AnswerClaims DEF entry
  <2> HIDE DEF v
  <2> QED
    BY <1>1, <2>1, <2>2, GameOK, ReturnKept DEF f
<1>7. CASE /\ ~(d <= 0) /\ ~Answers(entry, d, f.alpha, f.beta, Ply)
           /\ game.moves[f.pos] = {}
  <2> DEFINE v == TerminalScore(f.pos, Ply)
  <2>1. Return(v)
    BY <1>7 DEF EnterNegamax, f, d, entry
  <2>2. Claims(f.pos, v, Ply, TRUE, TRUE) /\ v \in Scores
    BY <1>2, <1>7, FrameIs, GameOK, ClaimsTerminal, TerminalIs
  <2>3. Claims(f.pos, v, Ply, TRUE, FALSE) /\ Claims(f.pos, v, Ply, FALSE, TRUE)
    BY <2>2 DEF Claims
  <2> HIDE DEF v
  <2> QED
    BY <1>1, <2>1, <2>2, <2>3, GameOK, ReturnKept DEF f
<1>8. CASE /\ ~(d <= 0) /\ ~Answers(entry, d, f.alpha, f.beta, Ply)
           /\ game.moves[f.pos] # {}
  <2> DEFINE g == [f EXCEPT !.at = "loop", !.depth = d,
                            !.left = game.moves[f.pos]]
  <2>1. Becomes(g) /\ result' = NoMove
    BY <1>1, <1>8 DEF EnterNegamax, f, d, entry
  <2>2. d >= 1
    BY <1>4, <1>8
  <2>3. Frame(f, Ply) /\ f.at \in Calls
    BY <1>1, <1>2 DEF Settled, Calls
  <2>4. /\ g \in Frames /\ g.at = "loop" /\ g.pos = f.pos
        /\ g.original = f.original /\ g.beta = f.beta /\ Settled(g, Ply)
    BY <1>2, <1>4, <1>8, <2>2, <2>3, GameOK, NewLoop
  <2> HIDE DEF g
  <2> QED
    BY <1>1, <2>1, <2>4, BecomesKept DEF f
<1> QED
  BY <1>5, <1>6, <1>7, <1>8

LEMMA TryMoveKept ==
  ASSUME MateInv, TryMove
  PROVE  MateInv'
<1> DEFINE f == Node
<1>1. /\ Searching /\ result = NoMove /\ result' = NoMove /\ Ply < MaxPly
      /\ f.at \in Open /\ UNCHANGED <<searchVars, tt>>
  BY DEF TryMove, Open
<1> DEFINE g(m) == [f EXCEPT !.move = m, !.left = @ \ {m}]
           c(m) == IF f.at = "captures"
                   THEN Call("quiescence", m, f.depth + 1, -f.beta, -f.alpha)
                   ELSE Call("negamax", m, f.depth - 1, -f.beta, -f.alpha)
<1>2. PICK m \in f.left : stack' = <<c(m), g(m)>> \o Tail(stack)
  BY DEF TryMove
<1>3. f \in Frames /\ Ply \in 0 .. MaxPly /\ Settled(f, Ply)
      /\ stack \in Seq(Frames) /\ stack # <<>> /\ f = Head(stack)
      /\ Ply = Len(stack) - 1 /\ Len(stack) = Ply + 1
  BY <1>1, OnTop
<1> HIDE DEF f
<1>4. Frame(f, Ply) /\ Scored(f, Ply, Taken(f))
  BY <1>3 DEF Settled
<1>5. m \in MovesOf(f) /\ m \in f.left /\ m \in Positions
  <2>1. f.left \subseteq MovesOf(f)
    BY <1>1, <1>4 DEF Frame
  <2>2. MovesOf(f) \in SUBSET Positions
    BY <1>3, GameOK, MovesOfIs
  <2> QED
    BY <2>1, <2>2
<1>6. /\ g(m).at = f.at /\ g(m).pos = f.pos /\ g(m).depth = f.depth
      /\ g(m).alpha = f.alpha /\ g(m).beta = f.beta /\ g(m).score = f.score
      /\ g(m).original = f.original /\ g(m).move = m /\ g(m).left = f.left \ {m}
      /\ g(m) \in Frames
  BY <1>3, <1>5 DEF Frames
<1>7. /\ c(m) \in Frames /\ c(m).at \in Calls /\ c(m).pos = m
      /\ c(m).original = -f.beta /\ c(m).beta = -f.alpha
      /\ Settled(c(m), Len(stack))
  <2>1. /\ -f.beta \in Scores \cup {-Inf} /\ -f.alpha \in Scores \cup {Inf}
        /\ -f.beta < -f.alpha
    <3>1. f.alpha < f.beta
      BY <1>4 DEF Frame
    <3>2. \A x \in Scores : -x \in Scores
      BY ScoreIs, Numbers
    <3>3. /\ f.alpha \in Int /\ f.beta \in Int
          /\ f.alpha # -Inf => f.alpha \in Scores
          /\ f.beta # Inf => f.beta \in Scores
      BY <1>3, FrameIs
    <3>4. -f.beta \in Scores \cup {-Inf}
      BY <3>2, <3>3
    <3>5. -f.alpha \in Scores \cup {Inf}
      <4>1. f.alpha = -Inf => -f.alpha = Inf
        BY Numbers
      <4> QED
        BY <3>2, <3>3, <4>1
    <3>6. -f.beta < -f.alpha
      BY <3>1, <3>3
    <3> QED
      BY <3>4, <3>5, <3>6
  <2>2. CASE f.at = "captures"
    <3>1. f.depth + 1 \in Nat
      BY <1>3, FrameIs
    <3>2. c(m) = Call("quiescence", m, f.depth + 1, -f.beta, -f.alpha)
      BY <2>2
    <3> QED
      BY <1>5, <2>1, <3>1, <3>2, NewCall DEF Calls, Call
  <2>3. CASE f.at # "captures"
    <3>1. MovesScored(f, Ply, Taken(f))
      BY <1>1, <1>4, <2>3 DEF Scored, Open
    <3>2. f.depth - 1 \in Nat
      BY <1>3, <3>1, FrameIs DEF MovesScored
    <3>3. c(m) = Call("negamax", m, f.depth - 1, -f.beta, -f.alpha)
      BY <2>3
    <3> QED
      BY <1>5, <2>1, <3>2, <3>3, NewCall DEF Calls, Call
  <2> QED
    BY <2>2, <2>3
<1> DEFINE h == g(m)
           d == c(m)
<1>8. IsPushed(stack', stack, d, h)
  BY <1>2 DEF IsPushed
<1> HIDE DEF g, c, h, d
<1>9. Busy(h, Ply)
  <2>1. MovesOf(h) = MovesOf(f)
    BY <1>6 DEF MovesOf, h
  <2>2. Taken(h) \ {m} = Taken(f) /\ m \in Taken(h)
    BY <1>5, <1>6, <2>1 DEF Taken, h
  <2>3. Frame(h, Ply)
    BY <1>1, <1>4, <1>6, <2>1 DEF Frame, h, Calls, Open
  <2>4. Scored(h, Ply, Taken(f))
    BY <1>4, <1>6 DEF Scored, MovesScored, CapturesScored, h
  <2> QED
    BY <1>1, <1>6, <2>2, <2>3, <2>4 DEF Busy, h
<1>10. Linked(d, h) /\ d.at # "root"
  BY <1>6, <1>7 DEF Linked, Calls, d, h
<1>11. StackOK(stack, NoMove)
  BY <1>1 DEF MateInv
<1>12. /\ stack' \in Seq(Frames) /\ stack' # <<>> /\ StackOK(stack', NoMove)
  <2>1. d \in Frames /\ h \in Frames /\ Settled(d, Len(stack))
    BY <1>6, <1>7 DEF d, h
  <2>2. /\ h.at = Head(stack).at /\ h.pos = Head(stack).pos
        /\ h.original = Head(stack).original /\ h.beta = Head(stack).beta
    BY <1>3, <1>6 DEF h
  <2>3. Len(stack) - 1 < MaxPly /\ Busy(h, Len(stack) - 1)
    BY <1>1, <1>3, <1>9
  <2> QED
    BY <1>3, <1>8, <1>10, <1>11, <2>1, <2>2, <2>3, Pushed
<1> QED
  BY <1>1, <1>12, GameOK, SearchKept

LEMMA TakeScoreKept ==
  ASSUME MateInv, TakeScore
  PROVE  MateInv'
<1> DEFINE f == Node
           s == -result
           g == [f EXCEPT !.score = Bigger(f.score, s),
                          !.best = IF s > f.score THEN f.move ELSE f.best,
                          !.alpha = Bigger(f.alpha, s)]
<1>1. /\ Searching /\ result # NoMove /\ f.at = "loop" /\ UNCHANGED searchVars
  BY DEF TakeScore
<1>2. f \in Frames /\ Ply \in 0 .. MaxPly /\ Busy(f, Ply)
      /\ ResultOK(result, f, Ply) /\ result \in Scores
  BY <1>1, OnTop
<1>3. /\ s \in Scores /\ s \in Int
      /\ s > f.alpha => Claims(f.pos, s, Ply, TRUE, FALSE)
  BY <1>2, GameOK, MoveClaims
<1>4. /\ f.alpha \in Int /\ f.beta \in Int /\ f.pos \in Positions
      /\ f.depth \in Nat /\ f.alpha < f.beta
      /\ f.move \in Positions /\ f.best \in Positions \cup {NoMove}
  BY <1>2, FrameIs, MoveIs, GameOK DEF Busy, Frame
<1>5. CASE s > f.alpha /\ s >= f.beta
  <2> DEFINE kept == Stored(f.pos, f.depth, ScoreToTt(s, Ply), "lower", g.best)
  <2>1. tt' = kept /\ Return(s)
    BY <1>5 DEF TakeScore
  <2>2. g.best \in Positions \cup {NoMove}
    BY <1>2, <1>4 DEF Frames
  <2> HIDE DEF f, g, s
  <2>3. Claims(f.pos, s, Ply, TRUE, FALSE)
    BY <1>3, <1>5
  <2>4. /\ ScoreToTt(s, Ply) \in Int
        /\ Claims(f.pos, ScoreToTt(s, Ply), 0, TRUE, FALSE)
    BY <1>2, <1>3, <2>3, ClaimsToTable
  <2>5. kept \in [Slots -> Entries \cup {NoMove}] /\ TableOK(kept)
    BY <1>4, <2>2, <2>4, StoredKept
  <2>6. ~(s < f.beta)
    BY <1>3, <1>4, <1>5
  <2> HIDE DEF kept
  <2> QED
    BY <1>1, <1>3, <2>1, <2>3, <2>5, <2>6, ReturnKept DEF f
<1>6. CASE ~(s > f.alpha /\ s >= f.beta)
  <2>1. Becomes(g) /\ result' = NoMove /\ UNCHANGED tt
    BY <1>6 DEF TakeScore
  <2>2. s < f.beta
    BY <1>3, <1>4, <1>6
  <2>3. /\ g \in Frames /\ g.at = f.at /\ g.pos = f.pos
        /\ g.original = f.original /\ g.beta = f.beta /\ Settled(g, Ply)
    <3>1. s = -result
      OBVIOUS
    <3> HIDE DEF f, s
    <3>2. g = WithScore(f, s)
      BY DEF WithScore
    <3> HIDE DEF g
    <3> QED
      BY <1>1, <1>2, <2>2, <3>1, <3>2, GameOK, ScoreTaken
  <2> HIDE DEF g
  <2> QED
    BY <1>1, <2>1, <2>3, BecomesKept
<1> QED
  BY <1>5, <1>6

\* A loop or root that has tried every move has a score, and no less.
LEMMA LoopDone ==
  ASSUME game \in Games, NEW f \in Frames, NEW k \in 0 .. MaxPly, Settled(f, k),
         f.at \in {"root", "loop"}, f.left = {}
  PROVE  /\ f.score \in Scores /\ game.moves[f.pos] # {}
         /\ f.score > f.original => Claims(f.pos, f.score, k, TRUE, FALSE)
         /\ Claims(f.pos, f.score, k, FALSE, TRUE)
<1>1. Frame(f, k) /\ MovesScored(f, k, Taken(f)) /\ f.at \in Open
  BY DEF Settled, Scored, Open
<1>2. game.moves[f.pos] # {}
  BY <1>1 DEF Frame
<1>3. Taken(f) = game.moves[f.pos]
  BY MovesOfIs DEF Taken
<1>4. f.score # -Inf /\ f.score \in Scores /\ f.score \in Int
  BY <1>1, <1>2, <1>3, FrameIs DEF MovesScored
<1>5. Claims(f.pos, f.score, k, FALSE, TRUE)
  <2>1. CASE f.score <= -MateThreshold
    <3>1. \A m \in game.moves[f.pos] : Mates(m, MateScore + f.score - k - 1)
      BY <1>1, <1>3, <2>1 DEF MovesScored
    <3>2. f.pos \in Positions
      BY FrameIs
    <3> QED
      BY <1>2, <1>4, <2>1, <3>1, <3>2, ClaimsLost
  <2>2. CASE ~(f.score <= -MateThreshold)
    BY <2>2 DEF Claims
  <2> QED
    BY <2>1, <2>2
<1> QED
  BY <1>1, <1>2, <1>4, <1>5 DEF MovesScored

LEMMA LeaveNegamaxKept ==
  ASSUME MateInv, LeaveNegamax
  PROVE  MateInv'
<1> DEFINE f == Node
           bound == IF f.score <= f.original THEN "upper" ELSE "exact"
           kept == Stored(f.pos, f.depth, ScoreToTt(f.score, Ply), bound, f.best)
<1>1. /\ Searching /\ result = NoMove /\ f.at = "loop" /\ f.left = {}
      /\ UNCHANGED searchVars /\ tt' = kept /\ Return(f.score)
  BY DEF LeaveNegamax, At
<1>2. f \in Frames /\ Ply \in 0 .. MaxPly /\ Settled(f, Ply)
  BY <1>1, OnTop
<1> HIDE DEF f
<1>3. /\ f.score \in Scores /\ f.score \in Int
      /\ f.score > f.original => Claims(f.pos, f.score, Ply, TRUE, FALSE)
      /\ Claims(f.pos, f.score, Ply, FALSE, TRUE)
  BY <1>1, <1>2, GameOK, LoopDone, ScoreIs
<1>4. /\ f.pos \in Positions /\ f.depth \in Nat /\ f.original \in Int
      /\ f.best \in Positions \cup {NoMove}
  BY <1>2, FrameIs
<1>5. ScoreToTt(f.score, Ply) \in Int
  BY <1>2, <1>3 DEF ScoreToTt
<1>6. bound # "upper" => Claims(f.pos, ScoreToTt(f.score, Ply), 0, TRUE, FALSE)
  <2> SUFFICES ASSUME ~(f.score <= f.original)
               PROVE  Claims(f.pos, ScoreToTt(f.score, Ply), 0, TRUE, FALSE)
    OBVIOUS
  <2>1. f.score > f.original
    BY <1>3, <1>4
  <2> QED
    BY <1>2, <1>3, <2>1, ClaimsToTable
<1>7. Claims(f.pos, ScoreToTt(f.score, Ply), 0, FALSE, TRUE)
  BY <1>2, <1>3, ClaimsToTable
<1>8. bound \in {"exact", "lower", "upper"}
  OBVIOUS
<1> HIDE DEF bound
<1>9. kept \in [Slots -> Entries \cup {NoMove}] /\ TableOK(kept)
  BY <1>4, <1>5, <1>6, <1>7, <1>8, StoredKept
<1>10. Node.at # "root"
  BY <1>1 DEF f
<1> HIDE DEF kept
<1> QED
  BY <1>1, <1>3, <1>9, <1>10, ReturnKept DEF f

------------------------------------------------------------------------------
(* The steps of quiescence.                                                *)

StandPat(f) ==
  IF InCheck(f.pos) THEN f.alpha ELSE Bigger(f.alpha, game.eval[f.pos])

WithCaptures(f, alpha) ==
  [f EXCEPT !.at = "captures", !.alpha = alpha,
            !.left = QuiescenceMoves(f.pos, f.depth)]

\* A quiescence node that begins to try its moves.
LEMMA NewCaptures ==
  ASSUME game \in Games, NEW f \in Frames, NEW k \in 0 .. MaxPly, Frame(f, k),
         f.at = "quiescence", game.moves[f.pos] # {},
         InCheck(f.pos) \/ f.depth < MaxQuiescencePly,
         ~InCheck(f.pos) => game.eval[f.pos] < f.beta, NEW alpha,
         alpha = StandPat(f), NEW g, g = WithCaptures(f, alpha)
  PROVE  /\ g \in Frames /\ g.at = "captures" /\ g.pos = f.pos
         /\ g.original = f.original /\ g.beta = f.beta
         /\ Settled(g, k)
<1> DEFINE moves == QuiescenceMoves(f.pos, f.depth)
<1>1. /\ g.at = "captures" /\ g.pos = f.pos /\ g.depth = f.depth
      /\ g.alpha = alpha /\ g.beta = f.beta /\ g.original = f.original
      /\ g.left = moves
  BY DEF Frames, WithCaptures
<1>2. f.pos \in Positions /\ f.depth \in Nat
  BY FrameIs
<1>3. moves \in SUBSET Positions
  <2>1. moves \subseteq game.moves[f.pos] /\ game.moves[f.pos] \in SUBSET Positions
    BY <1>2, GameIs
  <2> QED
    BY <2>1
<1>4. /\ game.eval[f.pos] \in Int /\ game.eval[f.pos] \in Scores
      /\ -MateThreshold < game.eval[f.pos] /\ game.eval[f.pos] < MateThreshold
  BY <1>2, GameIs
<1>5. f.alpha < f.beta /\ f.original = f.alpha
  BY DEF Frame, Calls
<1>6. /\ alpha \in Scores \cup {-Inf} /\ alpha \in Int
      /\ alpha < f.beta /\ f.original <= alpha
      /\ ~InCheck(f.pos) => alpha >= game.eval[f.pos]
  <2>1. CASE InCheck(f.pos)
    <3>1. f.alpha \in Scores \cup {-Inf}
      BY DEF Frames
    <3> QED
      BY <1>5, <2>1, <3>1, FrameIs DEF StandPat
  <2>2. CASE ~InCheck(f.pos)
    <3>1. f.alpha \in Scores \cup {-Inf}
      BY DEF Frames
    <3> QED
      BY <1>4, <1>5, <2>2, <3>1, FrameIs DEF Bigger, StandPat
  <2> QED
    BY <2>1, <2>2
<1>7. alpha > f.original => Claims(f.pos, alpha, k, TRUE, FALSE)
  <2> SUFFICES ASSUME alpha > f.original
               PROVE  Claims(f.pos, alpha, k, TRUE, FALSE)
    OBVIOUS
  <2>1. ~InCheck(f.pos)
    BY <1>5, FrameIs DEF StandPat
  <2>2. alpha = game.eval[f.pos]
    BY <1>4, <1>5, <2>1, FrameIs DEF Bigger, StandPat
  <2> QED
    BY <1>4, <2>2, Numbers DEF Claims
<1> HIDE DEF moves
<1>8. g \in Frames
  BY <1>3, <1>6 DEF Frames, Open, moves, WithCaptures
<1>9. MovesOf(g) = g.left /\ Taken(g) = {}
  BY <1>1 DEF MovesOf, Taken, moves
<1>10. Frame(g, k)
  BY <1>1, <1>6, <1>9 DEF Frame, Calls
<1>11. CapturesScored(g, k, {})
  BY <1>1, <1>6, <1>7 DEF CapturesScored
<1> QED
  BY <1>1, <1>8, <1>9, <1>10, <1>11 DEF Settled, Scored

LEMMA EnterQuiescenceKept ==
  ASSUME MateInv, EnterQuiescence
  PROVE  MateInv'
<1> DEFINE f == Node
           pat == game.eval[f.pos]
           alpha == IF InCheck(f.pos) THEN f.alpha ELSE Bigger(f.alpha, pat)
           beyond == ~InCheck(f.pos) /\ pat >= f.beta
           deep == ~InCheck(f.pos) /\ f.depth >= MaxQuiescencePly
<1>1. /\ Searching /\ result = NoMove /\ f.at = "quiescence"
      /\ UNCHANGED <<searchVars, tt>>
  BY DEF EnterQuiescence, At
<1>2. f \in Frames /\ Ply \in 0 .. MaxPly /\ Settled(f, Ply)
  BY <1>1, OnTop
<1>3. f.original = f.alpha /\ f.alpha < f.beta
  BY <1>1, CallIs DEF Calls
<1> HIDE DEF f
<1>4. /\ f.pos \in Positions /\ f.alpha \in Int /\ -Inf <= f.alpha
      /\ f.beta \in Int /\ f.depth \in Nat
      /\ f.alpha # -Inf => f.alpha \in Scores
      /\ f.beta # Inf => f.beta \in Scores
  BY <1>2, FrameIs
<1>5. /\ pat \in Int /\ -MateThreshold < pat /\ pat < MateThreshold /\ pat \in Scores
  BY <1>4, GameOK, GameIs
<1> HIDE DEF pat
<1>6. CASE beyond
  <2>1. Return(f.beta)
    BY <1>6 DEF EnterQuiescence, f, pat
  <2>2. f.beta \in Scores /\ f.beta < MateThreshold
    BY <1>4, <1>5, <1>6, Numbers
  <2>3. Claims(f.pos, f.beta, Ply, TRUE, FALSE) /\ ~(f.beta < f.beta)
    BY <1>4, <2>2, Numbers DEF Claims
  <2> QED
    BY <1>1, <2>1, <2>2, <2>3, GameOK, ReturnKept DEF f
<1>7. CASE ~beyond /\ deep
  <2>1. Return(alpha)
    BY <1>7 DEF EnterQuiescence, f, pat
  <2>2. /\ alpha \in Int /\ alpha \in Scores /\ alpha >= pat
        /\ alpha > f.original => alpha = pat
    BY <1>3, <1>4, <1>5, <1>7, Numbers DEF Bigger
  <2> HIDE DEF alpha
  <2>3. Claims(f.pos, alpha, Ply, FALSE, TRUE)
    BY <1>5, <2>2, Numbers DEF Claims
  <2>4. alpha > f.original => Claims(f.pos, alpha, Ply, TRUE, FALSE)
    BY <1>5, <2>2, Numbers DEF Claims
  <2> QED
    BY <1>1, <2>1, <2>2, <2>3, <2>4, GameOK, ReturnKept DEF f
<1>8. CASE ~beyond /\ ~deep /\ game.moves[f.pos] = {}
  <2> DEFINE v == TerminalScore(f.pos, Ply)
  <2>1. Return(v)
    BY <1>8 DEF EnterQuiescence, f, pat
  <2>2. Claims(f.pos, v, Ply, TRUE, TRUE) /\ v \in Scores
    BY <1>2, <1>4, <1>8, GameOK, ClaimsTerminal, TerminalIs
  <2>3. Claims(f.pos, v, Ply, TRUE, FALSE) /\ Claims(f.pos, v, Ply, FALSE, TRUE)
    BY <2>2 DEF Claims
  <2> HIDE DEF v
  <2> QED
    BY <1>1, <2>1, <2>2, <2>3, GameOK, ReturnKept DEF f
<1>9. CASE ~beyond /\ ~deep /\ game.moves[f.pos] # {}
  <2> DEFINE g == [f EXCEPT !.at = "captures", !.alpha = alpha,
                            !.left = QuiescenceMoves(f.pos, f.depth)]
  <2>1. Becomes(g) /\ result' = NoMove
    BY <1>1, <1>9 DEF EnterQuiescence, f, pat
  <2>2. /\ InCheck(f.pos) \/ f.depth < MaxQuiescencePly
        /\ ~InCheck(f.pos) => pat < f.beta
    BY <1>4, <1>5, <1>9, SearchConstants
  <2>3. Frame(f, Ply)
    BY <1>2 DEF Settled
  <2>4. alpha = StandPat(f)
    BY DEF pat, StandPat
  <2> HIDE DEF alpha
  <2>5. g = WithCaptures(f, alpha)
    BY DEF WithCaptures
  <2> HIDE DEF g
  <2>6. /\ g \in Frames /\ g.at = "captures" /\ g.pos = f.pos
        /\ g.original = f.original /\ g.beta = f.beta /\ Settled(g, Ply)
    BY <1>1, <1>2, <1>9, <2>2, <2>3, <2>4, <2>5, GameOK, NewCaptures DEF pat
  <2> QED
    BY <1>1, <2>1, <2>6, BecomesKept DEF f
<1> HIDE DEF beyond, deep
<1> QED
  BY <1>6, <1>7, <1>8, <1>9

LEMMA TakeCaptureKept ==
  ASSUME MateInv, TakeCapture
  PROVE  MateInv'
<1> DEFINE f == Node
           s == -result
           g == WithCapture(f, s)
<1>1. /\ Searching /\ result # NoMove /\ f.at = "captures"
      /\ UNCHANGED <<searchVars, tt>>
  BY DEF TakeCapture
<1>2. f \in Frames /\ Ply \in 0 .. MaxPly /\ Busy(f, Ply)
      /\ ResultOK(result, f, Ply) /\ result \in Scores
  BY <1>1, OnTop
<1>3. /\ s \in Scores /\ s \in Int /\ s <= MateScore
      /\ s > f.alpha => Claims(f.pos, s, Ply, TRUE, FALSE)
  <2>1. s \in Scores /\ (s > f.alpha => Claims(f.pos, s, Ply, TRUE, FALSE))
    BY <1>2, GameOK, MoveClaims
  <2> HIDE DEF s
  <2> QED
    BY <2>1, ScoreIs
<1>4. /\ f.alpha \in Int /\ f.beta \in Int /\ f.alpha < f.beta
      /\ f.beta # Inf => f.beta \in Scores
  BY <1>2, FrameIs DEF Busy, Frame
<1>5. CASE s >= f.beta
  <2>1. Return(f.beta)
    BY <1>5 DEF TakeCapture
  <2> HIDE DEF f, s
  <2>2. s > f.alpha /\ f.beta # Inf
    BY <1>3, <1>4, <1>5, Numbers
  <2>3. Claims(f.pos, f.beta, Ply, TRUE, FALSE)
    BY <1>2, <1>3, <1>4, <1>5, <2>2, ClaimsWeaken
  <2>4. f.beta \in Scores /\ ~(f.beta < f.beta)
    BY <1>4, <2>2
  <2> QED
    BY <1>1, <2>1, <2>3, <2>4, GameOK, ReturnKept DEF f
<1>6. CASE ~(s >= f.beta)
  <2>1. Becomes(g) /\ result' = NoMove
    BY <1>6 DEF TakeCapture, WithCapture
  <2>2. s < f.beta
    BY <1>3, <1>4, <1>6
  <2>3. /\ g \in Frames /\ g.at = f.at /\ g.pos = f.pos
        /\ g.original = f.original /\ g.beta = f.beta /\ Settled(g, Ply)
    <3>1. s = -result
      OBVIOUS
    <3> HIDE DEF f, s
    <3>2. g = WithCapture(f, s)
      OBVIOUS
    <3> HIDE DEF g
    <3> QED
      BY <1>1, <1>2, <2>2, <3>1, <3>2, GameOK, CaptureTaken
  <2> HIDE DEF g
  <2> QED
    BY <1>1, <2>1, <2>3, BecomesKept
<1> QED
  BY <1>5, <1>6

\* A quiescence node that has tried every move has a value, and no less.
LEMMA CapturesDone ==
  ASSUME game \in Games, NEW f \in Frames, NEW k \in 0 .. MaxPly, Settled(f, k),
         f.at = "captures", f.left = {}
  PROVE  /\ f.alpha \in Scores
         /\ f.alpha > f.original => Claims(f.pos, f.alpha, k, TRUE, FALSE)
         /\ Claims(f.pos, f.alpha, k, FALSE, TRUE)
<1>1. Frame(f, k) /\ CapturesScored(f, k, Taken(f)) /\ f.at \in Open
  BY DEF Settled, Scored, Open
<1>2. game.moves[f.pos] # {} /\ f.pos \in Positions
  BY <1>1, FrameIs DEF Frame
<1>3. InCheck(f.pos) => Taken(f) = game.moves[f.pos]
  BY MovesOfIs DEF Taken
<1>4. /\ game.eval[f.pos] \in Int /\ -MateThreshold < game.eval[f.pos]
  BY <1>2, GameIs
<1>5. ~InCheck(f.pos) => f.alpha >= game.eval[f.pos]
  BY <1>1 DEF CapturesScored
<1>6. f.alpha # -Inf /\ f.alpha \in Scores /\ f.alpha \in Int
  <2>1. CASE InCheck(f.pos)
    BY <1>1, <1>2, <1>3, <2>1, FrameIs DEF CapturesScored
  <2>2. CASE ~InCheck(f.pos)
    <3>1. f.alpha \in Int /\ (f.alpha # -Inf => f.alpha \in Scores)
      BY FrameIs
    <3> QED
      BY <1>4, <1>5, <2>2, <3>1, Numbers
  <2> QED
    BY <2>1, <2>2
<1>7. Claims(f.pos, f.alpha, k, FALSE, TRUE)
  <2>1. CASE f.alpha <= -MateThreshold
    <3>1. InCheck(f.pos)
      BY <1>4, <1>5, <1>6, <2>1, Numbers
    <3>2. \A m \in game.moves[f.pos] : Mates(m, MateScore + f.alpha - k - 1)
      BY <1>1, <1>3, <2>1, <3>1 DEF CapturesScored
    <3> QED
      BY <1>2, <1>6, <2>1, <3>2, ClaimsLost
  <2>2. CASE ~(f.alpha <= -MateThreshold)
    BY <2>2 DEF Claims
  <2> QED
    BY <2>1, <2>2
<1> QED
  BY <1>1, <1>6, <1>7 DEF CapturesScored

LEMMA LeaveQuiescenceKept ==
  ASSUME MateInv, LeaveQuiescence
  PROVE  MateInv'
<1> DEFINE f == Node
<1>1. /\ Searching /\ result = NoMove /\ f.at = "captures" /\ f.left = {}
      /\ UNCHANGED <<searchVars, tt>> /\ Return(f.alpha)
  BY DEF LeaveQuiescence, At
<1>2. f \in Frames /\ Ply \in 0 .. MaxPly /\ Settled(f, Ply)
  BY <1>1, OnTop
<1> HIDE DEF f
<1>3. /\ f.alpha \in Scores
      /\ f.alpha > f.original => Claims(f.pos, f.alpha, Ply, TRUE, FALSE)
      /\ Claims(f.pos, f.alpha, Ply, FALSE, TRUE)
  BY <1>1, <1>2, GameOK, CapturesDone
<1>4. Node.at # "root"
  BY <1>1 DEF f
<1> QED
  BY <1>1, <1>3, <1>4, GameOK, ReturnKept DEF f

------------------------------------------------------------------------------
(* The steps of search_root and those between searches.                    *)

LEMMA TakeRootScoreKept ==
  ASSUME MateInv, TakeRootScore
  PROVE  MateInv'
<1> DEFINE f == Node
           s == -result
           g == WithScore(f, s)
<1>1. /\ Searching /\ result # NoMove /\ f.at = "root" /\ result' = NoMove
      /\ UNCHANGED <<searchVars, tt>> /\ Becomes(g)
  BY DEF TakeRootScore, WithScore
<1>2. f \in Frames /\ Ply \in 0 .. MaxPly /\ Busy(f, Ply)
      /\ ResultOK(result, f, Ply) /\ result \in Scores
  BY <1>1, OnTop
<1>3. s = -result /\ g = WithScore(f, s)
  OBVIOUS
<1>4. s < f.beta
  <2>1. f.beta = Inf
    BY <1>1, <1>2 DEF Busy, Frame
  <2>2. result \in Int /\ -MateScore <= result
    BY <1>2, ScoreIs
  <2> QED
    BY <2>1, <2>2, Numbers
<1> HIDE DEF f, s, g
<1>5. /\ g \in Frames /\ g.at = f.at /\ g.pos = f.pos
      /\ g.original = f.original /\ g.beta = f.beta /\ Settled(g, Ply)
  BY <1>1, <1>2, <1>3, <1>4, GameOK, ScoreTaken
<1> QED
  BY <1>1, <1>5, BecomesKept DEF f

\* A search of the root, or none.
LEMMA RootKept ==
  ASSUME game \in Games, position \in Positions, NEW d \in Nat, d >= 1,
         game.moves[position] # {}
  PROVE  /\ <<RootCall(d)>> \in Seq(Frames) /\ <<RootCall(d)>> # <<>>
         /\ StackOK(<<RootCall(d)>>, NoMove)
<1> DEFINE c == RootCall(d)
<1>1. /\ c.at = "root" /\ c.pos = position /\ c.depth = d /\ c.alpha = -Inf
      /\ c.beta = Inf /\ c.original = -Inf /\ c.score = -Inf
      /\ c.left = game.moves[position]
  BY DEF RootCall, Call
<1>2. game.moves[position] \in SUBSET Positions
  BY GameIs
<1>3. c \in Frames
  BY <1>2 DEF RootCall, Call, Frames, Open
<1> HIDE DEF c
<1>4. MovesOf(c) = c.left /\ Taken(c) = {}
  BY <1>1 DEF MovesOf, Taken
<1>5. -Inf < Inf /\ -Inf <= -Inf /\ -Inf = Bigger(-Inf, -Inf) /\ ~(-Inf > -Inf)
  BY Numbers DEF Bigger
<1>6. Frame(c, 0)
  BY <1>1, <1>4, <1>5 DEF Frame, Calls
<1>7. MovesScored(c, 0, {})
  BY <1>1, <1>5 DEF MovesScored
<1>8. Settled(c, 0)
  BY <1>1, <1>4, <1>6, <1>7 DEF Settled, Scored
<1>9. <<c>> \in Seq(Frames) /\ Len(<<c>>) = 1 /\ <<c>>[1] = c /\ <<c>> # <<>>
  BY <1>3
<1>10. StackOK(<<c>>, NoMove)
  BY <1>1, <1>8, <1>9, Numbers DEF StackOK
<1> QED
  BY <1>9, <1>10 DEF c

LEMMA NoStack ==
  <<>> \in Seq(Frames) /\ StackOK(<<>>, NoMove)
<1>1. <<>> \in Seq(Frames) /\ Len(<<>>) = 0
  OBVIOUS
<1> QED
  BY <1>1, Numbers DEF StackOK

\* The root's node is the only one when it is on top.
LEMMA RootAlone ==
  ASSUME MateInv, Searching, Node.at = "root"
  PROVE  Ply = 0
<1>1. stack \in Seq(Frames) /\ stack # <<>> /\ StackOK(stack, result)
  BY DEF MateInv, TypeOK, Searching
<1>2. Len(stack) \in Nat /\ Len(stack) >= 1 /\ Head(stack) = stack[1]
  BY <1>1, StackParts
<1>3. IF 1 = Len(stack) THEN stack[1].at = "root" ELSE stack[1].at # "root"
  <2>1. 1 \in 1 .. Len(stack)
    BY <1>2
  <2> QED
    BY <1>1, <2>1 DEF StackOK
<1>4. Len(stack) = 1
  BY <1>2, <1>3 DEF Node
<1> QED
  BY <1>4 DEF Ply

\* An iteration ends with a score that claims no mate that is not there.
LEMMA LeaveRootScore ==
  ASSUME MateInv, LeaveRoot
  PROVE  /\ score' \in Scores
         /\ Claims(position, score', 0, TRUE, FALSE)
         /\ Claims(position, score', 0, FALSE, TRUE)
<1> DEFINE f == Node
<1>1. /\ Searching /\ result = NoMove /\ f.at = "root" /\ f.left = {}
      /\ score' = f.score
  BY DEF LeaveRoot, At
<1>2. f \in Frames /\ Ply \in 0 .. MaxPly /\ Settled(f, Ply) /\ Ply = 0
  BY <1>1, OnTop, RootAlone
<1> HIDE DEF f
<1>3. f.pos = position /\ f.original = -Inf
  BY <1>1, <1>2 DEF Settled, Frame
<1>4. /\ f.score \in Scores
      /\ f.score > f.original => Claims(f.pos, f.score, Ply, TRUE, FALSE)
      /\ Claims(f.pos, f.score, Ply, FALSE, TRUE)
  BY <1>1, <1>2, GameOK, LoopDone
<1>5. f.score > -Inf
  BY <1>4, ScoreIs, Numbers
<1> QED
  BY <1>1, <1>2, <1>3, <1>4, <1>5

\* A step that ends a search, or begins an iteration of one.
LEMMA IterationKept ==
  ASSUME MateInv, game' = game, position' \in Positions, result' = NoMove,
         tt' \in [Slots -> Entries \cup {NoMove}], TableOK(tt'),
         limit' \in 0 .. MaxDepth, best' \in Positions \cup {NoMove},
         score' \in Scores, reached' \in 0 .. MaxDepth,
         searches' \in 0 .. MaxSearches, depth' \in 0 .. MaxDepth,
         \/ stack' = <<>>
         \/ /\ position' = position /\ stack' = <<RootCall(depth')>>
            /\ depth' >= 1 /\ searches' >= 1 /\ game.moves[position] # {}
  PROVE  MateInv'
<1>1. game \in Games /\ position \in Positions
  BY GameOK
<1>2. TableOK(tt)'
  <2>1. \A p, n : Mates(p, n)' = Mates(p, n) /\ Mated(p, n)' = Mated(p, n)
    BY GameKept
  <2> QED
    BY <2>1 DEF TableOK, EntryOK, Claims
<1>3. CASE stack' = <<>>
  <2>1. TypeOK'
    BY <1>1, <1>3, NoStack DEF TypeOK
  <2>2. StackOK(stack, result)'
    BY <1>3, Numbers DEF StackOK
  <2> QED
    BY <1>2, <1>3, <2>1, <2>2 DEF MateInv, Searching
<1>4. CASE /\ position' = position /\ stack' = <<RootCall(depth')>>
           /\ depth' >= 1 /\ searches' >= 1 /\ game.moves[position] # {}
  <2>1. depth' \in Nat
    BY SearchConstants
  <2>2. stack' \in Seq(Frames) /\ StackOK(stack', NoMove)
    BY <1>1, <1>4, <2>1, RootKept
  <2>3. TypeOK'
    BY <1>1, <2>2 DEF TypeOK
  <2>4. StackOK(stack, result)'
    BY <1>4, <2>2, FramesKept
  <2> QED
    BY <1>2, <1>4, <2>3, <2>4 DEF MateInv
<1> QED
  BY <1>3, <1>4

LEMMA LeaveRootKept ==
  ASSUME MateInv, LeaveRoot
  PROVE  MateInv'
<1> DEFINE f == Node
           kept == Stored(position, depth, ScoreToTt(f.score, 0), "exact", f.best)
<1>1. /\ Searching /\ result = NoMove /\ f.at = "root" /\ f.left = {}
      /\ tt' = kept /\ best' = f.best /\ score' = f.score /\ reached' = depth
      /\ UNCHANGED <<game, position, result, limit, searches>>
  BY DEF LeaveRoot, At
<1>2. f \in Frames /\ Settled(f, Ply) /\ f.best \in Positions \cup {NoMove}
  BY <1>1, OnTop, FrameIs
<1>3. IF depth < limit
      THEN depth' = depth + 1 /\ stack' = <<RootCall(depth + 1)>>
      ELSE depth' = 0 /\ stack' = <<>>
  BY DEF LeaveRoot
<1>4. /\ score' \in Scores /\ score' \in Int
      /\ Claims(position, score', 0, TRUE, FALSE)
      /\ Claims(position, score', 0, FALSE, TRUE)
  BY LeaveRootScore, ScoreIs
<1> HIDE DEF f
<1>5. game.moves[position] # {}
  BY <1>1, <1>2 DEF Settled, Frame, Open
<1>6. /\ depth \in 1 .. MaxDepth /\ limit \in 0 .. MaxDepth /\ depth \in Nat
      /\ position \in Positions /\ searches \in 0 .. MaxSearches /\ searches >= 1
      /\ depth \in 0 .. MaxDepth
  BY <1>1 DEF MateInv, TypeOK
<1>7. 0 \in 0 .. MaxPly /\ ScoreToTt(f.score, 0) \in Int
      /\ Claims(position, ScoreToTt(f.score, 0), 0, TRUE, FALSE)
      /\ Claims(position, ScoreToTt(f.score, 0), 0, FALSE, TRUE)
  <2>1. 0 \in 0 .. MaxPly
    BY Numbers
  <2> QED
    BY <1>1, <1>4, <2>1, ClaimsToTable
<1>8. kept \in [Slots -> Entries \cup {NoMove}] /\ TableOK(kept)
  BY <1>2, <1>6, <1>7, StoredKept
<1> HIDE DEF kept
<1>9. \/ stack' = <<>> /\ depth' \in 0 .. MaxDepth
      \/ /\ stack' = <<RootCall(depth')>> /\ depth' >= 1
         /\ depth' \in 0 .. MaxDepth
  BY <1>3, <1>6, SearchConstants
<1>10. position' = position /\ position' \in Positions /\ game' = game
       /\ result' = NoMove /\ limit' \in 0 .. MaxDepth
       /\ reached' \in 0 .. MaxDepth
       /\ searches' \in 0 .. MaxSearches /\ searches' >= 1
       /\ best' \in Positions \cup {NoMove}
       /\ tt' \in [Slots -> Entries \cup {NoMove}] /\ TableOK(tt')
  BY <1>1, <1>2, <1>6, <1>8
<1> QED
  BY <1>4, <1>5, <1>9, <1>10, IterationKept

\* Between searches.
LEMMA Idle ==
  ASSUME MateInv
  PROVE  /\ ~Searching => result = NoMove /\ stack = <<>>
         /\ game \in Games /\ position \in Positions
         /\ tt \in [Slots -> Entries \cup {NoMove}] /\ TableOK(tt)
         /\ limit \in 0 .. MaxDepth /\ best \in Positions \cup {NoMove}
         /\ score \in Scores /\ reached \in 0 .. MaxDepth
         /\ searches \in 0 .. MaxSearches /\ depth \in 0 .. MaxDepth
BY DEF MateInv, TypeOK, Searching

LEMMA OuterKept ==
  ASSUME MateInv
  PROVE  /\ SetPosition => MateInv'
         /\ NewGame => MateInv'
         /\ \A d \in 1 .. MaxDepth : Search(d) => MateInv'
         /\ Abort => MateInv'
<1>0. /\ 0 \in 0 .. MaxDepth /\ 0 \in 0 .. MaxSearches
      /\ \A d \in 1 .. MaxDepth : d \in 0 .. MaxDepth /\ 1 \in 0 .. MaxDepth
  BY SearchConstants
<1>1. 0 \in Scores
  BY ScoreIs, Numbers
<1>2. ASSUME SetPosition PROVE MateInv'
  <2>1. PICK reply \in game.moves[position] : position' \in game.moves[reply]
    BY <1>2 DEF SetPosition
  <2>2. position' \in Positions
    BY <2>1, Idle, GameIs
  <2>3. /\ ~Searching /\ best' = NoMove /\ score' = 0 /\ reached' = 0
        /\ UNCHANGED <<game, tt, stack, result, depth, limit, searches>>
    BY <1>2 DEF SetPosition
  <2> QED
    BY <1>0, <1>1, <2>2, <2>3, Idle, IterationKept
<1>3. ASSUME NewGame PROVE MateInv'
  <2>1. /\ ~Searching /\ best' = NoMove /\ score' = 0 /\ reached' = 0
        /\ searches' = 0
        /\ UNCHANGED <<game, position, stack, result, depth, limit>>
        /\ tt' = [s \in Slots |-> NoMove]
    BY <1>3 DEF NewGame
  <2>2. tt' \in [Slots -> Entries \cup {NoMove}] /\ TableOK(tt')
    BY <2>1 DEF TableOK
  <2>3. position' \in Positions /\ stack' = <<>> /\ result' = NoMove
        /\ limit' \in 0 .. MaxDepth /\ best' \in Positions \cup {NoMove}
        /\ score' \in Scores /\ reached' \in 0 .. MaxDepth
        /\ searches' \in 0 .. MaxSearches /\ depth' \in 0 .. MaxDepth
        /\ game' = game
    BY <1>0, <1>1, <2>1, Idle
  <2> QED
    BY <2>2, <2>3, IterationKept
<1>4. ASSUME NEW d \in 1 .. MaxDepth, Search(d) PROVE MateInv'
  <2>1. /\ ~Searching /\ searches < MaxSearches /\ searches' = searches + 1
        /\ limit' = d /\ reached' = 0 /\ score' = TerminalScore(position, 0)
        /\ UNCHANGED <<game, position, tt, result>>
    BY <1>4 DEF Search
  <2>2. 0 \in 0 .. MaxPly
    BY Numbers
  <2>3. score' \in Scores
    BY <2>1, <2>2, TerminalIs
  <2>4. searches' \in 0 .. MaxSearches /\ searches' >= 1
    BY <2>1, Idle, SearchConstants
  <2>5. position' = position /\ position' \in Positions /\ result' = NoMove
        /\ limit' \in 0 .. MaxDepth /\ reached' \in 0 .. MaxDepth /\ game' = game
        /\ tt' \in [Slots -> Entries \cup {NoMove}] /\ TableOK(tt')
    BY <1>0, <2>1, Idle
  <2>6. CASE game.moves[position] = {}
    <3>1. best' = NoMove /\ stack' = <<>> /\ depth' = depth
      BY <1>4, <2>1, <2>6, Idle DEF Search
    <3> QED
      BY <2>3, <2>4, <2>5, <3>1, Idle, IterationKept
  <2>7. CASE game.moves[position] # {}
    <3>1. best' \in game.moves[position] /\ depth' = 1 /\ stack' = <<RootCall(1)>>
      BY <1>4, <2>7 DEF Search
    <3>2. best' \in Positions \cup {NoMove}
      BY <3>1, Idle, GameIs
    <3>3. depth' \in 0 .. MaxDepth /\ depth' >= 1 /\ stack' = <<RootCall(depth')>>
      BY <1>0, <3>1
    <3> QED
      BY <2>3, <2>4, <2>5, <2>7, <3>2, <3>3, IterationKept
  <2> QED
    BY <2>6, <2>7
<1>5. ASSUME Abort PROVE MateInv'
  <2>1. /\ stack' = <<>> /\ depth' = 0 /\ result = NoMove
        /\ UNCHANGED <<game, position, tt, result, limit, best, score, reached,
                       searches>>
    BY <1>5 DEF Abort, At
  <2> QED
    BY <1>0, <2>1, Idle, IterationKept
<1> QED
  BY <1>2, <1>3, <1>4, <1>5

------------------------------------------------------------------------------
(* The theorems about mates.                                               *)

LEMMA MateInit ==
  Init => MateInv
<1> SUFFICES ASSUME Init PROVE MateInv
  OBVIOUS
<1>1. /\ game \in Games /\ position = game.root
      /\ tt = [s \in Slots |-> NoMove] /\ stack = <<>> /\ result = NoMove
      /\ depth = 0 /\ limit = 0 /\ best = NoMove /\ score = 0 /\ reached = 0
      /\ searches = 0
  BY DEF Init
<1>2. /\ 0 \in 0 .. MaxDepth /\ 0 \in 0 .. MaxSearches /\ position \in Positions
      /\ 0 \in Scores
  BY <1>1, SearchConstants, ScoreIs, Numbers
<1>3. tt \in [Slots -> Entries \cup {NoMove}] /\ TableOK(tt)
  BY <1>1 DEF TableOK
<1>4. TypeOK
  BY <1>1, <1>2, <1>3, NoStack DEF TypeOK
<1>5. StackOK(stack, result) /\ ~Searching
  BY <1>1, NoStack DEF Searching
<1> QED
  BY <1>1, <1>3, <1>4, <1>5 DEF MateInv

LEMMA MateStep ==
  MateInv /\ [Next]_vars => MateInv'
<1> SUFFICES ASSUME MateInv, [Next]_vars PROVE MateInv'
  OBVIOUS
<1>1. CASE UNCHANGED vars
  <2>1. /\ game' = game /\ position' = position /\ tt' = tt /\ stack' = stack
        /\ result' = result /\ depth' = depth /\ limit' = limit /\ best' = best
        /\ score' = score /\ reached' = reached /\ searches' = searches
    BY <1>1 DEF vars
  <2>2. TypeOK' /\ StackOK(stack, result)' /\ TableOK(tt)'
    BY <2>1, FramesKept DEF MateInv, TypeOK
  <2>3. (result # NoMove => Searching /\ ResultOK(result, Node, Ply))'
    BY <2>1, FramesKept DEF MateInv, Searching, Node, Ply
  <2>4. (Searching => depth >= 1 /\ searches >= 1)'
    BY <2>1 DEF MateInv, Searching
  <2> QED
    BY <2>2, <2>3, <2>4 DEF MateInv
<1>2. CASE Next
  BY <1>2, OuterKept, EnterNegamaxKept, TryMoveKept, TakeScoreKept,
     LeaveNegamaxKept, EnterQuiescenceKept, TakeCaptureKept, LeaveQuiescenceKept,
     TakeRootScoreKept, LeaveRootKept DEF Next
<1> QED
  BY <1>1, <1>2

LEMMA MateInvariance ==
  Spec => []MateInv
BY MateInit, MateStep, PTL DEF Spec

\* Every state of the search is of its type: the stack holds frames, and no
\* value leaves the range between the mates (chess-search/src/lib.rs).
THEOREM TypeCorrect ==
  Spec => []TypeOK
<1>1. MateInv => TypeOK
  BY DEF MateInv
<1> QED
  BY <1>1, MateInvariance, PTL

LEMMA GameStays ==
  [Next]_vars => game' = game
BY DEF Next, vars, searchVars, SetPosition, NewGame, Search, Abort,
   EnterNegamax, TryMove, TakeScore, LeaveNegamax, EnterQuiescence, TakeCapture,
   LeaveQuiescence, TakeRootScore, LeaveRoot

\* Only the end of an iteration raises the depth that was reached.
LEMMA ReachedRises ==
  ASSUME MateInv, [Next]_vars, reached' > reached
  PROVE  LeaveRoot
<1>1. reached \in Nat /\ ~(reached > reached) /\ ~(0 > reached)
  BY SearchConstants DEF MateInv, TypeOK
<1>2. reached' # reached /\ reached' # 0
  BY <1>1
<1> QED
  BY <1>2 DEF Next, vars, searchVars, SetPosition, NewGame, Search, Abort,
     EnterNegamax, TryMove, TakeScore, LeaveNegamax, EnterQuiescence,
     TakeCapture, LeaveQuiescence, TakeRootScore

\* Across aborted iterations, replaced entries, later positions and a table kept
\* from the searches before, every mate that is announced, and every mate noted
\* in the table, can be forced within the number of plies it claims (search_root,
\* negamax, quiescence, score_to_tt and score_from_tt).
THEOREM MatesAlwaysForced ==
  Spec => MatesAreForced
<1> DEFINE Step ==
      /\ reached' > reached => Honest(position, score', TRUE, TRUE)
      /\ \A slot \in Slots :
           LET e == tt'[slot]
           IN  e # tt[slot] /\ e # NoMove =>
                 Honest(e.key, e.score, e.bound # "upper", e.bound # "lower")
<1>1. ASSUME MateInv, MateInv', [Next]_vars PROVE Step
  <2>1. ASSUME reached' > reached PROVE Honest(position, score', TRUE, TRUE)
    <3>1. LeaveRoot
      BY <1>1, <2>1, ReachedRises
    <3>2. /\ score' \in Int
          /\ Claims(position, score', 0, TRUE, FALSE)
          /\ Claims(position, score', 0, FALSE, TRUE)
      BY <1>1, <3>1, LeaveRootScore, ScoreIs
    <3>3. MateScore - score' - 0 = MateScore - score'
          /\ MateScore + score' - 0 = MateScore + score'
      BY <3>2, Numbers
    <3> QED
      BY <3>2, <3>3 DEF Claims, Honest
  <2>2. ASSUME NEW slot \in Slots, NEW e, e = tt'[slot], e # NoMove
        PROVE  Honest(e.key, e.score, e.bound # "upper", e.bound # "lower")
    <3>1. tt' \in [Slots -> Entries \cup {NoMove}] /\ TableOK(tt)'
      BY <1>1 DEF MateInv, TypeOK
    <3>2. \A p, n : Mates(p, n)' = Mates(p, n) /\ Mated(p, n)' = Mated(p, n)
      BY <1>1, GameStays, GameKept
    <3>3. TableOK(tt')
      BY <3>1, <3>2 DEF TableOK, EntryOK, Claims
    <3>4. EntryOK(e) /\ e.score \in Int
      BY <2>2, <3>1, <3>3 DEF TableOK, Entries
    <3>5. MateScore - e.score - 0 = MateScore - e.score
          /\ MateScore + e.score - 0 = MateScore + e.score
      BY <3>4, Numbers
    <3> QED
      BY <3>4, <3>5 DEF EntryOK, Claims, Honest
  <2> QED
    BY <2>1, <2>2
<1> QED
  BY <1>1, MateInvariance, PTL DEF Spec, MatesAreForced

------------------------------------------------------------------------------
(* The value of a node.                                                    *)

LEMMA ValuesAre ==
  ASSUME game \in Games, NEW p \in Positions, NEW n \in 0 .. MaxPly
  PROVE  /\ \A q \in Nat : Quiet[n][p][q] \in Scores /\ Quiet[n][p][q] \in Int
         /\ \A d \in Int : Minimax[n][p][d] \in Scores /\ Minimax[n][p][d] \in Int
<1>1. Quiet[n] \in QuietValues /\ Minimax[n] \in MinimaxValues
  BY QuietSteps, MinimaxSteps
<1>2. \A x \in Scores : x \in Int
  BY ScoreIs
<1> QED
  BY <1>1, <1>2 DEF QuietValues, MinimaxValues

\* Out of check the deepest captures are not looked at, and the end of the game
\* has its score.
LEMMA QuietEnds ==
  ASSUME game \in Games, NEW p \in Positions, NEW n \in 0 .. MaxPly, NEW q \in Nat
  PROVE  /\ ~InCheck(p) /\ q >= MaxQuiescencePly => Quiet[n][p][q] = game.eval[p]
         /\ (InCheck(p) \/ q < MaxQuiescencePly) /\ game.moves[p] = {} =>
              Quiet[n][p][q] = TerminalScore(p, MaxPly - n)
<1>1. Quiet[n][p][q] = QuietStep(Quiet[n - 1], n, p, q)
  BY QuietSteps
<1>2. MaxQuiescencePly \in Nat
  BY SearchConstants
<1> QED
  BY <1>1, <1>2 DEF QuietStep

\* A position with moves is worth its best move, or what it is worth as it is.
LEMMA QuietOpens ==
  ASSUME game \in Games, NEW p \in Positions, NEW n \in 0 .. MaxPly, NEW q \in Nat,
         InCheck(p) \/ q < MaxQuiescencePly, game.moves[p] # {},
         NEW moves, moves = QuiescenceMoves(p, q)
  PROVE  /\ ~InCheck(p) => game.eval[p] <= Quiet[n][p][q]
         /\ n > 0 => \A m \in moves : -Quiet[n - 1][m][q + 1] <= Quiet[n][p][q]
         /\ \/ ~InCheck(p) /\ Quiet[n][p][q] = game.eval[p]
            \/ n > 0 /\ \E m \in moves : Quiet[n][p][q] = -Quiet[n - 1][m][q + 1]
            \/ n = 0 /\ InCheck(p)
<1> DEFINE values == {-Quiet[n - 1][m][q + 1] : m \in moves}
           value == Quiet[n][p][q]
<1>1. value = QuietStep(Quiet[n - 1], n, p, q)
  BY QuietSteps
<1>2. ~(~InCheck(p) /\ q >= MaxQuiescencePly)
  BY SearchConstants
<1>3. value = IF n = 0 THEN game.eval[p]
              ELSE IF InCheck(p) THEN Max(values)
              ELSE Max(values \cup {game.eval[p]})
  BY <1>1, <1>2 DEF QuietStep
<1>4. game.eval[p] \in Int /\ game.eval[p] \in Scores
  BY GameIs
<1>5. CASE n = 0
  BY <1>3, <1>4, <1>5
<1>6. CASE n # 0
  <2>1. n > 0 /\ n - 1 \in 0 .. MaxPly
    BY <1>6, Numbers
  <2>2. moves \subseteq game.moves[p] /\ game.moves[p] \in SUBSET Positions
        /\ (InCheck(p) => moves # {})
    BY GameIs
  <2>3. \A m \in moves : -Quiet[n - 1][m][q + 1] \in Scores
    <3>1. \A m \in moves : Quiet[n - 1][m][q + 1] \in Scores
      BY <2>1, <2>2, ValuesAre
    <3>2. \A x \in Scores : -x \in Scores
      BY ScoreIs, Numbers
    <3> QED
      BY <3>1, <3>2
  <2>4. values \in SUBSET Scores /\ (InCheck(p) => values # {})
    BY <2>2, <2>3
  <2>5. \A m \in moves : -Quiet[n - 1][m][q + 1] \in values
    OBVIOUS
  <2>6. \A x \in values : \E m \in moves : x = -Quiet[n - 1][m][q + 1]
    OBVIOUS
  <2> HIDE DEF values
  <2>7. CASE InCheck(p)
    <3>1. Max(values) \in values /\ \A x \in values : x <= Max(values)
      BY <2>4, <2>7, MaxIs
    <3>2. value = Max(values)
      BY <1>3, <1>6, <2>7
    <3> HIDE DEF value
    <3>3. \A m \in moves : -Quiet[n - 1][m][q + 1] <= value
      BY <2>5, <3>1, <3>2
    <3>4. \E m \in moves : value = -Quiet[n - 1][m][q + 1]
      BY <2>6, <3>1, <3>2
    <3> QED
      BY <2>1, <2>7, <3>3, <3>4 DEF value
  <2>8. CASE ~InCheck(p)
    <3> DEFINE all == values \cup {game.eval[p]}
    <3>1. all \in SUBSET Scores /\ all # {}
      BY <1>4, <2>4
    <3>2. value = Max(all)
      BY <1>3, <1>6, <2>8
    <3>3. \A x \in values : x \in all
      OBVIOUS
    <3>4. game.eval[p] \in all /\ \A x \in all : x \in values \/ x = game.eval[p]
      OBVIOUS
    <3> HIDE DEF all, value
    <3>5. value \in all /\ \A x \in all : x <= value
      BY <3>1, <3>2, MaxIs
    <3>6. \A m \in moves : -Quiet[n - 1][m][q + 1] <= value
      BY <2>5, <3>3, <3>5
    <3>7. value = game.eval[p] \/ \E m \in moves : value = -Quiet[n - 1][m][q + 1]
      BY <2>6, <3>4, <3>5
    <3>8. game.eval[p] <= value
      BY <3>4, <3>5
    <3> QED
      BY <2>1, <2>8, <3>6, <3>7, <3>8 DEF value
  <2> QED
    BY <2>7, <2>8
<1> QED
  BY <1>5, <1>6

LEMMA MinimaxEnds ==
  ASSUME game \in Games, NEW p \in Positions, NEW n \in 0 .. MaxPly, NEW d \in Nat
  PROVE  /\ d = 0 /\ ~InCheck(p) => Minimax[n][p][d] = Quiet[n][p][0]
         /\ (d > 0 \/ InCheck(p)) /\ game.moves[p] = {} =>
              Minimax[n][p][d] = TerminalScore(p, MaxPly - n)
         /\ InCheck(p) => Minimax[n][p][0] = Minimax[n][p][1]
<1>1. /\ Minimax[n][p][d] = MinimaxStep(Minimax[n - 1], n, p, d)
      /\ Minimax[n][p][0] = MinimaxStep(Minimax[n - 1], n, p, 0)
      /\ Minimax[n][p][1] = MinimaxStep(Minimax[n - 1], n, p, 1)
  BY MinimaxSteps
<1>2. d = 0 /\ ~InCheck(p) => Minimax[n][p][d] = Quiet[n][p][0]
  BY <1>1 DEF MinimaxStep
<1>3. ASSUME d > 0 \/ InCheck(p), game.moves[p] = {}
      PROVE  Minimax[n][p][d] = TerminalScore(p, MaxPly - n)
  <2>1. ~(d <= 0 /\ ~InCheck(p))
    BY <1>3
  <2> QED
    BY <1>1, <1>3, <2>1 DEF MinimaxStep
<1>4. ASSUME InCheck(p) PROVE Minimax[n][p][0] = Minimax[n][p][1]
  <2>1. Bigger(0, 1) - 1 = Bigger(1, 1) - 1
    BY DEF Bigger
  <2> QED
    BY <1>1, <1>4, <2>1 DEF MinimaxStep
<1> QED
  BY <1>2, <1>3, <1>4

LEMMA MinimaxOpens ==
  ASSUME game \in Games, NEW p \in Positions, NEW n \in 1 .. MaxPly, NEW d \in Nat,
         d >= 1, game.moves[p] # {}
  PROVE  /\ \A m \in game.moves[p] : -Minimax[n - 1][m][d - 1] <= Minimax[n][p][d]
         /\ \E m \in game.moves[p] : Minimax[n][p][d] = -Minimax[n - 1][m][d - 1]
<1> DEFINE moves == game.moves[p]
           values == {-Minimax[n - 1][m][d - 1] : m \in moves}
           value == Minimax[n][p][d]
<1>1. n \in 0 .. MaxPly /\ n - 1 \in 0 .. MaxPly /\ n # 0
  BY Numbers
<1>2. value = MinimaxStep(Minimax[n - 1], n, p, d)
  BY <1>1, MinimaxSteps
<1>3. ~(d <= 0) /\ Bigger(d, 1) - 1 = d - 1 /\ d - 1 \in Int
  BY DEF Bigger
<1>4. value = Max(values)
  BY <1>1, <1>2, <1>3 DEF MinimaxStep
<1>5. \A m \in moves : -Minimax[n - 1][m][d - 1] \in Scores
  <2>1. moves \in SUBSET Positions
    BY GameIs
  <2>2. \A m \in moves : Minimax[n - 1][m][d - 1] \in Scores
    BY <1>1, <1>3, <2>1, ValuesAre
  <2>3. \A x \in Scores : -x \in Scores
    BY ScoreIs, Numbers
  <2> QED
    BY <2>2, <2>3
<1>6. values \in SUBSET Scores /\ values # {}
  BY <1>5
<1>7. \A m \in moves : -Minimax[n - 1][m][d - 1] \in values
  OBVIOUS
<1>8. \A x \in values : \E m \in moves : x = -Minimax[n - 1][m][d - 1]
  OBVIOUS
<1> HIDE DEF values, value
<1>9. value \in values /\ \A x \in values : x <= value
  BY <1>4, <1>6, MaxIs
<1> QED
  BY <1>7, <1>8, <1>9 DEF value

\* A node of root or negamax is worth its best move.
LEMMA LoopValue ==
  ASSUME game \in Games, NEW f \in Frames, NEW k \in 0 .. MaxPly, k < MaxPly,
         f.at \in {"root", "loop"}, f.depth >= 1, game.moves[f.pos] # {}
  PROVE  /\ ValueOf(f, k) \in Int
         /\ \A m \in game.moves[f.pos] :
              ValueFor(f, m, k) \in Int /\ ValueFor(f, m, k) <= ValueOf(f, k)
         /\ \E m \in game.moves[f.pos] : ValueOf(f, k) = ValueFor(f, m, k)
<1>1. /\ MaxPly - k \in 1 .. MaxPly /\ MaxPly - k - 1 \in 0 .. MaxPly
      /\ MaxPly - k \in 0 .. MaxPly
  BY Numbers
<1>2. f.pos \in Positions /\ f.depth \in Nat /\ f.depth - 1 \in Int
  BY FrameIs
<1>3. game.moves[f.pos] \in SUBSET Positions
  BY <1>2, GameIs
<1>4. ValueOf(f, k) = Minimax[MaxPly - k][f.pos][f.depth]
  BY DEF ValueOf
<1>5. \A m : ValueFor(f, m, k) = -Minimax[MaxPly - k - 1][m][f.depth - 1]
  BY DEF ValueFor
<1>6. Minimax[MaxPly - k][f.pos][f.depth] \in Int
  BY <1>1, <1>2, ValuesAre
<1>7. \A m \in game.moves[f.pos] : -Minimax[MaxPly - k - 1][m][f.depth - 1] \in Int
  <2>1. \A m \in game.moves[f.pos] : Minimax[MaxPly - k - 1][m][f.depth - 1] \in Int
    BY <1>1, <1>2, <1>3, ValuesAre
  <2> QED
    BY <2>1
<1> DEFINE n == MaxPly - k
<1>8. n \in 1 .. MaxPly
  BY <1>1
<1> HIDE DEF n
<1>9. /\ \A m \in game.moves[f.pos] :
           -Minimax[n - 1][m][f.depth - 1] <= Minimax[n][f.pos][f.depth]
      /\ \E m \in game.moves[f.pos] :
           Minimax[n][f.pos][f.depth] = -Minimax[n - 1][m][f.depth - 1]
  BY <1>2, <1>8, MinimaxOpens
<1> QED
  BY <1>4, <1>5, <1>6, <1>7, <1>9 DEF n

\* A quiescence node is worth its best capture, or what it is worth as it is.
LEMMA CapturesValue ==
  ASSUME game \in Games, NEW f \in Frames, NEW k \in 0 .. MaxPly,
         f.at = "captures", InCheck(f.pos) \/ f.depth < MaxQuiescencePly,
         game.moves[f.pos] # {}
  PROVE  /\ ValueOf(f, k) \in Int
         /\ ~InCheck(f.pos) => game.eval[f.pos] <= ValueOf(f, k)
         /\ k < MaxPly => \A m \in MovesOf(f) :
              ValueFor(f, m, k) \in Int /\ ValueFor(f, m, k) <= ValueOf(f, k)
         /\ \/ ~InCheck(f.pos) /\ ValueOf(f, k) = game.eval[f.pos]
            \/ /\ k < MaxPly
               /\ \E m \in MovesOf(f) : ValueOf(f, k) = ValueFor(f, m, k)
            \/ k = MaxPly /\ InCheck(f.pos)
<1> DEFINE n == MaxPly - k
<1>1. /\ n \in 0 .. MaxPly /\ (n > 0 <=> k < MaxPly) /\ (n = 0 <=> k = MaxPly)
      /\ k < MaxPly => n - 1 \in 0 .. MaxPly
  BY Numbers
<1>2. f.pos \in Positions /\ f.depth \in Nat /\ f.depth + 1 \in Nat
  BY FrameIs
<1>3. MovesOf(f) = QuiescenceMoves(f.pos, f.depth)
  BY DEF MovesOf
<1>4. MovesOf(f) \in SUBSET Positions
  BY MovesOfIs
<1>5. ValueOf(f, k) = Quiet[n][f.pos][f.depth]
  BY DEF ValueOf
<1>6. \A m : ValueFor(f, m, k) = -Quiet[n - 1][m][f.depth + 1]
  BY DEF ValueFor
<1> HIDE DEF n
<1>7. Quiet[n][f.pos][f.depth] \in Int
  BY <1>1, <1>2, ValuesAre
<1>8. k < MaxPly => \A m \in MovesOf(f) : -Quiet[n - 1][m][f.depth + 1] \in Int
  <2>1. k < MaxPly => \A m \in MovesOf(f) : Quiet[n - 1][m][f.depth + 1] \in Int
    BY <1>1, <1>2, <1>4, ValuesAre
  <2> QED
    BY <2>1
<1> DEFINE moves == MovesOf(f)
<1>9. moves = QuiescenceMoves(f.pos, f.depth)
  BY <1>3
<1> HIDE DEF moves
<1>10. /\ ~InCheck(f.pos) => game.eval[f.pos] <= Quiet[n][f.pos][f.depth]
       /\ n > 0 => \A m \in moves :
            -Quiet[n - 1][m][f.depth + 1] <= Quiet[n][f.pos][f.depth]
       /\ \/ ~InCheck(f.pos) /\ Quiet[n][f.pos][f.depth] = game.eval[f.pos]
          \/ n > 0 /\ \E m \in moves :
               Quiet[n][f.pos][f.depth] = -Quiet[n - 1][m][f.depth + 1]
          \/ n = 0 /\ InCheck(f.pos)
  BY <1>1, <1>2, <1>9, QuietOpens
<1> QED
  BY <1>1, <1>5, <1>6, <1>7, <1>8, <1>10 DEF moves

\* What the value of a move tells its node.
LEMMA MoveValue ==
  ASSUME game \in Games, NEW f \in Frames, NEW k \in 0 .. MaxPly, Busy(f, k),
         f.at \in {"root", "loop"} => f.depth >= 1,
         NEW r \in Scores, ResultValued(r, f, k), NEW s, s = -r
  PROVE  /\ ValueFor(f, f.move, k) \in Int
         /\ s < f.beta => ValueFor(f, f.move, k) <= s
         /\ s > f.alpha => ValueFor(f, f.move, k) >= s
<1>1. r \in Int /\ -MateScore <= r /\ r <= MateScore
  BY ScoreIs
<1>2. f.move \in game.moves[f.pos] /\ f.move \in Positions /\ k < MaxPly
  BY MoveIs
<1>3. f.depth \in Nat /\ f.alpha \in Int /\ f.beta \in Int
  BY FrameIs
<1>4. ValueFor(f, f.move, k) \in Int
  <2>1. MaxPly - k - 1 \in 0 .. MaxPly
    BY <1>2, Numbers
  <2>2. /\ Quiet[MaxPly - k - 1][f.move][f.depth + 1] \in Int
        /\ Minimax[MaxPly - k - 1][f.move][f.depth - 1] \in Int
    BY <1>2, <1>3, <2>1, ValuesAre
  <2> QED
    BY <2>2 DEF ValueFor
<1> DEFINE w == ValueFor(f, f.move, k)
<1>5. (r > -f.beta => -w >= r) /\ (r < -f.alpha => -w <= r)
  BY DEF ResultValued
<1> HIDE DEF w
<1>6. (s < f.beta => w <= s) /\ (s > f.alpha => w >= s)
  BY <1>1, <1>3, <1>4, <1>5 DEF w
<1> QED
  BY <1>4, <1>6 DEF w

\* The value of the moves of a frame depends on what it is, not on its window.
LEMMA SameValues ==
  ASSUME NEW f, NEW g, g.at = f.at, g.pos = f.pos, g.depth = f.depth, NEW k
  PROVE  ValueOf(g, k) = ValueOf(f, k) /\ \A m : ValueFor(g, m, k) = ValueFor(f, m, k)
BY DEF ValueOf, ValueFor

LEMMA ScoreValued ==
  ASSUME game \in Games, NEW f \in Frames, NEW k \in 0 .. MaxPly, Busy(f, k),
         f.at \in {"root", "loop"}, Valued(f, k, Taken(f) \ {f.move}),
         NEW r \in Scores, ResultValued(r, f, k), NEW s, s = -r, s < f.beta,
         NEW g, g = WithScore(f, s)
  PROVE  /\ Valued(g, k, Taken(g))
         /\ ValueOf(g, k) = ValueOf(f, k)
         /\ \A m : ValueFor(g, m, k) = ValueFor(f, m, k)
<1> DEFINE done == Taken(f) \ {f.move}
<1>1. /\ g.at = f.at /\ g.pos = f.pos /\ g.original = f.original
      /\ g.depth = f.depth /\ g.left = f.left
      /\ g.best = IF s > f.score THEN f.move ELSE f.best
      /\ g.score = Bigger(f.score, s)
  BY DEF Frames, WithScore
<1>2. MovesScored(f, k, done) /\ f.at # "captures" /\ f.at # "negamax"
  BY DEF Busy, Scored
<1>3. /\ f.depth >= 1 /\ f.alpha = Bigger(f.original, f.score)
      /\ f.original \in Int /\ f.score \in Int /\ f.alpha \in Int /\ s \in Int
  BY <1>2, FrameIs, ScoreIs DEF MovesScored
<1>4. /\ ValueFor(f, f.move, k) \in Int /\ ValueFor(f, f.move, k) <= s
      /\ s > f.alpha => ValueFor(f, f.move, k) >= s
  BY <1>3, MoveValue
<1>5. /\ f.pos \in Reached[k] /\ (f.at = "root" => f.depth = depth)
      /\ f.depth = Bigger(depth - k, 1) /\ (InCheck(f.pos) \/ depth - k > 0)
      /\ \A m \in done : ValueFor(f, m, k) <= f.score
      /\ f.score > f.original => f.best \in done /\ ValueFor(f, f.best, k) >= f.score
  BY DEF Valued
<1>6. Taken(g) = Taken(f) /\ Taken(f) = done \cup {f.move}
  <2>1. MovesOf(g) = MovesOf(f)
    BY <1>1 DEF MovesOf
  <2> QED
    BY <1>1, <2>1, MoveIs DEF Taken
<1>7. /\ ValueOf(g, k) = ValueOf(f, k)
      /\ \A m : ValueFor(g, m, k) = ValueFor(f, m, k)
  BY <1>1, SameValues
<1>8. \A m \in done : ValueFor(f, m, k) \in Int
  <2>1. MaxPly - k - 1 \in 0 .. MaxPly
    BY MoveIs, Numbers
  <2>2. \A m \in done : m \in Positions
    BY MovesOfIs DEF Taken
  <2>3. f.depth - 1 \in Int
    BY <1>3, FrameIs
  <2>4. \A m \in done : Minimax[MaxPly - k - 1][m][f.depth - 1] \in Int
    BY <2>1, <2>2, <2>3, ValuesAre
  <2> QED
    BY <1>2, <2>4 DEF ValueFor
<1> HIDE DEF done
<1>9. \A m \in Taken(f) : ValueFor(f, m, k) <= Bigger(f.score, s)
  <2>1. f.score <= Bigger(f.score, s) /\ s <= Bigger(f.score, s)
        /\ Bigger(f.score, s) \in Int
    BY <1>3 DEF Bigger
  <2>2. \A m \in done : ValueFor(f, m, k) <= Bigger(f.score, s)
    BY <1>3, <1>5, <1>8, <2>1
  <2>3. ValueFor(f, f.move, k) <= Bigger(f.score, s)
    BY <1>3, <1>4, <2>1
  <2> QED
    BY <1>6, <2>2, <2>3
<1>10. ASSUME g.score > g.original
       PROVE  g.best \in Taken(f) /\ ValueFor(f, g.best, k) >= g.score
  <2>1. CASE s > f.score
    <3>1. g.score = s /\ g.best = f.move
      BY <1>1, <1>3, <2>1 DEF Bigger
    <3>2. s > f.alpha
      BY <1>1, <1>3, <1>10, <2>1, <3>1 DEF Bigger
    <3> QED
      BY <1>4, <1>6, <3>1, <3>2
  <2>2. CASE ~(s > f.score)
    <3>1. g.score = f.score /\ g.best = f.best
      BY <1>1, <1>3, <2>2 DEF Bigger
    <3> QED
      BY <1>1, <1>5, <1>6, <1>10, <3>1
  <2> QED
    BY <2>1, <2>2
<1>11. Valued(g, k, Taken(g))
  BY <1>1, <1>2, <1>5, <1>6, <1>7, <1>9, <1>10 DEF Valued
<1> QED
  BY <1>7, <1>11

LEMMA CaptureValued ==
  ASSUME game \in Games, NEW f \in Frames, NEW k \in 0 .. MaxPly, Busy(f, k),
         f.at = "captures", Valued(f, k, Taken(f) \ {f.move}),
         NEW r \in Scores, ResultValued(r, f, k), NEW s, s = -r, s < f.beta,
         NEW g, g = WithCapture(f, s)
  PROVE  /\ Valued(g, k, Taken(g))
         /\ ValueOf(g, k) = ValueOf(f, k)
         /\ \A m : ValueFor(g, m, k) = ValueFor(f, m, k)
<1> DEFINE done == Taken(f) \ {f.move}
<1>1. /\ g.at = f.at /\ g.pos = f.pos /\ g.original = f.original
      /\ g.depth = f.depth /\ g.left = f.left
      /\ g.alpha = Bigger(f.alpha, s)
  BY DEF Frames, WithCapture
<1>2. f.original \in Int /\ f.alpha \in Int /\ s \in Int /\ f.depth \in Nat
  BY FrameIs, ScoreIs
<1>3. /\ ValueFor(f, f.move, k) \in Int /\ ValueFor(f, f.move, k) <= s
      /\ s > f.alpha => ValueFor(f, f.move, k) >= s
  BY MoveValue
<1>4. /\ f.pos \in Reached[k]
      /\ \A m \in done : ValueFor(f, m, k) <= f.alpha
      /\ f.alpha > f.original =>
           \/ ~InCheck(f.pos) /\ f.alpha = game.eval[f.pos]
           \/ \E m \in done : ValueFor(f, m, k) >= f.alpha
  BY DEF Valued
<1>5. Taken(g) = Taken(f) /\ Taken(f) = done \cup {f.move}
  <2>1. MovesOf(g) = MovesOf(f)
    BY <1>1 DEF MovesOf
  <2> QED
    BY <1>1, <2>1, MoveIs DEF Taken
<1>6. /\ ValueOf(g, k) = ValueOf(f, k)
      /\ \A m : ValueFor(g, m, k) = ValueFor(f, m, k)
  BY <1>1, SameValues
<1>7. \A m \in done : ValueFor(f, m, k) \in Int
  <2>1. MaxPly - k - 1 \in 0 .. MaxPly
    BY MoveIs, Numbers
  <2>2. \A m \in done : m \in Positions
    BY MovesOfIs DEF Taken
  <2>3. \A m \in done : Quiet[MaxPly - k - 1][m][f.depth + 1] \in Int
    BY <1>2, <2>1, <2>2, ValuesAre
  <2> QED
    BY <2>3 DEF ValueFor
<1> HIDE DEF done
<1>8. \A m \in Taken(f) : ValueFor(f, m, k) <= Bigger(f.alpha, s)
  <2>1. f.alpha <= Bigger(f.alpha, s) /\ s <= Bigger(f.alpha, s)
        /\ Bigger(f.alpha, s) \in Int
    BY <1>2 DEF Bigger
  <2>2. \A m \in done : ValueFor(f, m, k) <= Bigger(f.alpha, s)
    BY <1>2, <1>4, <1>7, <2>1
  <2>3. ValueFor(f, f.move, k) <= Bigger(f.alpha, s)
    BY <1>2, <1>3, <2>1
  <2> QED
    BY <1>5, <2>2, <2>3
<1>9. ASSUME g.alpha > g.original
      PROVE  \/ ~InCheck(f.pos) /\ g.alpha = game.eval[f.pos]
             \/ \E m \in Taken(f) : ValueFor(f, m, k) >= g.alpha
  <2>1. CASE s > f.alpha
    <3>1. g.alpha = s
      BY <1>1, <1>2, <2>1 DEF Bigger
    <3> QED
      BY <1>3, <1>5, <2>1, <3>1
  <2>2. CASE ~(s > f.alpha)
    <3>1. g.alpha = f.alpha
      BY <1>1, <1>2, <2>2 DEF Bigger
    <3> QED
      BY <1>1, <1>4, <1>5, <1>9, <3>1
  <2> QED
    BY <2>1, <2>2
<1>10. Valued(g, k, Taken(g))
  BY <1>1, <1>4, <1>5, <1>6, <1>8, <1>9 DEF Valued
<1> QED
  BY <1>6, <1>10

------------------------------------------------------------------------------
(* The values on the stack.                                                *)

LEMMA ValuesKept ==
  ASSUME game' = game, position' = position, depth' = depth
  PROVE  /\ \A s, v : StackValued(s, v)' <=> StackValued(s, v)
         /\ \A v, g, k : ResultValued(v, g, k)' <=> ResultValued(v, g, k)
         /\ \A t : TableValued(t)' <=> TableValued(t)
<1>1. /\ Quiet' = Quiet /\ Minimax' = Minimax /\ Reached' = Reached
      /\ \A p : InCheck(p)' <=> InCheck(p)
  BY GameKept
<1>2. \A f, m, k : ValueFor(f, m, k)' = ValueFor(f, m, k)
  BY <1>1 DEF ValueFor
<1>3. \A f, k : ValueOf(f, k)' = ValueOf(f, k)
  BY <1>1 DEF ValueOf
<1>4. \A f : MovesOf(f)' = MovesOf(f) /\ Taken(f)' = Taken(f)
  BY DEF MovesOf, Taken, QuiescenceMoves, InCheck
<1>5. \A f, k, done : Valued(f, k, done)' <=> Valued(f, k, done)
  BY <1>1, <1>2 DEF Valued
<1>6. \A s, v : StackValued(s, v)' <=> StackValued(s, v)
  BY <1>2, <1>3, <1>4, <1>5 DEF StackValued
<1>7. \A v, g, k : ResultValued(v, g, k)' <=> ResultValued(v, g, k)
  BY <1>2 DEF ResultValued
<1>8. \A e : EntryValued(e)' <=> EntryValued(e)
  BY <1>1 DEF EntryValued
<1>9. \A t : TableValued(t)' <=> TableValued(t)
  BY <1>8 DEF TableValued
<1> QED
  BY <1>6, <1>7, <1>9

LEMMA ReplacedValued ==
  ASSUME NEW s \in Seq(Frames), s # <<>>, NEW v, StackValued(s, v),
         NEW f \in Frames, f.pos = Head(s).pos, Valued(f, Len(s) - 1, Taken(f)),
         ValueOf(f, Len(s) - 1) = ValueOf(Head(s), Len(s) - 1),
         NEW t, IsReplaced(t, s, f)
  PROVE  StackValued(t, NoMove)
<1>1. /\ Len(t) = Len(s) /\ t[1] = f
      /\ \A i \in 2 .. Len(s) : t[i] = s[i]
  BY ReplacedIs
<1>2. Len(s) \in Nat /\ Len(s) >= 1 /\ Head(s) = s[1]
  BY StackParts
<1>3. ASSUME NEW i \in 1 .. Len(t), i > 1
      PROVE  Valued(t[i], Len(t) - i, Taken(t[i]) \ {t[i].move})
  <2>1. i \in 2 .. Len(s) /\ i \in 1 .. Len(s)
    BY <1>1, <1>2, <1>3
  <2>2. Valued(s[i], Len(s) - i, Taken(s[i]) \ {s[i].move})
    BY <1>3, <2>1 DEF StackValued
  <2> QED
    BY <1>1, <2>1, <2>2
<1>4. Valued(t[1], Len(t) - 1, Taken(t[1]))
  BY <1>1
<1>5. ASSUME NEW i \in 1 .. Len(t) - 1
      PROVE  ValueOf(t[i], Len(t) - i)
               = -ValueFor(t[i + 1], t[i].pos, Len(t) - i - 1)
  <2>1. ValueOf(s[i], Len(s) - i) = -ValueFor(s[i + 1], s[i].pos, Len(s) - i - 1)
    BY <1>1, <1>5 DEF StackValued
  <2>2. t[i + 1] = s[i + 1]
    <3>1. i + 1 \in 2 .. Len(s)
      BY <1>1, <1>2
    <3> QED
      BY <1>1, <3>1
  <2>3. CASE i = 1
    BY <1>1, <1>2, <2>1, <2>2, <2>3
  <2>4. CASE i # 1
    <3>1. t[i] = s[i]
      BY <1>1, <1>2, <2>4
    <3> QED
      BY <1>1, <2>1, <2>2, <3>1
  <2> QED
    BY <2>3, <2>4
<1> QED
  BY <1>3, <1>4, <1>5 DEF StackValued

LEMMA PushedValued ==
  ASSUME NEW s \in Seq(Frames), s # <<>>, StackValued(s, NoMove),
         NEW c \in Frames, NEW f \in Frames, f.pos = Head(s).pos,
         Valued(f, Len(s) - 1, Taken(f) \ {f.move}),
         ValueOf(f, Len(s) - 1) = ValueOf(Head(s), Len(s) - 1),
         Valued(c, Len(s), Taken(c)),
         ValueOf(c, Len(s)) = -ValueFor(f, c.pos, Len(s) - 1),
         NEW t, IsPushed(t, s, c, f)
  PROVE  StackValued(t, NoMove)
<1>1. /\ Len(t) = Len(s) + 1 /\ t[1] = c /\ t[2] = f
      /\ \A i \in 3 .. Len(s) + 1 : t[i] = s[i - 1]
  BY PushedIs
<1>2. Len(s) \in Nat /\ Len(s) >= 1 /\ Head(s) = s[1]
  BY StackParts
<1>3. ASSUME NEW i \in 1 .. Len(t), i > 1
      PROVE  Valued(t[i], Len(t) - i, Taken(t[i]) \ {t[i].move})
  <2>1. CASE i = 2
    <3>1. Len(t) - i = Len(s) - 1
      BY <1>1, <1>2, <2>1
    <3> QED
      BY <1>1, <2>1, <3>1
  <2>2. CASE i # 2
    <3>1. /\ i \in 3 .. Len(s) + 1 /\ i - 1 \in 1 .. Len(s) /\ i - 1 > 1
          /\ Len(s) - (i - 1) = Len(t) - i
      BY <1>1, <1>2, <1>3, <2>2
    <3>2. Valued(s[i - 1], Len(s) - (i - 1), Taken(s[i - 1]) \ {s[i - 1].move})
      BY <3>1 DEF StackValued
    <3> QED
      BY <1>1, <3>1, <3>2
  <2> QED
    BY <2>1, <2>2
<1>4. Valued(t[1], Len(t) - 1, Taken(t[1]))
  <2>1. Len(t) - 1 = Len(s)
    BY <1>1, <1>2
  <2> QED
    BY <1>1, <2>1
<1>5. ASSUME NEW i \in 1 .. Len(t) - 1
      PROVE  ValueOf(t[i], Len(t) - i)
               = -ValueFor(t[i + 1], t[i].pos, Len(t) - i - 1)
  <2>1. CASE i = 1
    <3>1. Len(t) - i = Len(s) /\ Len(t) - i - 1 = Len(s) - 1 /\ t[i + 1] = f
      BY <1>1, <1>2, <2>1
    <3> QED
      BY <1>1, <2>1, <3>1
  <2>2. CASE i = 2
    <3>1. /\ Len(t) - i = Len(s) - 1 /\ Len(t) - i - 1 = Len(s) - 1 - 1
          /\ 1 \in 1 .. Len(s) - 1 /\ 3 \in 3 .. Len(s) + 1 /\ i + 1 = 3
      BY <1>1, <1>2, <1>5, <2>2
    <3>2. ValueOf(s[1], Len(s) - 1) = -ValueFor(s[1 + 1], s[1].pos, Len(s) - 1 - 1)
      BY <3>1 DEF StackValued
    <3>3. t[3] = s[2] /\ t[i] = f
      BY <1>1, <2>2, <3>1
    <3> QED
      BY <1>2, <3>1, <3>2, <3>3
  <2>3. CASE i # 1 /\ i # 2
    <3>1. /\ i \in 3 .. Len(s) + 1 /\ i + 1 \in 3 .. Len(s) + 1
          /\ i - 1 \in 1 .. Len(s) - 1 /\ i - 1 + 1 = i /\ i + 1 - 1 = i
          /\ Len(s) - (i - 1) = Len(t) - i
          /\ Len(s) - (i - 1) - 1 = Len(t) - i - 1
      BY <1>1, <1>2, <1>5, <2>3
    <3>2. ValueOf(s[i - 1], Len(s) - (i - 1))
            = -ValueFor(s[i - 1 + 1], s[i - 1].pos, Len(s) - (i - 1) - 1)
      BY <3>1 DEF StackValued
    <3>3. t[i] = s[i - 1] /\ t[i + 1] = s[i]
      BY <1>1, <3>1
    <3> QED
      BY <3>1, <3>2, <3>3
  <2> QED
    BY <2>1, <2>2, <2>3
<1> QED
  BY <1>3, <1>4, <1>5 DEF StackValued

LEMMA PoppedValued ==
  ASSUME NEW s \in Seq(Frames), s # <<>>, NEW w, StackValued(s, w),
         NEW v \in Int, NEW t, IsPopped(t, s), t # <<>>
  PROVE  /\ StackValued(t, v)
         /\ ValueOf(Head(s), Len(s) - 1)
              = -ValueFor(Head(t), Head(s).pos, Len(s) - 1 - 1)
<1>1. Len(s) \in Nat /\ Len(s) >= 1 /\ Head(s) = s[1]
  BY StackParts
<1>2. t \in Seq(Frames) /\ Len(t) = Len(s) - 1 /\ Len(t) \in Nat
      /\ \A i \in 1 .. Len(t) : t[i] = s[i + 1]
      /\ (Len(s) > 1 => Head(t) = s[2])
  BY PoppedIs
<1>3. Len(t) >= 1
  BY <1>2, StackParts
<1>4. Len(s) > 1 /\ Head(t) = s[2]
  BY <1>1, <1>2, <1>3
<1>5. ValueOf(s[1], Len(s) - 1) = -ValueFor(s[2], s[1].pos, Len(s) - 1 - 1)
  <2>1. 1 \in 1 .. Len(s) - 1 /\ 1 + 1 = 2
    BY <1>1, <1>4
  <2>2. ValueOf(s[1], Len(s) - 1) = -ValueFor(s[1 + 1], s[1].pos, Len(s) - 1 - 1)
    BY <2>1 DEF StackValued
  <2> QED
    BY <2>1, <2>2
<1>6. ASSUME NEW i \in 1 .. Len(t)
      PROVE  Valued(t[i], Len(t) - i, Taken(t[i]) \ {t[i].move})
  <2>1. i + 1 \in 1 .. Len(s) /\ i + 1 > 1 /\ Len(s) - (i + 1) = Len(t) - i
    BY <1>1, <1>2
  <2>2. Valued(s[i + 1], Len(s) - (i + 1), Taken(s[i + 1]) \ {s[i + 1].move})
    BY <2>1 DEF StackValued
  <2> QED
    BY <1>2, <2>1, <2>2
<1>7. ASSUME NEW i \in 1 .. Len(t) - 1
      PROVE  ValueOf(t[i], Len(t) - i)
               = -ValueFor(t[i + 1], t[i].pos, Len(t) - i - 1)
  <2>1. /\ i + 1 \in 1 .. Len(s) - 1 /\ i \in 1 .. Len(t) /\ i + 1 \in 1 .. Len(t)
        /\ Len(s) - (i + 1) = Len(t) - i /\ Len(s) - (i + 1) - 1 = Len(t) - i - 1
    BY <1>1, <1>2
  <2>2. ValueOf(s[i + 1], Len(s) - (i + 1))
          = -ValueFor(s[i + 1 + 1], s[i + 1].pos, Len(s) - (i + 1) - 1)
    BY <2>1 DEF StackValued
  <2>3. t[i] = s[i + 1] /\ t[i + 1] = s[i + 1 + 1]
    BY <1>2, <2>1
  <2> QED
    BY <2>1, <2>2, <2>3
<1>8. v # NoMove
  BY SearchConstants
<1>9. StackValued(t, v)
  BY <1>6, <1>7, <1>8 DEF StackValued
<1> QED
  BY <1>1, <1>4, <1>5, <1>9

------------------------------------------------------------------------------
(* Steps of the values.                                                    *)

\* What is true during the first search of a game in a plain position.
FirstSearch == Searching /\ searches = 1 /\ Plain

ValuesOK ==
  /\ MateInv /\ FirstSearch
  /\ StackValued(stack, result)
  /\ result # NoMove => ResultValued(result, Node, Ply)
  /\ TableValued(tt)

\* What it says of the node on top.
LEMMA OnTopValued ==
  ASSUME ValuesOK
  PROVE  /\ result = NoMove => Valued(Node, Ply, Taken(Node))
         /\ result # NoMove =>
              /\ Valued(Node, Ply, Taken(Node) \ {Node.move})
              /\ ResultValued(result, Node, Ply)
<1>1. /\ stack \in Seq(Frames) /\ stack # <<>> /\ Node = Head(stack)
      /\ Ply = Len(stack) - 1
  BY OnTop DEF ValuesOK, FirstSearch
<1>2. Len(stack) \in Nat /\ Len(stack) >= 1 /\ Head(stack) = stack[1]
  BY <1>1, StackParts
<1>3. 1 \in 1 .. Len(stack)
  BY <1>2
<1>4. result = NoMove => Valued(Node, Ply, Taken(Node))
  BY <1>1, <1>2 DEF ValuesOK, StackValued
<1>5. result # NoMove => Valued(Node, Ply, Taken(Node) \ {Node.move})
  BY <1>1, <1>2, <1>3 DEF ValuesOK, StackValued
<1> QED
  BY <1>4, <1>5 DEF ValuesOK

LEMMA PlainKept ==
  ASSUME game' = game, position' = position
  PROVE  Plain' <=> Plain
<1>1. Reached' = Reached /\ \A p : InCheck(p)' <=> InCheck(p)
  BY GameKept
<1> QED
  BY <1>1 DEF Plain

\* A step within a search.
LEMMA ValuesStep ==
  ASSUME ValuesOK, UNCHANGED searchVars, StackValued(stack', result'),
         result' # NoMove => ResultValued(result', Head(stack'), Len(stack') - 1),
         TableValued(tt')
  PROVE  ValuesInv'
<1>1. game' = game /\ position' = position /\ depth' = depth
  BY DEF searchVars
<1>2. StackValued(stack, result)' /\ TableValued(tt)'
      /\ (result # NoMove => ResultValued(result, Node, Ply))'
  BY <1>1, ValuesKept DEF Node, Ply
<1> QED
  BY <1>2 DEF ValuesInv

LEMMA BecomesValued ==
  ASSUME ValuesOK, UNCHANGED <<searchVars, tt>>, result' = NoMove,
         NEW f \in Frames, Becomes(f), f.pos = Node.pos,
         Valued(f, Ply, Taken(f)), ValueOf(f, Ply) = ValueOf(Node, Ply)
  PROVE  ValuesInv'
<1>1. /\ stack \in Seq(Frames) /\ stack # <<>> /\ Node = Head(stack)
      /\ Ply = Len(stack) - 1
  BY OnTop DEF ValuesOK, FirstSearch
<1>2. IsReplaced(stack', stack, f)
  BY DEF Becomes, IsReplaced
<1>3. StackValued(stack', NoMove)
  BY <1>1, <1>2, ReplacedValued DEF ValuesOK
<1> QED
  BY <1>3, ValuesStep DEF ValuesOK

LEMMA ReturnValued ==
  ASSUME ValuesOK, UNCHANGED searchVars, Node.at # "root",
         TableValued(tt'), NEW v \in Scores, Return(v),
         v > Node.original => ValueOf(Node, Ply) >= v,
         v < Node.beta => ValueOf(Node, Ply) <= v
  PROVE  ValuesInv'
<1>1. /\ stack \in Seq(Frames) /\ stack # <<>> /\ Node = Head(stack)
      /\ Ply = Len(stack) - 1 /\ StackOK(stack, result)
      /\ StackValued(stack, result)
  BY OnTop DEF ValuesOK, FirstSearch, MateInv
<1>2. IsPopped(stack', stack) /\ result' = v /\ v \in Int
  BY ScoreIs DEF Return, IsPopped
<1>3. /\ stack' # <<>> /\ Linked(Node, Head(stack')) /\ Len(stack') = Len(stack) - 1
  BY <1>1, <1>2, Popped
<1>4. /\ StackValued(stack', v)
      /\ ValueOf(Node, Ply) = -ValueFor(Head(stack'), Node.pos, Len(stack') - 1)
  BY <1>1, <1>2, <1>3, PoppedValued
<1>5. ResultValued(v, Head(stack'), Len(stack') - 1)
  BY <1>3, <1>4 DEF ResultValued, Linked
<1> QED
  BY <1>2, <1>4, <1>5, ValuesStep

LEMMA StoredValued ==
  ASSUME ValuesOK, NEW p \in Positions, NEW d \in Nat, NEW s \in Int, NEW bound,
         NEW move, NEW k \in 0 .. MaxPly, p \in Reached[k],
         d \in 1 .. Bigger(depth - k, 1),
         bound # "upper" => Minimax[MaxPly - k][p][d] >= s,
         bound # "lower" => Minimax[MaxPly - k][p][d] <= s
  PROVE  TableValued(Stored(p, d, ScoreToTt(s, k), bound, move))
<1> DEFINE e == [key |-> p, depth |-> d, score |-> ScoreToTt(s, k),
                 bound |-> bound, best_move |-> move]
           there == SlotOf[p]
<1>1. tt \in [Slots -> Entries \cup {NoMove}] /\ TableValued(tt) /\ there \in Slots
  BY SearchConstants, GameOK DEF ValuesOK
<1>2. ScoreFromTt(ScoreToTt(s, k), k) = s
  BY Numbers DEF ScoreFromTt, ScoreToTt
<1>3. EntryValued(e)
  <2>1. e.key = p /\ e.depth = d /\ e.score = ScoreToTt(s, k) /\ e.bound = bound
    OBVIOUS
  <2> HIDE DEF e
  <2> QED
    BY <1>2, <2>1 DEF EntryValued
<1>4. Stored(p, d, ScoreToTt(s, k), bound, move)
        = IF Keeps(tt[there], p, d) THEN tt ELSE [tt EXCEPT ![there] = e]
  BY DEF Stored
<1> HIDE DEF e, there
<1>5. TableValued([tt EXCEPT ![there] = e])
  BY <1>1, <1>3 DEF TableValued
<1> QED
  BY <1>1, <1>4, <1>5

\* The depth a node is searched to is the one its ply is left with, and the
\* extension of a check makes no difference to its value.
LEMMA ExtendedIs ==
  ASSUME game \in Games, NEW f \in Frames, NEW k \in 0 .. MaxPly, depth \in Nat,
         f.depth = Bigger(depth - k, 0), f.at = "negamax", NEW d, d = Extended(f)
  PROVE  /\ d \in Nat
         /\ d <= 0 => ~InCheck(f.pos) /\ f.depth = 0
         /\ ~(d <= 0) =>
              /\ d >= 1 /\ d = Bigger(depth - k, 1)
              /\ InCheck(f.pos) \/ depth - k > 0
              /\ f.depth > 0 \/ InCheck(f.pos)
              /\ ValueOf(f, k) = Minimax[MaxPly - k][f.pos][d]
<1>1. f.depth \in Nat /\ f.pos \in Positions /\ depth - k \in Int
  BY FrameIs
<1>2. ValueOf(f, k) = Minimax[MaxPly - k][f.pos][f.depth]
  BY DEF ValueOf
<1>3. CASE InCheck(f.pos) /\ f.depth <= 0
  <2>1. d = 1 /\ f.depth = 0 /\ Bigger(depth - k, 1) = 1
    BY <1>1, <1>3 DEF Extended, Bigger
  <2>2. MaxPly - k \in 0 .. MaxPly
    BY Numbers
  <2>3. Minimax[MaxPly - k][f.pos][0] = Minimax[MaxPly - k][f.pos][1]
    BY <1>1, <1>3, <2>2, MinimaxEnds
  <2> QED
    BY <1>2, <1>3, <2>1, <2>3
<1>4. CASE ~(InCheck(f.pos) /\ f.depth <= 0)
  <2>1. d = f.depth
    BY <1>4 DEF Extended
  <2>2. d <= 0 => f.depth = 0 /\ ~InCheck(f.pos)
    BY <1>1, <1>4, <2>1
  <2>3. ~(d <= 0) => d >= 1 /\ depth - k > 0 /\ d = Bigger(depth - k, 1)
                     /\ f.depth > 0
    BY <1>1, <2>1 DEF Bigger
  <2> QED
    BY <1>1, <1>2, <2>1, <2>2, <2>3
<1> QED
  BY <1>3, <1>4

\* An entry that answers has the depth of the node, and bounds its value.
LEMMA AnswerValued ==
  ASSUME ValuesOK, NEW f \in Frames, NEW k \in 0 .. MaxPly,
         f.pos \in Reached[k], f.original = f.alpha,
         NEW d \in Nat, d = Bigger(depth - k, 1),
         NEW entry, entry = Probe(f.pos), Answers(entry, d, f.alpha, f.beta, k),
         NEW v, v = ScoreFromTt(entry.score, k), v \in Int,
         NEW value, value = Minimax[MaxPly - k][f.pos][d]
  PROVE  (v > f.original => value >= v) /\ (v < f.beta => value <= v)
<1>1. f.pos \in Positions /\ f.alpha \in Int /\ f.beta \in Int
  BY FrameIs
<1>2. entry # NoMove /\ entry \in Entries /\ entry.key = f.pos
      /\ entry.depth >= d /\ entry.depth \in Nat
      /\ entry.bound \in {"exact", "lower", "upper"}
  BY <1>1, EntryIs DEF Answers, Entries, ValuesOK
<1>3. EntryValued(entry)
  <2>1. SlotOf[f.pos] \in Slots /\ entry = tt[SlotOf[f.pos]]
    BY <1>1, <1>2, SearchConstants DEF Probe
  <2> QED
    BY <1>2, <2>1 DEF ValuesOK, TableValued
<1>4. PICK j \in 0 .. MaxPly :
        /\ entry.key \in Reached[j]
        /\ entry.depth \in 1 .. Bigger(depth - j, 1)
        /\ entry.bound # "upper" =>
             Minimax[MaxPly - j][entry.key][entry.depth]
               >= ScoreFromTt(entry.score, j)
        /\ entry.bound # "lower" =>
             Minimax[MaxPly - j][entry.key][entry.depth]
               <= ScoreFromTt(entry.score, j)
  BY <1>3 DEF EntryValued
<1>5. j = k
  BY <1>2, <1>4 DEF ValuesOK, FirstSearch, Plain
<1>6. entry.depth = d
  <2>1. entry.depth <= d
    BY <1>2, <1>4, <1>5
  <2> QED
    BY <1>2, <2>1
<1>7. /\ entry.bound # "upper" => value >= v
      /\ entry.bound # "lower" => value <= v
  BY <1>2, <1>4, <1>5, <1>6
<1>8. \/ entry.bound = "exact"
      \/ entry.bound = "lower" /\ v >= f.beta
      \/ entry.bound = "upper" /\ v <= f.alpha
  BY DEF Answers
<1>9. CASE entry.bound = "exact"
  BY <1>7, <1>9
<1>10. CASE entry.bound = "lower" /\ v >= f.beta
  <2>1. ~(v < f.beta)
    BY <1>1, <1>10
  <2>2. value >= v
    BY <1>7, <1>10
  <2> QED
    BY <2>1, <2>2
<1>11. CASE entry.bound = "upper" /\ v <= f.alpha
  <2>1. ~(v > f.original)
    BY <1>1, <1>11
  <2>2. value <= v
    BY <1>7, <1>11
  <2> QED
    BY <2>1, <2>2
<1> QED
  BY <1>8, <1>9, <1>10, <1>11

LEMMA EnterNegamaxValued ==
  ASSUME ValuesOK, EnterNegamax
  PROVE  ValuesInv'
<1> DEFINE f == Node
           d == Extended(f)
           entry == Probe(f.pos)
<1>1. /\ Searching /\ result = NoMove /\ f.at = "negamax"
      /\ UNCHANGED <<searchVars, tt>> /\ MateInv
  BY DEF EnterNegamax, At, ValuesOK
<1>2. f \in Frames /\ Ply \in 0 .. MaxPly /\ Settled(f, Ply)
      /\ game \in Games /\ depth \in Nat /\ TableValued(tt)
  BY <1>1, OnTop, GameOK, SearchConstants DEF MateInv, TypeOK, ValuesOK
<1>3. f.original = f.alpha /\ f.alpha < f.beta /\ f.score = -Inf
  BY <1>1, CallIs DEF Calls
<1>4. f.pos \in Reached[Ply] /\ f.depth = Bigger(depth - Ply, 0)
  <2>1. Valued(f, Ply, Taken(f))
    BY <1>1, OnTopValued
  <2> QED
    BY <1>1, <2>1 DEF Valued
<1>5. d = Extended(f)
  OBVIOUS
<1>6. f.pos \in Positions /\ MaxPly - Ply \in 0 .. MaxPly
      /\ MaxPly - (MaxPly - Ply) = Ply /\ f.depth \in Nat
  BY <1>2, FrameIs, Numbers
<1> HIDE DEF f, d, entry
<1>7. /\ d \in Nat
      /\ d <= 0 => ~InCheck(f.pos) /\ f.depth = 0
      /\ ~(d <= 0) =>
           /\ d >= 1 /\ d = Bigger(depth - Ply, 1)
           /\ InCheck(f.pos) \/ depth - Ply > 0
           /\ f.depth > 0 \/ InCheck(f.pos)
           /\ ValueOf(f, Ply) = Minimax[MaxPly - Ply][f.pos][d]
  BY <1>1, <1>2, <1>4, <1>5, ExtendedIs
<1>8. CASE d <= 0
  <2> DEFINE c == Call("quiescence", f.pos, 0, f.alpha, f.beta)
  <2>1. Becomes(c) /\ result' = NoMove
    BY <1>1, <1>8 DEF EnterNegamax, f, d
  <2>2. c \in Frames
    BY <1>2, <1>3, <1>6, NewCall DEF Frames, Calls
  <2>3. c.at = "quiescence" /\ c.pos = f.pos /\ c.depth = 0
    BY DEF Call
  <2> HIDE DEF c
  <2>4. ValueOf(c, Ply) = ValueOf(f, Ply)
    <3>1. ValueOf(c, Ply) = Quiet[MaxPly - Ply][f.pos][0]
      BY <2>3 DEF ValueOf
    <3>2. ValueOf(f, Ply) = Minimax[MaxPly - Ply][f.pos][f.depth]
      BY <1>1 DEF ValueOf, f
    <3>3. Minimax[MaxPly - Ply][f.pos][f.depth] = Quiet[MaxPly - Ply][f.pos][0]
      BY <1>2, <1>6, <1>7, <1>8, MinimaxEnds
    <3> QED
      BY <3>1, <3>2, <3>3
  <2>5. Valued(c, Ply, Taken(c))
    BY <1>4, <2>3 DEF Valued
  <2> QED
    BY <1>1, <2>1, <2>2, <2>3, <2>4, <2>5, BecomesValued DEF f
<1>9. CASE ~(d <= 0) /\ Answers(entry, d, f.alpha, f.beta, Ply)
  <2> DEFINE v == ScoreFromTt(entry.score, Ply)
             value == Minimax[MaxPly - Ply][f.pos][d]
  <2>1. Return(v)
    BY <1>9 DEF EnterNegamax, f, d, entry
  <2>2. v \in Scores /\ v \in Int
    BY <1>1, <1>2, <1>3, <1>9, AnswerClaims, ScoreIs DEF entry
  <2>3. v = ScoreFromTt(entry.score, Ply) /\ entry = Probe(f.pos)
        /\ value = Minimax[MaxPly - Ply][f.pos][d]
    BY DEF entry
  <2> HIDE DEF v, value
  <2>4. (v > f.original => value >= v) /\ (v < f.beta => value <= v)
    BY <1>2, <1>3, <1>4, <1>7, <1>9, <2>2, <2>3, AnswerValued
  <2>5. ValueOf(f, Ply) = value
    BY <1>7, <1>9, <2>3
  <2> QED
    BY <1>1, <1>2, <2>1, <2>2, <2>4, <2>5, ReturnValued DEF f
<1>10. CASE /\ ~(d <= 0) /\ ~Answers(entry, d, f.alpha, f.beta, Ply)
            /\ game.moves[f.pos] = {}
  <2> DEFINE v == TerminalScore(f.pos, Ply)
  <2>1. Return(v)
    BY <1>10 DEF EnterNegamax, f, d, entry
  <2>2. v \in Scores /\ v \in Int
    BY <1>2, TerminalIs, ScoreIs
  <2>3. ValueOf(f, Ply) = v
    <3>1. ValueOf(f, Ply) = Minimax[MaxPly - Ply][f.pos][f.depth]
      BY <1>1 DEF ValueOf, f
    <3>2. Minimax[MaxPly - Ply][f.pos][f.depth]
            = TerminalScore(f.pos, MaxPly - (MaxPly - Ply))
      BY <1>2, <1>6, <1>7, <1>10, MinimaxEnds
    <3> QED
      BY <1>6, <3>1, <3>2
  <2> HIDE DEF v
  <2>4. ValueOf(f, Ply) >= v /\ ValueOf(f, Ply) <= v
    BY <2>2, <2>3
  <2> QED
    BY <1>1, <1>2, <2>1, <2>2, <2>4, ReturnValued DEF f
<1>11. CASE /\ ~(d <= 0) /\ ~Answers(entry, d, f.alpha, f.beta, Ply)
            /\ game.moves[f.pos] # {}
  <2> DEFINE g == [f EXCEPT !.at = "loop", !.depth = d,
                            !.left = game.moves[f.pos]]
  <2>1. Becomes(g) /\ result' = NoMove
    BY <1>1, <1>11 DEF EnterNegamax, f, d, entry
  <2>2. g \in Frames
    <3>1. Frame(f, Ply) /\ f.at \in Calls
      BY <1>1, <1>2 DEF Settled, Calls
    <3> QED
      BY <1>2, <1>7, <1>11, <3>1, NewLoop
  <2>3. /\ g.at = "loop" /\ g.pos = f.pos /\ g.depth = d
        /\ g.original = f.original /\ g.score = f.score
        /\ g.left = game.moves[f.pos]
    BY <1>2 DEF Frames
  <2> HIDE DEF g
  <2>4. ValueOf(g, Ply) = ValueOf(f, Ply)
    BY <1>7, <1>11, <2>3 DEF ValueOf
  <2>5. Taken(g) = {}
    BY <2>3 DEF Taken, MovesOf
  <2>6. ~(g.score > g.original)
    BY <1>2, <1>3, <2>3, FrameIs
  <2>7. Valued(g, Ply, Taken(g))
    BY <1>4, <1>7, <1>11, <2>3, <2>5, <2>6 DEF Valued
  <2> QED
    BY <1>1, <2>1, <2>2, <2>3, <2>4, <2>7, BecomesValued DEF f
<1> QED
  BY <1>8, <1>9, <1>10, <1>11

LEMMA TryMoveValued ==
  ASSUME ValuesOK, TryMove
  PROVE  ValuesInv'
<1> DEFINE f == Node
<1>1. /\ Searching /\ result = NoMove /\ result' = NoMove /\ Ply < MaxPly
      /\ f.at \in Open /\ UNCHANGED <<searchVars, tt>> /\ MateInv
  BY DEF TryMove, Open, ValuesOK
<1> DEFINE g(m) == [f EXCEPT !.move = m, !.left = @ \ {m}]
           c(m) == IF f.at = "captures"
                   THEN Call("quiescence", m, f.depth + 1, -f.beta, -f.alpha)
                   ELSE Call("negamax", m, f.depth - 1, -f.beta, -f.alpha)
<1>2. PICK m \in f.left : stack' = <<c(m), g(m)>> \o Tail(stack)
  BY DEF TryMove
<1>3. /\ f \in Frames /\ Ply \in 0 .. MaxPly /\ Settled(f, Ply)
      /\ stack \in Seq(Frames) /\ stack # <<>> /\ f = Head(stack)
      /\ Ply = Len(stack) - 1 /\ Len(stack) = Ply + 1
      /\ game \in Games /\ position \in Positions /\ TableValued(tt)
      /\ depth \in Nat
  BY <1>1, OnTop, GameOK, SearchConstants DEF ValuesOK, MateInv, TypeOK
<1>4. Valued(f, Ply, Taken(f))
  BY <1>1, OnTopValued
<1>5. Len(stack') = Len(stack) + 1 /\ stack' \in Seq(Frames)
      /\ stack'[1] \in Frames /\ stack'[2] \in Frames
      /\ stack'[1] = c(m) /\ stack'[2] = g(m)
  <2>1. MateInv'
    BY <1>1, TryMoveKept DEF ValuesOK
  <2>2. stack' \in Seq(Frames)
    BY <2>1 DEF MateInv, TypeOK
  <2>3. Tail(stack) \in Seq(Frames) /\ Len(Tail(stack)) = Len(stack) - 1
        /\ Len(stack) \in Nat /\ Len(stack) >= 1
    BY <1>3, StackParts
  <2> DEFINE two == <<c(m), g(m)>>
             tail == Tail(stack)
             S == {c(m), g(m)} \cup Frames
  <2>4. two \in Seq(S) /\ Len(two) = 2 /\ two[1] = c(m) /\ two[2] = g(m)
    OBVIOUS
  <2>5. tail \in Seq(S)
    BY <2>3
  <2>6. stack' = two \o tail /\ Len(tail) = Len(stack) - 1
    BY <1>2, <2>3
  <2> HIDE DEF two, c, g, f, S, tail
  <2>7. /\ Len(two \o tail) = Len(two) + Len(tail)
        /\ \A i \in 1 .. Len(two) + Len(tail) :
             (two \o tail)[i] = IF i <= Len(two) THEN two[i]
                                ELSE tail[i - Len(two)]
    BY <2>4, <2>5, ConcatProperties
  <2>8. Len(stack') = Len(stack) + 1 /\ stack'[1] = c(m) /\ stack'[2] = g(m)
    BY <2>3, <2>4, <2>6, <2>7
  <2>9. 1 \in 1 .. Len(stack') /\ 2 \in 1 .. Len(stack')
    BY <2>3, <2>8
  <2> QED
    BY <2>2, <2>8, <2>9
<1> DEFINE h == g(m)
           e == c(m)
<1>6. IsPushed(stack', stack, e, h) /\ e \in Frames /\ h \in Frames
  BY <1>2, <1>5 DEF IsPushed
<1>7. /\ h.at = f.at /\ h.pos = f.pos /\ h.depth = f.depth
      /\ h.alpha = f.alpha /\ h.score = f.score /\ h.best = f.best
      /\ h.original = f.original /\ h.move = m /\ h.left = f.left \ {m}
  BY <1>3 DEF Frames
<1>8. /\ e.pos = m /\ (f.at = "captures" => e.at = "quiescence")
      /\ f.at # "captures" => e.at = "negamax"
      /\ f.at = "captures" => e.depth = f.depth + 1
      /\ f.at # "captures" => e.depth = f.depth - 1
  BY DEF Call
<1> HIDE DEF f, g, c, e, h
<1>9. m \in MovesOf(f) /\ m \in f.left /\ m \in game.moves[f.pos]
  <2>1. f.left \subseteq MovesOf(f)
    BY <1>1, <1>3 DEF Settled, Frame
  <2>2. MovesOf(f) \subseteq game.moves[f.pos]
    BY <1>3, MovesOfIs
  <2> QED
    BY <2>1, <2>2
<1>10. Taken(h) \ {h.move} = Taken(f)
  <2>1. MovesOf(h) = MovesOf(f)
    BY <1>7 DEF MovesOf
  <2> QED
    BY <1>7, <1>9, <2>1 DEF Taken
<1>11. /\ ValueOf(h, Ply) = ValueOf(f, Ply)
       /\ \A q : ValueFor(h, q, Ply) = ValueFor(f, q, Ply)
  BY <1>7, SameValues
<1>12. Valued(h, Ply, Taken(h) \ {h.move})
  BY <1>4, <1>7, <1>10, <1>11 DEF Valued
<1>13. m \in Reached[Ply + 1]
  <2>1. f.pos \in Reached[Ply]
    BY <1>4 DEF Valued
  <2>2. Ply + 1 \in 1 .. MaxPly /\ Ply + 1 - 1 = Ply
    BY <1>1, <1>3, Numbers
  <2>3. Reached[Ply + 1] = UNION {game.moves[p] : p \in Reached[Ply]}
    BY <1>3, <2>2, ReachedSteps
  <2> QED
    BY <1>9, <2>1, <2>3
<1>14. MaxPly - (Ply + 1) = MaxPly - Ply - 1 /\ MaxPly - Ply - 1 \in 0 .. MaxPly
  BY <1>1, <1>3, Numbers
<1>15. m \in Positions /\ f.depth \in Nat
  BY <1>3, <1>9, FrameIs, GameIs
<1>16. CASE f.at = "captures"
  <2>1. Valued(e, Ply + 1, Taken(e))
    BY <1>8, <1>13, <1>16 DEF Valued
  <2>2. ValueOf(e, Ply + 1) = Quiet[MaxPly - Ply - 1][m][f.depth + 1]
    BY <1>8, <1>14, <1>16 DEF ValueOf
  <2>3. ValueFor(f, m, Ply) = -Quiet[MaxPly - Ply - 1][m][f.depth + 1]
    BY <1>16 DEF ValueFor
  <2>4. Quiet[MaxPly - Ply - 1][m][f.depth + 1] \in Int
    BY <1>3, <1>14, <1>15, ValuesAre
  <2>5. ValueOf(e, Ply + 1) = -ValueFor(f, m, Ply)
    BY <2>2, <2>3, <2>4
  <2>6. StackValued(stack', NoMove)
    BY <1>1, <1>3, <1>6, <1>7, <1>8, <1>11, <1>12, <2>1, <2>5, PushedValued
       DEF ValuesOK
  <2> QED
    BY <1>1, <1>3, <2>6, ValuesStep
<1>17. CASE f.at # "captures"
  <2>0. f.at \in {"root", "loop"}
    BY <1>1, <1>17 DEF Open
  <2>1. Valued(e, Ply + 1, Taken(e))
    <3>1. f.depth = Bigger(depth - Ply, 1)
      BY <1>4, <2>0 DEF Valued
    <3>2. e.depth = Bigger(depth - (Ply + 1), 0)
      BY <1>3, <1>8, <1>17, <3>1 DEF Bigger
    <3> QED
      BY <1>8, <1>13, <1>17, <3>2 DEF Valued
  <2>2. ValueOf(e, Ply + 1) = Minimax[MaxPly - Ply - 1][m][f.depth - 1]
    BY <1>8, <1>14, <1>17 DEF ValueOf
  <2>3. ValueFor(f, m, Ply) = -Minimax[MaxPly - Ply - 1][m][f.depth - 1]
    BY <1>17 DEF ValueFor
  <2>4. Minimax[MaxPly - Ply - 1][m][f.depth - 1] \in Int
    BY <1>3, <1>14, <1>15, ValuesAre
  <2>5. ValueOf(e, Ply + 1) = -ValueFor(f, m, Ply)
    BY <2>2, <2>3, <2>4
  <2>6. StackValued(stack', NoMove)
    BY <1>1, <1>3, <1>6, <1>7, <1>8, <1>11, <1>12, <2>1, <2>5, PushedValued
       DEF ValuesOK
  <2> QED
    BY <1>1, <1>3, <2>6, ValuesStep
<1> QED
  BY <1>16, <1>17

LEMMA TakeScoreValued ==
  ASSUME ValuesOK, TakeScore
  PROVE  ValuesInv'
<1> DEFINE f == Node
           s == -result
           g == WithScore(f, s)
<1>1. /\ Searching /\ result # NoMove /\ f.at = "loop" /\ UNCHANGED searchVars
      /\ MateInv
  BY DEF TakeScore, ValuesOK
<1>2. /\ f \in Frames /\ Ply \in 0 .. MaxPly /\ Busy(f, Ply)
      /\ ResultOK(result, f, Ply) /\ result \in Scores
      /\ game \in Games /\ depth \in Nat /\ TableValued(tt)
  BY <1>1, OnTop, GameOK, SearchConstants DEF ValuesOK, MateInv, TypeOK
<1>3. Valued(f, Ply, Taken(f) \ {f.move}) /\ ResultValued(result, f, Ply)
  BY <1>1, OnTopValued
<1>4. s = -result /\ s \in Scores /\ s \in Int
  <2>1. result \in Int /\ -MateScore <= result /\ result <= MateScore
    BY <1>2, ScoreIs
  <2> QED
    BY <2>1, ScoreIs, Numbers
<1>5. /\ f.alpha \in Int /\ f.beta \in Int /\ f.pos \in Positions
      /\ f.depth \in Nat /\ f.alpha < f.beta
  BY <1>2, FrameIs DEF Busy, Frame
<1>6. CASE s > f.alpha /\ s >= f.beta
  <2> DEFINE kept == Stored(f.pos, f.depth, ScoreToTt(s, Ply), "lower",
                            IF s > f.score THEN f.move ELSE f.best)
  <2>1. Return(s) /\ tt' = kept
    BY <1>2, <1>6 DEF TakeScore, Frames
  <2> HIDE DEF f, s, g
  <2>2. /\ f.depth >= 1 /\ f.pos \in Reached[Ply]
        /\ f.depth = Bigger(depth - Ply, 1)
    BY <1>1, <1>2, <1>3 DEF Valued, Busy, Scored, MovesScored
  <2>3. ValueFor(f, f.move, Ply) \in Int /\ ValueFor(f, f.move, Ply) >= s
    BY <1>2, <1>3, <1>4, <1>6, <2>2, MoveValue
  <2>4. /\ f.move \in game.moves[f.pos] /\ game.moves[f.pos] # {} /\ Ply < MaxPly
    BY <1>2, MoveIs
  <2>5. ValueOf(f, Ply) \in Int /\ ValueFor(f, f.move, Ply) <= ValueOf(f, Ply)
    BY <1>1, <1>2, <2>2, <2>4, LoopValue
  <2>6. ValueOf(f, Ply) >= s
    BY <1>4, <2>3, <2>5
  <2>7. Minimax[MaxPly - Ply][f.pos][f.depth] >= s
    BY <1>1, <2>6 DEF ValueOf
  <2>8. f.depth \in 1 .. Bigger(depth - Ply, 1)
    BY <1>5, <2>2
  <2>9. TableValued(kept)
    BY <1>2, <1>4, <1>5, <2>2, <2>7, <2>8, StoredValued
  <2>10. ~(s < f.beta)
    BY <1>4, <1>5, <1>6
  <2> HIDE DEF kept
  <2> QED
    BY <1>1, <1>4, <2>1, <2>6, <2>9, <2>10, ReturnValued DEF f
<1>7. CASE ~(s > f.alpha /\ s >= f.beta)
  <2>1. Becomes(g) /\ result' = NoMove /\ UNCHANGED tt
    BY <1>7 DEF TakeScore, WithScore
  <2>2. s < f.beta
    BY <1>4, <1>5, <1>7
  <2>3. g = WithScore(f, s)
    OBVIOUS
  <2> HIDE DEF f, s, g
  <2>4. g \in Frames /\ g.pos = f.pos
    BY <1>1, <1>2, <1>4, <2>2, <2>3, ScoreTaken
  <2>5. Valued(g, Ply, Taken(g)) /\ ValueOf(g, Ply) = ValueOf(f, Ply)
    BY <1>1, <1>2, <1>3, <1>4, <2>2, <2>3, ScoreValued
  <2> QED
    BY <1>1, <2>1, <2>4, <2>5, BecomesValued DEF f
<1> QED
  BY <1>6, <1>7

\* A root or loop that has tried every move has its value as its score, up to
\* the window.
LEMMA LoopDoneValued ==
  ASSUME game \in Games, NEW f \in Frames, NEW k \in 0 .. MaxPly, Settled(f, k),
         f.at \in {"root", "loop"}, f.left = {}, Valued(f, k, Taken(f))
  PROVE  /\ ValueOf(f, k) \in Int /\ ValueOf(f, k) <= f.score
         /\ f.score > f.original =>
              /\ ValueOf(f, k) >= f.score
              /\ f.best \in game.moves[f.pos]
              /\ ValueFor(f, f.best, k) \in Int /\ ValueFor(f, f.best, k) = f.score
<1>1. Frame(f, k) /\ MovesScored(f, k, Taken(f)) /\ f.at \in Open
  BY DEF Settled, Scored, Open
<1>2. game.moves[f.pos] # {} /\ (Taken(f) # {} => k < MaxPly) /\ f.depth >= 1
  BY <1>1 DEF Frame, MovesScored
<1>3. Taken(f) = game.moves[f.pos]
  BY MovesOfIs DEF Taken
<1>4. /\ ValueOf(f, k) \in Int
      /\ \A m \in game.moves[f.pos] :
           ValueFor(f, m, k) \in Int /\ ValueFor(f, m, k) <= ValueOf(f, k)
      /\ \E m \in game.moves[f.pos] : ValueOf(f, k) = ValueFor(f, m, k)
  BY <1>2, <1>3, LoopValue
<1>5. /\ \A m \in game.moves[f.pos] : ValueFor(f, m, k) <= f.score
      /\ f.score > f.original =>
           f.best \in game.moves[f.pos] /\ ValueFor(f, f.best, k) >= f.score
  BY <1>3 DEF Valued
<1>6. f.score \in Int
  BY FrameIs
<1>7. ValueOf(f, k) <= f.score
  BY <1>4, <1>5
<1>8. ASSUME f.score > f.original
      PROVE  /\ ValueOf(f, k) >= f.score
             /\ f.best \in game.moves[f.pos]
             /\ ValueFor(f, f.best, k) \in Int /\ ValueFor(f, f.best, k) = f.score
  <2>1. /\ f.best \in game.moves[f.pos] /\ ValueFor(f, f.best, k) >= f.score
        /\ ValueFor(f, f.best, k) <= f.score /\ ValueFor(f, f.best, k) \in Int
        /\ ValueFor(f, f.best, k) <= ValueOf(f, k)
    BY <1>4, <1>5, <1>8
  <2> QED
    BY <1>4, <1>6, <2>1
<1> QED
  BY <1>4, <1>7, <1>8

LEMMA LeaveNegamaxValued ==
  ASSUME ValuesOK, LeaveNegamax
  PROVE  ValuesInv'
<1> DEFINE f == Node
           bound == IF f.score <= f.original THEN "upper" ELSE "exact"
           kept == Stored(f.pos, f.depth, ScoreToTt(f.score, Ply), bound, f.best)
<1>1. /\ Searching /\ result = NoMove /\ f.at = "loop" /\ f.left = {}
      /\ UNCHANGED searchVars /\ tt' = kept /\ Return(f.score) /\ MateInv
  BY DEF LeaveNegamax, At, ValuesOK
<1>2. /\ f \in Frames /\ Ply \in 0 .. MaxPly /\ Settled(f, Ply)
      /\ game \in Games /\ depth \in Nat
  BY <1>1, OnTop, GameOK, SearchConstants DEF MateInv, TypeOK
<1>3. Valued(f, Ply, Taken(f))
  BY <1>1, OnTopValued
<1> HIDE DEF f
<1>4. /\ ValueOf(f, Ply) \in Int /\ ValueOf(f, Ply) <= f.score
      /\ f.score > f.original => ValueOf(f, Ply) >= f.score
      /\ f.score \in Scores
  BY <1>1, <1>2, <1>3, LoopDone, LoopDoneValued
<1>5. /\ f.pos \in Positions /\ f.depth \in Nat /\ f.original \in Int
      /\ f.score \in Int
  BY <1>2, FrameIs
<1>6. f.pos \in Reached[Ply] /\ f.depth = Bigger(depth - Ply, 1)
  BY <1>1, <1>3 DEF Valued
<1>7. f.depth \in 1 .. Bigger(depth - Ply, 1)
  BY <1>1, <1>2, <1>5, <1>6 DEF Settled, Scored, MovesScored
<1>8. ValueOf(f, Ply) = Minimax[MaxPly - Ply][f.pos][f.depth]
  BY <1>1 DEF ValueOf
<1>9. bound # "upper" => Minimax[MaxPly - Ply][f.pos][f.depth] >= f.score
  BY <1>4, <1>5, <1>8
<1> HIDE DEF bound
<1>10. TableValued(kept)
  BY <1>2, <1>4, <1>5, <1>6, <1>7, <1>8, <1>9, StoredValued
<1>11. Node.at # "root"
  BY <1>1 DEF f
<1> HIDE DEF kept
<1> QED
  BY <1>1, <1>4, <1>10, <1>11, ReturnValued DEF f

LEMMA EnterQuiescenceValued ==
  ASSUME ValuesOK, EnterQuiescence
  PROVE  ValuesInv'
<1> DEFINE f == Node
           pat == game.eval[f.pos]
           alpha == StandPat(f)
           beyond == ~InCheck(f.pos) /\ pat >= f.beta
           deep == ~InCheck(f.pos) /\ f.depth >= MaxQuiescencePly
           value == ValueOf(f, Ply)
<1>1. /\ Searching /\ result = NoMove /\ f.at = "quiescence"
      /\ UNCHANGED <<searchVars, tt>> /\ MateInv
  BY DEF EnterQuiescence, At, ValuesOK
<1>2. f \in Frames /\ Ply \in 0 .. MaxPly /\ Settled(f, Ply)
      /\ game \in Games /\ TableValued(tt)
  BY <1>1, OnTop, GameOK DEF ValuesOK
<1>3. f.original = f.alpha /\ f.alpha < f.beta
  BY <1>1, CallIs DEF Calls
<1>4. f.pos \in Reached[Ply]
  BY <1>1, OnTopValued DEF Valued
<1> HIDE DEF f
<1>5. /\ f.pos \in Positions /\ f.alpha \in Int /\ -Inf <= f.alpha
      /\ f.beta \in Int /\ f.depth \in Nat
      /\ f.alpha # -Inf => f.alpha \in Scores
      /\ f.beta # Inf => f.beta \in Scores
  BY <1>2, FrameIs
<1>6. /\ pat \in Int /\ -MateThreshold < pat /\ pat < MateThreshold /\ pat \in Scores
  BY <1>5, <1>2, GameIs
<1>7. MaxPly - Ply \in 0 .. MaxPly /\ MaxPly - (MaxPly - Ply) = Ply
      /\ MaxQuiescencePly \in Nat
  BY <1>2, Numbers, SearchConstants
<1>8. value = Quiet[MaxPly - Ply][f.pos][f.depth] /\ value \in Int
  <2>1. value = Quiet[MaxPly - Ply][f.pos][f.depth]
    BY <1>1 DEF ValueOf
  <2> QED
    BY <1>2, <1>5, <1>7, <2>1, ValuesAre
<1>9. deep => value = pat
  BY <1>2, <1>5, <1>7, <1>8, QuietEnds
<1>10. ~deep /\ game.moves[f.pos] = {} => value = TerminalScore(f.pos, Ply)
  <2> SUFFICES ASSUME ~deep, game.moves[f.pos] = {}
               PROVE  value = TerminalScore(f.pos, Ply)
    OBVIOUS
  <2>1. InCheck(f.pos) \/ f.depth < MaxQuiescencePly
    BY <1>5, <1>7
  <2>2. Quiet[MaxPly - Ply][f.pos][f.depth]
          = TerminalScore(f.pos, MaxPly - (MaxPly - Ply))
    BY <1>2, <1>5, <1>7, <2>1, QuietEnds
  <2> QED
    BY <1>7, <1>8, <2>2
<1>11. ~InCheck(f.pos) => pat <= value
  <2> SUFFICES ASSUME ~InCheck(f.pos) PROVE pat <= value
    OBVIOUS
  <2>1. CASE deep
    BY <1>6, <1>9, <2>1
  <2>2. CASE ~deep /\ game.moves[f.pos] = {}
    <3>1. value = 0 /\ pat = 0
      BY <1>2, <1>5, <1>10, <2>2, TerminalIs DEF ValuesOK, FirstSearch, Plain
    <3> QED
      BY <3>1
  <2>3. CASE ~deep /\ game.moves[f.pos] # {}
    <3>1. f.depth < MaxQuiescencePly
      BY <1>5, <1>7, <2>3
    <3>2. game.eval[f.pos] <= Quiet[MaxPly - Ply][f.pos][f.depth]
      BY <1>2, <1>5, <1>7, <2>3, <3>1, QuietOpens
    <3> QED
      BY <1>8, <3>2
  <2> QED
    BY <2>1, <2>2, <2>3
<1> HIDE DEF pat, value
<1>12. CASE beyond
  <2>1. Return(f.beta)
    BY <1>12 DEF EnterQuiescence, f, pat
  <2>2. f.beta \in Scores /\ value >= f.beta /\ ~(f.beta < f.beta)
    BY <1>5, <1>6, <1>8, <1>11, <1>12, Numbers
  <2> QED
    BY <1>1, <1>2, <2>1, <2>2, ReturnValued DEF f, value
<1>13. CASE ~beyond /\ deep
  <2>1. Return(alpha)
    BY <1>13 DEF EnterQuiescence, f, pat, StandPat
  <2>2. /\ alpha \in Int /\ alpha \in Scores /\ alpha >= pat
        /\ alpha > f.original => alpha = pat
    BY <1>3, <1>5, <1>6, <1>13, Numbers DEF Bigger, StandPat, pat
  <2> HIDE DEF alpha
  <2>3. value <= alpha /\ (alpha > f.original => value >= alpha)
    BY <1>6, <1>9, <1>13, <2>2
  <2> QED
    BY <1>1, <1>2, <2>1, <2>2, <2>3, ReturnValued DEF f, value
<1>14. CASE ~beyond /\ ~deep /\ game.moves[f.pos] = {}
  <2> DEFINE v == TerminalScore(f.pos, Ply)
  <2>1. Return(v)
    BY <1>14 DEF EnterQuiescence, f, pat
  <2>2. v \in Scores /\ value = v
    BY <1>2, <1>10, <1>14, TerminalIs
  <2> HIDE DEF v
  <2>3. value >= v /\ value <= v
    BY <1>8, <2>2
  <2> QED
    BY <1>1, <1>2, <2>1, <2>2, <2>3, ReturnValued DEF f, value
<1>15. CASE ~beyond /\ ~deep /\ game.moves[f.pos] # {}
  <2> DEFINE g == WithCaptures(f, alpha)
  <2>1. Becomes(g) /\ result' = NoMove
    BY <1>1, <1>15 DEF EnterQuiescence, f, pat, WithCaptures, StandPat
  <2>2. /\ InCheck(f.pos) \/ f.depth < MaxQuiescencePly
        /\ ~InCheck(f.pos) => pat < f.beta
    BY <1>5, <1>6, <1>7, <1>15
  <2>3. Frame(f, Ply)
    BY <1>2 DEF Settled
  <2>4. /\ g.at = "captures" /\ g.pos = f.pos /\ g.depth = f.depth
        /\ g.alpha = alpha /\ g.original = f.original
        /\ g.left = QuiescenceMoves(f.pos, f.depth)
    BY <1>2 DEF WithCaptures, Frames
  <2>5. g = WithCaptures(f, alpha) /\ alpha = StandPat(f)
    OBVIOUS
  <2>6. alpha > f.original => ~InCheck(f.pos) /\ alpha = pat
    BY <1>3, <1>5, <1>6 DEF StandPat, Bigger, pat
  <2> HIDE DEF alpha, g
  <2>7. g \in Frames
    BY <1>1, <1>2, <1>15, <2>2, <2>3, <2>5, NewCaptures DEF pat
  <2>8. Taken(g) = {}
    BY <2>4 DEF Taken, MovesOf
  <2>9. Valued(g, Ply, Taken(g))
    BY <1>4, <2>4, <2>6, <2>8 DEF Valued, pat
  <2>10. ValueOf(g, Ply) = value
    BY <1>1, <2>4 DEF ValueOf, value
  <2> QED
    BY <1>1, <2>1, <2>4, <2>7, <2>9, <2>10, BecomesValued DEF f, value
<1> HIDE DEF beyond, deep
<1> QED
  BY <1>12, <1>13, <1>14, <1>15

LEMMA TakeCaptureValued ==
  ASSUME ValuesOK, TakeCapture
  PROVE  ValuesInv'
<1> DEFINE f == Node
           s == -result
           g == WithCapture(f, s)
<1>1. /\ Searching /\ result # NoMove /\ f.at = "captures"
      /\ UNCHANGED <<searchVars, tt>> /\ MateInv
  BY DEF TakeCapture, ValuesOK
<1>2. /\ f \in Frames /\ Ply \in 0 .. MaxPly /\ Busy(f, Ply)
      /\ ResultOK(result, f, Ply) /\ result \in Scores
      /\ game \in Games /\ TableValued(tt)
  BY <1>1, OnTop, GameOK DEF ValuesOK
<1>3. Valued(f, Ply, Taken(f) \ {f.move}) /\ ResultValued(result, f, Ply)
  BY <1>1, OnTopValued
<1>4. s = -result /\ s \in Scores /\ s \in Int /\ s <= MateScore
  <2>1. result \in Int /\ -MateScore <= result /\ result <= MateScore
    BY <1>2, ScoreIs
  <2> QED
    BY <2>1, ScoreIs, Numbers
<1>5. /\ f.alpha \in Int /\ f.beta \in Int /\ f.alpha < f.beta
      /\ f.beta # Inf => f.beta \in Scores
  BY <1>2, FrameIs DEF Busy, Frame
<1>6. CASE s >= f.beta
  <2>1. Return(f.beta)
    BY <1>6 DEF TakeCapture
  <2> HIDE DEF f, s, g
  <2>2. s > f.alpha /\ f.beta # Inf /\ f.at \notin {"root", "loop"}
    BY <1>1, <1>4, <1>5, <1>6, Numbers
  <2>3. ValueFor(f, f.move, Ply) \in Int /\ ValueFor(f, f.move, Ply) >= s
    BY <1>2, <1>3, <1>4, <2>2, MoveValue
  <2>4. game.moves[f.pos] # {} /\ Ply < MaxPly
    BY <1>2, MoveIs
  <2>5. InCheck(f.pos) \/ f.depth < MaxQuiescencePly
    BY <1>1, <1>2 DEF Busy, Scored, CapturesScored
  <2>6. f.move \in MovesOf(f)
    BY <1>2 DEF Busy, Taken
  <2>7. ValueOf(f, Ply) \in Int /\ ValueFor(f, f.move, Ply) <= ValueOf(f, Ply)
    BY <1>1, <1>2, <2>4, <2>5, <2>6, CapturesValue
  <2>8. ValueOf(f, Ply) >= f.beta /\ f.beta \in Scores /\ ~(f.beta < f.beta)
    BY <1>4, <1>5, <1>6, <2>2, <2>3, <2>7
  <2> QED
    BY <1>1, <1>2, <2>1, <2>8, ReturnValued DEF f
<1>7. CASE ~(s >= f.beta)
  <2>1. Becomes(g) /\ result' = NoMove
    BY <1>7 DEF TakeCapture, WithCapture
  <2>2. s < f.beta /\ g = WithCapture(f, s)
    BY <1>4, <1>5, <1>7
  <2> HIDE DEF f, s, g
  <2>3. g \in Frames /\ g.pos = f.pos
    BY <1>1, <1>2, <1>4, <2>2, CaptureTaken
  <2>4. Valued(g, Ply, Taken(g)) /\ ValueOf(g, Ply) = ValueOf(f, Ply)
    BY <1>1, <1>2, <1>3, <1>4, <2>2, CaptureValued
  <2> QED
    BY <1>1, <2>1, <2>3, <2>4, BecomesValued DEF f
<1> QED
  BY <1>6, <1>7

LEMMA LeaveQuiescenceValued ==
  ASSUME ValuesOK, LeaveQuiescence
  PROVE  ValuesInv'
<1> DEFINE f == Node
           value == ValueOf(f, Ply)
<1>1. /\ Searching /\ result = NoMove /\ f.at = "captures" /\ f.left = {}
      /\ UNCHANGED <<searchVars, tt>> /\ Return(f.alpha) /\ MateInv
  BY DEF LeaveQuiescence, At, ValuesOK
<1>2. f \in Frames /\ Ply \in 0 .. MaxPly /\ Settled(f, Ply)
      /\ game \in Games /\ TableValued(tt)
  BY <1>1, OnTop, GameOK DEF ValuesOK
<1>3. Valued(f, Ply, Taken(f))
  BY <1>1, OnTopValued
<1> HIDE DEF f
<1>4. /\ Frame(f, Ply) /\ CapturesScored(f, Ply, Taken(f)) /\ f.at \in Open
      /\ Taken(f) = MovesOf(f)
  BY <1>1, <1>2 DEF Settled, Scored, Open, Taken
<1>5. /\ game.moves[f.pos] # {} /\ (MovesOf(f) # {} => Ply < MaxPly)
      /\ InCheck(f.pos) => MovesOf(f) # {}
      /\ InCheck(f.pos) \/ f.depth < MaxQuiescencePly
      /\ ~InCheck(f.pos) => f.alpha >= game.eval[f.pos]
  BY <1>2, <1>4, MovesOfIs DEF Frame, CapturesScored
<1>6. /\ value \in Int
      /\ ~InCheck(f.pos) => game.eval[f.pos] <= value
      /\ Ply < MaxPly => \A m \in MovesOf(f) :
           ValueFor(f, m, Ply) \in Int /\ ValueFor(f, m, Ply) <= value
      /\ \/ ~InCheck(f.pos) /\ value = game.eval[f.pos]
         \/ Ply < MaxPly /\ \E m \in MovesOf(f) : value = ValueFor(f, m, Ply)
         \/ Ply = MaxPly /\ InCheck(f.pos)
  BY <1>1, <1>2, <1>5, CapturesValue
<1>7. /\ \A m \in MovesOf(f) : ValueFor(f, m, Ply) <= f.alpha
      /\ f.alpha > f.original =>
           \/ ~InCheck(f.pos) /\ f.alpha = game.eval[f.pos]
           \/ \E m \in MovesOf(f) : ValueFor(f, m, Ply) >= f.alpha
  BY <1>1, <1>3, <1>4 DEF Valued
<1>8. f.alpha \in Int /\ game.eval[f.pos] \in Int /\ f.alpha \in Scores
  BY <1>1, <1>2, FrameIs, GameIs, CapturesDone
<1> HIDE DEF value
<1>9. value <= f.alpha
  <2>1. CASE ~InCheck(f.pos) /\ value = game.eval[f.pos]
    BY <1>5, <1>8, <2>1
  <2>2. CASE \E m \in MovesOf(f) : value = ValueFor(f, m, Ply)
    BY <1>7, <2>2
  <2>3. ~(Ply = MaxPly /\ InCheck(f.pos))
    BY <1>2, <1>5, Numbers
  <2> QED
    BY <1>6, <2>1, <2>2, <2>3
<1>10. ASSUME f.alpha > f.original PROVE value >= f.alpha
  <2>1. CASE ~InCheck(f.pos) /\ f.alpha = game.eval[f.pos]
    BY <1>6, <1>8, <2>1
  <2>2. CASE \E m \in MovesOf(f) : ValueFor(f, m, Ply) >= f.alpha
    <3>1. PICK m \in MovesOf(f) : ValueFor(f, m, Ply) >= f.alpha
      BY <2>2
    <3>2. ValueFor(f, m, Ply) \in Int /\ ValueFor(f, m, Ply) <= value
      BY <1>5, <1>6
    <3> QED
      BY <1>6, <1>8, <3>1, <3>2
  <2> QED
    BY <1>7, <1>10, <2>1, <2>2
<1>11. Node.at # "root"
  BY <1>1 DEF f
<1> QED
  BY <1>1, <1>2, <1>8, <1>9, <1>10, <1>11, ReturnValued DEF f, value

LEMMA TakeRootScoreValued ==
  ASSUME ValuesOK, TakeRootScore
  PROVE  ValuesInv'
<1> DEFINE f == Node
           s == -result
           g == WithScore(f, s)
<1>1. /\ Searching /\ result # NoMove /\ f.at = "root" /\ result' = NoMove
      /\ UNCHANGED <<searchVars, tt>> /\ Becomes(g) /\ MateInv
  BY DEF TakeRootScore, WithScore, ValuesOK
<1>2. f \in Frames /\ Ply \in 0 .. MaxPly /\ Busy(f, Ply)
      /\ ResultOK(result, f, Ply) /\ result \in Scores /\ game \in Games
  BY <1>1, OnTop, GameOK
<1>3. Valued(f, Ply, Taken(f) \ {f.move}) /\ ResultValued(result, f, Ply)
  BY <1>1, OnTopValued
<1>4. s = -result /\ g = WithScore(f, s)
  OBVIOUS
<1>5. s < f.beta
  <2>1. f.beta = Inf
    BY <1>1, <1>2 DEF Busy, Frame
  <2>2. result \in Int /\ -MateScore <= result
    BY <1>2, ScoreIs
  <2> QED
    BY <2>1, <2>2, Numbers
<1> HIDE DEF f, s, g
<1>6. g \in Frames /\ g.pos = f.pos
  BY <1>1, <1>2, <1>4, <1>5, ScoreTaken
<1>7. Valued(g, Ply, Taken(g)) /\ ValueOf(g, Ply) = ValueOf(f, Ply)
  BY <1>1, <1>2, <1>3, <1>4, <1>5, ScoreValued
<1> QED
  BY <1>1, <1>6, <1>7, BecomesValued DEF f

\* An iteration ends with the value of its depth, and a move that attains it.
LEMMA LeaveRootValue ==
  ASSUME ValuesOK, LeaveRoot
  PROVE  /\ score' = Minimax[MaxPly][position][depth]
         /\ score' = -Minimax[MaxPly - 1][best'][depth - 1]
         /\ TableValued(tt') /\ game.moves[position] # {}
<1> DEFINE f == Node
           kept == Stored(position, depth, ScoreToTt(f.score, 0), "exact", f.best)
<1>1. /\ Searching /\ result = NoMove /\ f.at = "root" /\ f.left = {}
      /\ tt' = kept /\ best' = f.best /\ score' = f.score /\ MateInv
  BY DEF LeaveRoot, At, ValuesOK
<1>2. /\ f \in Frames /\ Ply \in 0 .. MaxPly /\ Settled(f, Ply) /\ Ply = 0
      /\ game \in Games /\ position \in Positions
      /\ depth \in Nat /\ depth >= 1
  BY <1>1, OnTop, GameOK, RootAlone, SearchConstants DEF MateInv, TypeOK
<1>3. Valued(f, 0, Taken(f)) /\ Settled(f, 0) /\ 0 \in 0 .. MaxPly
  BY <1>1, <1>2, OnTopValued
<1> HIDE DEF f
<1>4. f.pos = position /\ f.original = -Inf
  BY <1>1, <1>3 DEF Settled, Frame
<1>5. f.score \in Scores /\ f.score \in Int /\ f.score > f.original
      /\ game.moves[position] # {}
  <2>1. f.score \in Scores /\ game.moves[f.pos] # {}
    BY <1>1, <1>2, <1>3, LoopDone
  <2> QED
    BY <1>4, <2>1, ScoreIs, Numbers
<1>6. /\ ValueOf(f, 0) \in Int /\ ValueOf(f, 0) <= f.score
      /\ ValueOf(f, 0) >= f.score
      /\ ValueFor(f, f.best, 0) = f.score
  BY <1>1, <1>2, <1>3, <1>5, LoopDoneValued
<1>7. f.depth = depth /\ position \in Reached[0]
  BY <1>1, <1>3, <1>4 DEF Valued
<1>8. MaxPly - 0 = MaxPly /\ MaxPly - 0 - 1 = MaxPly - 1
  BY Numbers
<1>9. ValueOf(f, 0) = Minimax[MaxPly][position][depth]
  BY <1>1, <1>4, <1>7, <1>8 DEF ValueOf
<1>10. ValueFor(f, f.best, 0) = -Minimax[MaxPly - 1][f.best][depth - 1]
  BY <1>1, <1>7, <1>8 DEF ValueFor
<1>11. f.score = Minimax[MaxPly][position][depth]
  <2> DEFINE value == ValueOf(f, 0)
  <2>1. value \in Int /\ value <= f.score /\ value >= f.score
    BY <1>6
  <2> HIDE DEF value
  <2>2. value = f.score
    BY <1>5, <2>1
  <2> QED
    BY <1>9, <2>2 DEF value
<1>12. TableValued(kept)
  <2>1. depth \in 1 .. Bigger(depth - 0, 1)
    BY <1>2 DEF Bigger
  <2>2. /\ Minimax[MaxPly - 0][position][depth] >= f.score
        /\ Minimax[MaxPly - 0][position][depth] <= f.score
    BY <1>5, <1>8, <1>11
  <2> QED
    BY <1>2, <1>3, <1>5, <1>7, <2>1, <2>2, StoredValued
<1> QED
  BY <1>1, <1>5, <1>6, <1>10, <1>11, <1>12

\* The root of an iteration.
LEMMA RootValued ==
  ASSUME game \in Games, game' = game, position \in Positions,
         position' = position, NEW d \in Nat, d >= 1, depth' = d
  PROVE  \A s : s = <<RootCall(d)>> => StackValued(s, NoMove)'
<1> SUFFICES ASSUME NEW c, c = RootCall(d), NEW s, s = <<c>>
             PROVE  StackValued(s, NoMove)'
  OBVIOUS
<1>1. /\ c.at = "root" /\ c.pos = position /\ c.depth = d /\ c.original = -Inf
      /\ c.score = -Inf /\ c.left = game.moves[position]
  BY DEF RootCall, Call
<1>2. Reached'[0] = {position}
  BY GameKept, ReachedSteps
<1>3. Taken(c)' = {}
  BY <1>1 DEF MovesOf, Taken
<1>4. d - 0 > 0 /\ d = Bigger(d - 0, 1) /\ ~(-Inf > -Inf)
  BY Numbers DEF Bigger
<1>5. Valued(c, 0, {})'
  BY <1>1, <1>2, <1>4 DEF Valued
<1>6. Len(s) = 1 /\ s[1] = c /\ 1 - 1 = 0
  OBVIOUS
<1>7. \A i \in 1 .. Len(s) : ~(i > 1)
  BY <1>6
<1>8. 1 .. Len(s) - 1 = {}
  BY <1>6
<1> QED
  BY <1>3, <1>5, <1>6, <1>7, <1>8 DEF StackValued

LEMMA LeaveRootValued ==
  ASSUME ValuesOK, LeaveRoot
  PROVE  ValuesInv'
<1> SUFFICES ASSUME stack' # <<>> PROVE ValuesInv'
  BY DEF ValuesInv, Searching
<1>1. /\ game' = game /\ position' = position /\ result' = NoMove
      /\ depth' = depth + 1 /\ stack' = <<RootCall(depth + 1)>>
  BY DEF LeaveRoot, At
<1>2. /\ game \in Games /\ position \in Positions /\ depth \in Nat
      /\ depth + 1 \in Nat /\ depth + 1 >= 1
  BY SearchConstants DEF ValuesOK, MateInv, TypeOK
<1>3. StackValued(stack, result)'
  BY <1>1, <1>2, RootValued
<1>4. TableValued(tt)'
  <2>1. TableValued(tt')
    BY LeaveRootValue
  <2>2. Minimax' = Minimax /\ Reached' = Reached
    BY <1>1, GameKept
  <2>3. \A k \in 0 .. MaxPly :
          \A d \in 1 .. Bigger(depth - k, 1) : d \in 1 .. Bigger(depth' - k, 1)
    BY <1>1, <1>2 DEF Bigger
  <2>4. \A e : EntryValued(e) => EntryValued(e)'
    BY <2>2, <2>3 DEF EntryValued
  <2> QED
    BY <2>1, <2>4 DEF TableValued
<1> QED
  BY <1>1, <1>3, <1>4 DEF ValuesInv

------------------------------------------------------------------------------
(* The theorem about values.                                               *)

ScoreInv == MateInv /\ EmptyTable /\ ValuesInv

LEMMA EmptyTableKept ==
  ASSUME MateInv, EmptyTable, [Next]_vars
  PROVE  EmptyTable'
<1> SUFFICES ASSUME searches' = 0
             PROVE  \A slot \in Slots : tt'[slot] = NoMove
  BY DEF EmptyTable
<1>1. searches \in Nat /\ (Searching => searches # 0)
  BY SearchConstants DEF MateInv, TypeOK
<1>2. CASE NewGame
  BY <1>2 DEF NewGame
<1>3. CASE SetPosition \/ Abort \/ UNCHANGED vars
  BY <1>3 DEF SetPosition, Abort, vars, EmptyTable
<1>4. ASSUME NEW d \in 1 .. MaxDepth, Search(d) PROVE FALSE
  BY <1>1, <1>4 DEF Search
<1>5. CASE \/ EnterNegamax \/ TryMove \/ TakeScore \/ LeaveNegamax
           \/ EnterQuiescence \/ TakeCapture \/ LeaveQuiescence \/ TakeRootScore
           \/ LeaveRoot
  <2>1. Searching /\ searches' = searches
    BY <1>5 DEF EnterNegamax, TryMove, TakeScore, LeaveNegamax, EnterQuiescence,
       TakeCapture, LeaveQuiescence, TakeRootScore, LeaveRoot, At, searchVars
  <2> QED
    BY <1>1, <2>1
<1> QED
  BY <1>2, <1>3, <1>4, <1>5 DEF Next

LEMMA ValuesInvKept ==
  ASSUME ScoreInv, [Next]_vars
  PROVE  ValuesInv'
<1> SUFFICES ASSUME Searching', searches' = 1, Plain' PROVE ValuesInv'
  BY DEF ValuesInv
<1>1. MateInv /\ EmptyTable /\ ValuesInv /\ game \in Games /\ position \in Positions
      /\ searches \in Nat
  BY GameOK, SearchConstants DEF ScoreInv, MateInv, TypeOK
<1>2. ASSUME game' = game, position' = position, Searching, searches = 1
      PROVE  ValuesOK
  <2>1. Plain
    BY <1>2, PlainKept
  <2> QED
    BY <1>1, <1>2, <2>1 DEF ValuesOK, FirstSearch, ValuesInv
<1>3. CASE UNCHANGED vars
  <2>1. /\ game' = game /\ position' = position /\ tt' = tt /\ stack' = stack
        /\ result' = result /\ depth' = depth /\ searches' = searches
    BY <1>3 DEF vars
  <2>2. Searching /\ searches = 1
    BY <2>1 DEF Searching
  <2>3. /\ StackValued(stack, result) /\ TableValued(tt)
        /\ result # NoMove => ResultValued(result, Node, Ply)
    BY <1>2, <2>1, <2>2 DEF ValuesOK
  <2>4. /\ StackValued(stack, result)' /\ TableValued(tt)'
        /\ (result # NoMove => ResultValued(result, Node, Ply))'
    BY <2>1, <2>3, ValuesKept DEF Node, Ply
  <2> QED
    BY <2>4 DEF ValuesInv
<1>4. CASE SetPosition \/ NewGame \/ Abort
  BY <1>4 DEF SetPosition, NewGame, Abort, Searching
<1>5. ASSUME NEW d \in 1 .. MaxDepth, Search(d) PROVE ValuesInv'
  <2>1. /\ ~Searching /\ searches' = searches + 1
        /\ UNCHANGED <<game, position, tt, result>>
    BY <1>5 DEF Search
  <2>2. stack' = <<RootCall(1)>> /\ depth' = 1
    BY <1>5, <2>1 DEF Search, Searching
  <2>3. result' = NoMove
    BY <1>1, <2>1 DEF MateInv
  <2>4. StackValued(stack, result)'
    BY <1>1, <2>1, <2>2, <2>3, RootValued
  <2>5. searches = 0
    BY <1>1, <2>1
  <2>6. TableValued(tt)'
    BY <1>1, <2>1, <2>5 DEF EmptyTable, TableValued
  <2> QED
    BY <2>3, <2>4, <2>6 DEF ValuesInv
<1>6. CASE \/ EnterNegamax \/ TryMove \/ TakeScore \/ LeaveNegamax
           \/ EnterQuiescence \/ TakeCapture \/ LeaveQuiescence \/ TakeRootScore
  <2>1. /\ Searching /\ searches' = searches /\ game' = game
        /\ position' = position
    BY <1>6 DEF EnterNegamax, TryMove, TakeScore, LeaveNegamax, EnterQuiescence,
       TakeCapture, LeaveQuiescence, TakeRootScore, At, searchVars
  <2>2. ValuesOK
    BY <1>2, <2>1
  <2> QED
    BY <1>6, <2>2, EnterNegamaxValued, TryMoveValued, TakeScoreValued,
       LeaveNegamaxValued, EnterQuiescenceValued, TakeCaptureValued,
       LeaveQuiescenceValued, TakeRootScoreValued
<1>7. CASE LeaveRoot
  <2>1. /\ Searching /\ searches' = searches /\ game' = game
        /\ position' = position
    BY <1>7 DEF LeaveRoot, At
  <2>2. ValuesOK
    BY <1>2, <2>1
  <2> QED
    BY <1>7, <2>2, LeaveRootValued
<1> QED
  BY <1>3, <1>4, <1>5, <1>6, <1>7 DEF Next

LEMMA ScoreInvariance ==
  Spec => []ScoreInv
<1>1. Init => ScoreInv
  <2>1. Init => EmptyTable /\ ValuesInv
    BY DEF Init, EmptyTable, ValuesInv, Searching
  <2> QED
    BY <2>1, MateInit DEF ScoreInv
<1>2. ScoreInv /\ [Next]_vars => ScoreInv'
  BY MateStep, EmptyTableKept, ValuesInvKept DEF ScoreInv
<1> QED
  BY <1>1, <1>2, PTL DEF Spec

\* The first search of a game, with the alpha-beta window, the table, the check
\* extension and the captures, in whatever order it tries the moves, ends each
\* iteration with the minimax value of the position at its depth and a move that
\* attains it (search_root, negamax, quiescence).
THEOREM ScoresAlwaysMinimax ==
  Spec => ScoresAreMinimax
<1> DEFINE Step ==
      reached' > reached /\ searches = 1 /\ Plain =>
        /\ score' = Minimax[MaxPly][position][reached']
        /\ score' = -Minimax[MaxPly - 1][best'][reached' - 1]
<1>1. ASSUME ScoreInv, [Next]_vars PROVE Step
  <2> SUFFICES ASSUME reached' > reached, searches = 1, Plain
               PROVE  /\ score' = Minimax[MaxPly][position][reached']
                      /\ score' = -Minimax[MaxPly - 1][best'][reached' - 1]
    OBVIOUS
  <2>1. LeaveRoot
    BY <1>1, ReachedRises DEF ScoreInv
  <2>2. Searching /\ reached' = depth
    BY <2>1 DEF LeaveRoot, At
  <2>3. ValuesOK
    BY <1>1, <2>2 DEF ScoreInv, ValuesInv, ValuesOK, FirstSearch
  <2> QED
    BY <2>1, <2>2, <2>3, LeaveRootValue
<1> QED
  BY <1>1, ScoreInvariance, PTL DEF Spec, ScoresAreMinimax
=============================================================================
