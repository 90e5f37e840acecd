----------------------------- MODULE SheetProofs -----------------------------
(***************************************************************************)
(* Proofs about the sheet, for a line of any length, whatever is typed and *)
(* whatever the sheets that are opened hold.                               *)
(*                                                                         *)
(* The argument has four layers.                                           *)
(*                                                                         *)
(* References: where shift_index puts a position and rewrite_range_axis a  *)
(* range, from arithmetic alone.                                           *)
(*                                                                         *)
(* Functions by recursion: Reached, Ascending, Order, Evaluated, Loaded    *)
(* and Total are defined by recursion over numbers up to Limit.  Recursion *)
(* and UpTo give for each of them a function with its first value and its  *)
(* steps, and what follows from those by induction.  Reached is the least  *)
(* set closed under an edge relation; Ascending lists a set; Kahn's queue  *)
(* lists all its candidates, each behind those it reads, when there is no  *)
(* cycle among them; the evaluation in that order touches nothing but      *)
(* values and dynamic edges.                                               *)
(*                                                                         *)
(* Contents: IInv says that the engine has its types, that its graph       *)
(* Matches the formulas (not inductive without types: a graph may only     *)
(* mention cells of the axis) and that each stack of the history Links the *)
(* contents the engine has to those it had, entry by entry.  UndoRestores  *)
(* follows, and is not inductive alone: the last entry must lead back to   *)
(* the last sheet, the one before it from there to the sheet before, and   *)
(* so on.                                                                  *)
(*                                                                         *)
(* Values, without INDIRECT: ValueInv adds that the engine is Right, no    *)
(* cell of it holding anything but what its formula gives, and that every  *)
(* entry of the history is Sound: a snapshot of cells that will be put     *)
(* back without a recalculation Fits any right engine with the contents it *)
(* leads to.  The dirty cells are closed under dependence, so the cells    *)
(* outside of them read none of them, and the queue evaluates those inside *)
(* after what they read. Values are unique, that is, two right engines of  *)
(* the same contents show the same: which is why saving and opening brings *)
(* them back, and why a cell whose formula was shifted, over cells that    *)
(* were shifted, keeps its value.                                          *)
(***************************************************************************)
EXTENDS Sheet, FiniteSetTheorems, SequenceTheorems, WellFoundedInduction, TLAPS

-----------------------------------------------------------------------------
(* Where positions and references go, for every grid and edit.             *)

\* The positions that an insertion creates.
New(e) == IF e.kind = "insert" THEN e.at .. DeleteEnd(e) ELSE {}

\* An edit moves a position inside the grid or takes it away.
LEMMA ShiftIndexType ==
  ASSUME NEW e \in Edits, NEW i \in Axis
  PROVE  ShiftIndex(i, e) \in Axis \cup {None}
  BY LimitAssumption
     DEF ShiftIndex, CheckedAdd, DeleteEnd, Edits, Axis, None

\* shift_index moves no two positions to the same place, keeps their order, and
\* moves none onto a position it inserts: cells and sizes never collide.
THEOREM ShiftIndexOrdered ==
  ASSUME NEW e \in Edits, NEW i \in Axis, NEW j \in Axis, i < j,
         ShiftIndex(i, e) # None, ShiftIndex(j, e) # None
  PROVE  /\ ShiftIndex(i, e) < ShiftIndex(j, e)
         /\ ShiftIndex(i, e) \notin New(e)
  BY LimitAssumption
     DEF ShiftIndex, CheckedAdd, DeleteEnd, Edits, Axis, None, New

\* Every position left free by an insertion or moved to by an edit comes from
\* somewhere: nothing but the inserted positions, and the end of the grid after
\* a deletion, is left without an occupant.
LEMMA ShiftIndexOnto ==
  ASSUME NEW e \in Edits, NEW k \in Axis, k \notin New(e),
         e.kind = "delete" => k + e.count <= Limit
  PROVE  \E i \in Axis : ShiftIndex(i, e) = k
<1> DEFINE from == IF k < e.at THEN k
                   ELSE IF e.kind = "insert" THEN k - e.count
                   ELSE k + e.count
<1>1. from \in Axis
  BY LimitAssumption DEF DeleteEnd, Edits, Axis, New
<1>2. ShiftIndex(from, e) = k
  BY LimitAssumption
     DEF ShiftIndex, CheckedAdd, DeleteEnd, Edits, Axis, None, New
<1> QED BY <1>1, <1>2

\* The rewritten span lies in the grid, unless it is gone.
LEMMA RewriteSpanType ==
  ASSUME NEW e \in Edits, InBounds(e), NEW lo \in Axis, NEW hi \in Axis,
         lo <= hi, RewriteSpan(lo, hi, e) # NoSpan
  PROVE  /\ RewriteSpan(lo, hi, e).lo \in Axis
         /\ RewriteSpan(lo, hi, e).hi \in Axis
         /\ RewriteSpan(lo, hi, e).lo <= RewriteSpan(lo, hi, e).hi
<1>1. CASE e.kind = "insert"
  BY <1>1, LimitAssumption
     DEF RewriteSpan, SpanInsert, CheckedAdd, Span, NoSpan, Edits, Axis, None
<1>2. CASE e.kind = "delete"
  BY <1>2, LimitAssumption
     DEF RewriteSpan, SpanDelete, DeleteEnd, Span, NoSpan, Edits, Axis, None,
         InBounds
<1> QED BY <1>1, <1>2 DEF Edits

\* rewrite_range_axis agrees with shift_index: a range refers to where the
\* cells it covered have gone, if they were not deleted.
THEOREM RewriteSpanFollows ==
  ASSUME NEW e \in Edits, InBounds(e), NEW lo \in Axis, NEW hi \in Axis,
         lo <= hi, RewriteSpan(lo, hi, e) # NoSpan,
         NEW i \in lo .. hi, ShiftIndex(i, e) # None
  PROVE  ShiftIndex(i, e)
           \in RewriteSpan(lo, hi, e).lo .. RewriteSpan(lo, hi, e).hi
<1>1. CASE e.kind = "insert"
  BY <1>1, LimitAssumption
     DEF RewriteSpan, SpanInsert, ShiftIndex, CheckedAdd, Span, NoSpan, Edits,
         Axis, None
<1>2. CASE e.kind = "delete"
  BY <1>2, LimitAssumption
     DEF RewriteSpan, SpanDelete, ShiftIndex, DeleteEnd, Span, NoSpan, Edits,
         Axis, None, InBounds
<1> QED BY <1>1, <1>2 DEF Edits

\* rewrite_range_axis adds nothing else: a cell of the rewritten range was in
\* the range, at another place perhaps, or is an inserted one.
THEOREM RewriteSpanExact ==
  ASSUME NEW e \in Edits, InBounds(e), NEW lo \in Axis, NEW hi \in Axis,
         lo <= hi, RewriteSpan(lo, hi, e) # NoSpan,
         NEW k \in RewriteSpan(lo, hi, e).lo .. RewriteSpan(lo, hi, e).hi,
         k \notin New(e)
  PROVE  \E i \in lo .. hi : ShiftIndex(i, e) = k
<1> DEFINE from == IF k < e.at THEN k
                   ELSE IF e.kind = "insert" THEN k - e.count
                   ELSE k + e.count
<1>1. CASE e.kind = "insert"
  <2>1. from \in lo .. hi
    BY <1>1, LimitAssumption
       DEF RewriteSpan, SpanInsert, CheckedAdd, Span, NoSpan, Edits, Axis, None,
           New, DeleteEnd
  <2>2. ShiftIndex(from, e) = k
    BY <1>1, <2>1, LimitAssumption
       DEF RewriteSpan, SpanInsert, ShiftIndex, CheckedAdd, Span, NoSpan, Edits,
           Axis, None, New, DeleteEnd
  <2> QED BY <2>1, <2>2
<1>2. CASE e.kind = "delete"
  <2>1. from \in lo .. hi
    BY <1>2, LimitAssumption
       DEF RewriteSpan, SpanDelete, DeleteEnd, Span, NoSpan, Edits, Axis, None,
           InBounds
  <2>2. ShiftIndex(from, e) = k
    BY <1>2, <2>1, LimitAssumption
       DEF ShiftIndex, DeleteEnd, Edits, Axis, None
  <2> QED BY <2>1, <2>2
<1> QED BY <1>1, <1>2 DEF Edits

\* A deletion turns a range into #REF! only when nothing of it is left, an
\* insertion only when its end leaves the grid.
THEOREM RewriteSpanGone ==
  ASSUME NEW e \in Edits, InBounds(e), NEW lo \in Axis, NEW hi \in Axis,
         lo <= hi, RewriteSpan(lo, hi, e) = NoSpan
  PROVE  IF e.kind = "delete"
           THEN \A i \in lo .. hi : ShiftIndex(i, e) = None
           ELSE ShiftIndex(hi, e) = None
<1>1. CASE e.kind = "insert"
  BY <1>1, LimitAssumption
     DEF RewriteSpan, SpanInsert, ShiftIndex, CheckedAdd, Span, NoSpan, Edits,
         Axis, None
<1>2. CASE e.kind = "delete"
  BY <1>2, LimitAssumption
     DEF RewriteSpan, SpanDelete, ShiftIndex, DeleteEnd, Span, NoSpan, Edits,
         Axis, None, InBounds
<1> QED BY <1>1, <1>2 DEF Edits

\* Deleting what was inserted brings positions and ranges back, as long as
\* nothing left the grid.
THEOREM DeleteUndoesInsert ==
  ASSUME NEW at \in Axis, NEW count \in Axis, NEW lo \in Axis, NEW hi \in Axis,
         lo <= hi, hi + count <= Limit
  PROVE  LET ins == [kind |-> "insert", at |-> at, count |-> count]
             del == [kind |-> "delete", at |-> at, count |-> count]
             s == RewriteSpan(lo, hi, ins)
         IN  /\ ShiftIndex(ShiftIndex(lo, ins), del) = lo
             /\ RewriteSpan(s.lo, s.hi, del) = Span(lo, hi)
<1> DEFINE ins == [kind |-> "insert", at |-> at, count |-> count]
           del == [kind |-> "delete", at |-> at, count |-> count]
           s == RewriteSpan(lo, hi, ins)
<1>1. ShiftIndex(ShiftIndex(lo, ins), del) = lo
  BY LimitAssumption DEF ShiftIndex, CheckedAdd, DeleteEnd, Axis, None
<1>2. s = Span(IF at <= lo THEN lo + count ELSE lo,
               IF hi < at THEN hi ELSE hi + count)
  BY LimitAssumption
     DEF RewriteSpan, SpanInsert, CheckedAdd, Span, NoSpan, Axis, None
<1>3. SpanDelete(IF at <= lo THEN lo + count ELSE lo,
                 IF hi < at THEN hi ELSE hi + count, del) = Span(lo, hi)
  BY LimitAssumption DEF SpanDelete, DeleteEnd, Span, NoSpan, Axis, None
<1>4. RewriteSpan(s.lo, s.hi, del) = Span(lo, hi)
  BY <1>2, <1>3 DEF RewriteSpan, Span
<1> QED BY <1>1, <1>4

-----------------------------------------------------------------------------
(* Induction and recursion over numbers.                                   *)

LEMMA Smallest ==
  ASSUME NEW S \in SUBSET Nat, S # {}
  PROVE  \E n \in S : \A k \in S : n <= k
<1>1. PICK n \in S : \A k \in S : ~ (<<k, n>> \in OpToRel(<, Nat))
  BY WFMin, NatLessThanWellFounded
<1>2. \A k \in S : k < n => <<k, n>> \in OpToRel(<, Nat)
  BY DEF OpToRel
<1>3. \A k \in S : ~ (k < n)
  BY <1>1, <1>2
<1> QED
  BY <1>3

\* Induction up to a bound, with a set of numbers in place of a predicate.
LEMMA UpTo ==
  ASSUME NEW k \in Nat, NEW S, 0 \in S,
         \A n \in 0 .. k - 1 : n \in S => n + 1 \in S
  PROVE  \A n \in 0 .. k : n \in S
<1> DEFINE Bad == {n \in 0 .. k : n \notin S}
<1>1. SUFFICES ASSUME Bad # {} PROVE FALSE
  OBVIOUS
<1>2. PICK n \in Bad : \A i \in Bad : n <= i
  <2>1. Bad \in SUBSET Nat
    OBVIOUS
  <2> HIDE DEF Bad
  <2> QED
    BY <1>1, <2>1, Smallest
<1>3. n \in 0 .. k /\ n \notin S /\ n # 0
  BY <1>2
<1>4. n - 1 \in 0 .. k - 1 /\ n - 1 \notin Bad
  BY <1>2, <1>3
<1>5. n - 1 \in S
  BY <1>4
<1> QED
  BY <1>3, <1>4, <1>5

\* f starts with b and each of its values comes from the one before by F.
Iterates(f, b, F, k) ==
  f = [n \in 0 .. k |-> IF n = 0 THEN b ELSE F[<<f[n - 1], n>>]]

\* A function defined by what it is at 0 and by steps exists.
LEMMA Recursion ==
  ASSUME NEW V, NEW b \in V, NEW F \in [V \X Nat -> V], NEW k \in Nat
  PROVE  \E f \in [0 .. k -> V] : Iterates(f, b, F, k)
<1> DEFINE S == {n \in Nat : \E f \in [0 .. n -> V] : Iterates(f, b, F, n)}
<1>1. 0 \in S
  <2> DEFINE f == [n \in 0 .. 0 |-> b]
  <2>1. f \in [0 .. 0 -> V]
    OBVIOUS
  <2>2. f = [n \in 0 .. 0 |-> IF n = 0 THEN b ELSE F[<<f[n - 1], n>>]]
    OBVIOUS
  <2> QED
    BY <2>1, <2>2 DEF Iterates
<1>2. ASSUME NEW n \in 0 .. k - 1, n \in S
      PROVE  n + 1 \in S
  <2>1. PICK g \in [0 .. n -> V] : Iterates(g, b, F, n)
    BY <1>2
  <2> DEFINE f == [i \in 0 .. n + 1 |->
                     IF i = n + 1 THEN F[<<g[n], n + 1>>] ELSE g[i]]
  <2>2. f \in [0 .. n + 1 -> V]
    OBVIOUS
  <2>3. \A i \in 0 .. n : g[i] = IF i = 0 THEN b ELSE F[<<g[i - 1], i>>]
    BY <2>1 DEF Iterates
  <2>4. ASSUME NEW i \in 0 .. n + 1
        PROVE  f[i] = IF i = 0 THEN b ELSE F[<<f[i - 1], i>>]
    <3>1. CASE i = n + 1
      <4>1. f[i] = F[<<g[n], n + 1>>] /\ f[i - 1] = g[n] /\ i # 0
        BY <3>1
      <4> QED
        BY <3>1, <4>1
    <3>2. CASE i # n + 1
      <4>1. i \in 0 .. n /\ f[i] = g[i]
        BY <3>2
      <4>2. i # 0 => f[i - 1] = g[i - 1]
        BY <4>1
      <4> QED
        BY <2>3, <4>1, <4>2
    <3> QED
      BY <3>1, <3>2
  <2>5. f = [i \in 0 .. n + 1 |-> IF i = 0 THEN b ELSE F[<<f[i - 1], i>>]]
    <3>1. f = [i \in 0 .. n + 1 |-> f[i]]
      OBVIOUS
    <3> HIDE DEF f
    <3> QED
      BY <2>4, <3>1
  <2>6. Iterates(f, b, F, n + 1)
    BY <2>5 DEF Iterates
  <2> HIDE DEF f
  <2> QED
    BY <2>2, <2>6
<1> HIDE DEF S
<1>3. k \in S
  BY <1>1, <1>2, UpTo
<1> QED
  BY <1>3 DEF S

-----------------------------------------------------------------------------
(* Reaching.                                                               *)

Nexts == [Axis -> SUBSET Axis]

LEMMA AxisFinite ==
  ASSUME NEW S \in SUBSET Axis
  PROVE  IsFiniteSet(S) /\ Cardinality(S) \in 0 .. Limit
<1>1. 1 \in Int /\ Limit \in Int
  BY LimitAssumption
<1>2. IsFiniteSet(Axis) /\ Cardinality(Axis) = Limit
  BY <1>1, LimitAssumption, FS_Interval DEF Axis
<1> QED
  BY <1>2, FS_Subset, FS_CardinalityType

\* One more step from the cells in S.
Further(next, S) == S \cup UNION {next[c] : c \in S}

LEMMA FurtherIs ==
  ASSUME NEW next \in Nexts, NEW S \in SUBSET Axis
  PROVE  /\ Further(next, S) \in SUBSET Axis
         /\ S \subseteq Further(next, S)
         /\ \A c \in S : next[c] \subseteq Further(next, S)
         /\ \A X : S \subseteq X /\ (\A c \in S : next[c] \subseteq X)
              => Further(next, S) \subseteq X
BY DEF Further, Nexts

LEMMA ReachedSteps ==
  ASSUME NEW next \in Nexts, NEW start \in SUBSET Axis
  PROVE  \E f \in [0 .. Limit -> SUBSET Axis] :
           /\ f[0] = start
           /\ \A n \in 1 .. Limit : f[n] = Further(next, f[n - 1])
           /\ Reached(next, start) = f[Limit]
<1> DEFINE V == SUBSET Axis
           F == [x \in V \X Nat |-> Further(next, x[1])]
<1>1. F \in [V \X Nat -> V]
  BY FurtherIs
<1>2. Limit \in Nat
  BY LimitAssumption
<1>3. PICK g \in [0 .. Limit -> V] : Iterates(g, start, F, Limit)
  <2> HIDE DEF F, V
  <2>1. start \in V
    BY DEF V
  <2> QED
    BY <1>1, <1>2, <2>1, Recursion
<1> DEFINE f == CHOOSE f :
                  f = [n \in 0 .. Limit |->
                         IF n = 0 THEN start
                         ELSE f[n - 1] \cup UNION {next[c] : c \in f[n - 1]}]
<1>4. g = [n \in 0 .. Limit |->
             IF n = 0 THEN start
             ELSE g[n - 1] \cup UNION {next[c] : c \in g[n - 1]}]
  <2>1. \A n \in 0 .. Limit :
          g[n] = IF n = 0 THEN start ELSE F[<<g[n - 1], n>>]
    <3> HIDE DEF F
    <3> QED
      BY <1>3 DEF Iterates
  <2>2. ASSUME NEW n \in 0 .. Limit
        PROVE  g[n] = IF n = 0 THEN start
                      ELSE g[n - 1] \cup UNION {next[c] : c \in g[n - 1]}
    <3>1. CASE n = 0
      BY <2>1, <3>1
    <3>2. CASE n # 0
      <4>1. n \in Nat /\ n - 1 \in 0 .. Limit
        BY <1>2, <3>2
      <4>2. <<g[n - 1], n>> \in V \X Nat
        BY <1>3, <4>1
      <4>3. F[<<g[n - 1], n>>] = Further(next, g[n - 1])
        BY <4>2
      <4> QED
        BY <2>1, <3>2, <4>3 DEF Further
    <3> QED
      BY <3>1, <3>2
  <2>3. g = [n \in 0 .. Limit |-> g[n]]
    BY <1>3
  <2> HIDE DEF F
  <2> QED
    BY <2>2, <2>3
<1>5. f = [n \in 0 .. Limit |->
             IF n = 0 THEN start
             ELSE f[n - 1] \cup UNION {next[c] : c \in f[n - 1]}]
  <2> HIDE DEF F, V
  <2> QED
    BY <1>4
<1>6. Reached(next, start) = f[Limit]
  BY DEF Reached
<1> HIDE DEF f, F
<1>7. /\ f[0] = start
      /\ \A n \in 1 .. Limit : f[n] = Further(next, f[n - 1])
  <2>1. f[0] = start
    BY <1>2, <1>5
  <2>2. ASSUME NEW n \in 1 .. Limit PROVE f[n] = Further(next, f[n - 1])
    <3>1. n \in 0 .. Limit /\ n # 0
      BY <1>2
    <3>2. f[n] = IF n = 0 THEN start
                 ELSE f[n - 1] \cup UNION {next[c] : c \in f[n - 1]}
      BY <1>5, <3>1, Zenon
    <3> QED
      BY <3>1, <3>2, Zenon DEF Further
  <2> QED
    BY <2>1, <2>2
<1>8. \A n \in 0 .. Limit : n \in {k \in 0 .. Limit : f[k] \in SUBSET Axis}
  <2> DEFINE S == {k \in 0 .. Limit : f[k] \in SUBSET Axis}
  <2>1. 0 \in S
    BY <1>2, <1>7
  <2>2. ASSUME NEW n \in 0 .. Limit - 1, n \in S PROVE n + 1 \in S
    <3>1. f[n + 1] = Further(next, f[n])
      <4>1. n + 1 \in 1 .. Limit /\ (n + 1) - 1 = n
        BY <1>2
      <4> QED
        BY <1>7, <4>1
    <3>2. f[n] \in SUBSET Axis
      BY <2>2
    <3>3. f[n + 1] \in SUBSET Axis
      BY <3>1, <3>2, FurtherIs
    <3> QED
      BY <1>2, <3>3
  <2> HIDE DEF S
  <2> QED
    BY <1>2, <2>1, <2>2, UpTo DEF S
<1>9. f \in [0 .. Limit -> SUBSET Axis]
  <2>1. f = [n \in 0 .. Limit |-> f[n]]
    BY <1>5
  <2> QED
    BY <1>8, <2>1
<1> QED
  BY <1>6, <1>7, <1>9

Closed(next, X) == \A c \in X : next[c] \subseteq X

LEMMA ReachedLeast ==
  ASSUME NEW next \in Nexts, NEW start \in SUBSET Axis,
         NEW X, start \subseteq X, Closed(next, X)
  PROVE  Reached(next, start) \subseteq X
<1>1. PICK f \in [0 .. Limit -> SUBSET Axis] :
        /\ f[0] = start
        /\ \A n \in 1 .. Limit : f[n] = Further(next, f[n - 1])
        /\ Reached(next, start) = f[Limit]
  BY ReachedSteps
<1> DEFINE S == {n \in 0 .. Limit : f[n] \subseteq X}
<1>2. Limit \in Nat
  BY LimitAssumption
<1>3. 0 \in S
  BY <1>1, <1>2
<1>4. ASSUME NEW n \in 0 .. Limit - 1, n \in S PROVE n + 1 \in S
  <2>1. f[n + 1] = Further(next, f[n])
    <3>1. n + 1 \in 1 .. Limit /\ (n + 1) - 1 = n
      BY <1>2
    <3> QED
      BY <1>1, <3>1
  <2>2. f[n] \in SUBSET Axis /\ f[n] \subseteq X
    BY <1>2, <1>4
  <2>3. \A c \in f[n] : next[c] \subseteq X
    BY <2>2 DEF Closed
  <2>4. f[n + 1] \subseteq X
    BY <2>1, <2>2, <2>3, FurtherIs
  <2> QED
    BY <1>2, <2>4
<1> HIDE DEF S
<1>5. Limit \in S
  BY <1>2, <1>3, <1>4, UpTo, SMTT(30)
<1> QED
  BY <1>1, <1>5 DEF S

\* The breadth-first search of the model ends: after as many rounds as there
\* are cells nothing more is reached.
LEMMA ReachedClosed ==
  ASSUME NEW next \in Nexts, NEW start \in SUBSET Axis
  PROVE  /\ Reached(next, start) \in SUBSET Axis
         /\ start \subseteq Reached(next, start)
         /\ Closed(next, Reached(next, start))
<1>1. PICK f \in [0 .. Limit -> SUBSET Axis] :
        /\ f[0] = start
        /\ \A n \in 1 .. Limit : f[n] = Further(next, f[n - 1])
        /\ Reached(next, start) = f[Limit]
  BY ReachedSteps
<1>2. Limit \in Nat
  BY LimitAssumption
<1>3. \A n \in 0 .. Limit :
        f[n] \in SUBSET Axis /\ IsFiniteSet(f[n]) /\ Cardinality(f[n]) \in Nat
  BY <1>2, AxisFinite, FS_CardinalityType
<1>4. ASSUME NEW n \in 0 .. Limit - 1
      PROVE  /\ n \in 0 .. Limit /\ n + 1 \in 0 .. Limit
             /\ f[n + 1] = Further(next, f[n])
  <2>1. /\ n \in 0 .. Limit /\ n + 1 \in 0 .. Limit
        /\ n + 1 \in 1 .. Limit /\ (n + 1) - 1 = n
    BY <1>2
  <2> QED
    BY <1>1, <2>1
<1> DEFINE S == {n \in 0 .. Limit :
                   /\ start \subseteq f[n]
                   /\ Closed(next, f[n]) \/ Cardinality(f[n]) > n}
<1>5. 0 \in S
  <2>1. CASE start = {}
    BY <1>1, <1>2, <2>1 DEF Closed
  <2>2. CASE start # {}
    <3>1. Cardinality(start) # 0 /\ Cardinality(start) \in Nat
      BY <2>2, AxisFinite, FS_EmptySet
    <3> QED
      BY <1>1, <1>2, <3>1
  <2> QED
    BY <2>1, <2>2
<1>6. ASSUME NEW n \in 0 .. Limit - 1, n \in S PROVE n + 1 \in S
  <2>1. /\ start \subseteq f[n] /\ f[n] \subseteq f[n + 1]
        /\ f[n] \in SUBSET Axis /\ f[n + 1] \in SUBSET Axis
    BY <1>3, <1>4, <1>6, FurtherIs
  <2>2. CASE Closed(next, f[n])
    <3>1. f[n + 1] \subseteq f[n]
      BY <1>4, <2>1, <2>2, FurtherIs DEF Closed
    <3>2. f[n + 1] = f[n]
      BY <2>1, <3>1
    <3> QED
      BY <1>4, <2>1, <2>2, <3>2
  <2>3. CASE ~ Closed(next, f[n])
    <3>1. PICK c \in f[n] : ~ (next[c] \subseteq f[n])
      BY <2>3 DEF Closed
    <3>2. next[c] \subseteq f[n + 1]
      BY <1>4, <2>1, FurtherIs
    <3>3. f[n + 1] # f[n]
      BY <3>1, <3>2
    <3>4. Cardinality(f[n]) < Cardinality(f[n + 1])
      BY <1>3, <1>4, <2>1, <3>3, FS_Subset
    <3>5. Cardinality(f[n]) > n
      BY <1>6, <2>3
    <3>6. Cardinality(f[n + 1]) > n + 1
      BY <1>3, <1>4, <3>4, <3>5
    <3> QED
      BY <1>4, <2>1, <3>6
  <2> QED
    BY <2>2, <2>3
<1> HIDE DEF S
<1>7. \A n \in 0 .. Limit : n \in S
  BY <1>2, <1>5, <1>6, UpTo
<1>8. start \subseteq f[Limit]
      /\ (Closed(next, f[Limit]) \/ Cardinality(f[Limit]) > Limit)
  BY <1>2, <1>7 DEF S
<1>9. f[Limit] \in SUBSET Axis /\ Cardinality(f[Limit]) \in 0 .. Limit
  BY <1>2, AxisFinite
<1>10. Closed(next, f[Limit])
  BY <1>2, <1>8, <1>9
<1> QED
  BY <1>1, <1>8, <1>9, <1>10

\* What a reached cell reaches is reached, and fewer steps reach less.
LEMMA ReachedFurther ==
  ASSUME NEW next \in Nexts, NEW start \in SUBSET Axis,
         NEW c \in Reached(next, start)
  PROVE  Reached(next, next[c]) \subseteq Reached(next, start)
<1>1. /\ Reached(next, start) \in SUBSET Axis
      /\ Closed(next, Reached(next, start))
  BY ReachedClosed
<1>2. next[c] \subseteq Reached(next, start) /\ next[c] \in SUBSET Axis
  BY <1>1 DEF Closed, Nexts
<1> QED
  BY <1>1, <1>2, ReachedLeast

\* Cells from which only cells where two graphs agree are reached reach the
\* same in both.
LEMMA ReachedAlike ==
  ASSUME NEW next \in Nexts, NEW other \in Nexts, NEW start \in SUBSET Axis,
         NEW X \in SUBSET Axis, start \subseteq X, Closed(next, X),
         \A c \in X : other[c] = next[c]
  PROVE  /\ Reached(other, start) = Reached(next, start)
         /\ Reached(next, start) \subseteq X
<1>1. Closed(other, X)
  BY DEF Closed
<1>2. Reached(next, start) \subseteq X /\ Reached(other, start) \subseteq X
  BY <1>1, ReachedLeast
<1>3. /\ start \subseteq Reached(next, start)
      /\ start \subseteq Reached(other, start)
      /\ Closed(next, Reached(next, start))
      /\ Closed(other, Reached(other, start))
  BY ReachedClosed
<1>4. Closed(other, Reached(next, start)) /\ Closed(next, Reached(other, start))
  BY <1>2, <1>3 DEF Closed
<1>5. /\ Reached(other, start) \subseteq Reached(next, start)
      /\ Reached(next, start) \subseteq Reached(other, start)
  BY <1>3, <1>4, ReachedLeast
<1> QED
  BY <1>2, <1>5

\* The cells of a set in which every cell leads to another have a cycle.
LEMMA CycleInside ==
  ASSUME NEW next \in Nexts, NEW R \in SUBSET Axis, R # {},
         \A c \in R : next[c] \cap R # {}
  PROVE  \E c \in R : c \in Reached(next, next[c])
<1> DEFINE Size(c) == Cardinality(Reached(next, next[c]))
           Sizes == {Size(c) : c \in R}
<1>1. \A c \in R : /\ next[c] \in SUBSET Axis
                   /\ Reached(next, next[c]) \in SUBSET Axis
                   /\ next[c] \subseteq Reached(next, next[c])
  BY ReachedClosed DEF Nexts
<1>2. \A c \in R : Size(c) \in Nat
  BY <1>1, AxisFinite
<1>3. PICK m \in Sizes : \A k \in Sizes : m <= k
  <2>1. Sizes \in SUBSET Nat /\ Sizes # {}
    BY <1>2
  <2> HIDE DEF Sizes
  <2> QED
    BY <2>1, Smallest
<1>4. PICK c \in R : \A d \in R : Size(c) <= Size(d)
  BY <1>3
<1>5. PICK d \in next[c] \cap R : TRUE
  OBVIOUS
<1>6. d \in Reached(next, next[c])
  BY <1>1, <1>5
<1>7. Reached(next, next[d]) \subseteq Reached(next, next[c])
  BY <1>1, <1>6, ReachedFurther
<1>8. Reached(next, next[d]) = Reached(next, next[c])
  <2>1. Size(c) <= Size(d) /\ Size(c) \in Nat /\ Size(d) \in Nat
    BY <1>2, <1>4, <1>5
  <2>2. IsFiniteSet(Reached(next, next[c]))
    BY <1>1, AxisFinite
  <2>3. Size(d) <= Size(c) /\ (Size(c) = Size(d)
           => Reached(next, next[d]) = Reached(next, next[c]))
    BY <1>7, <2>2, FS_Subset
  <2> QED
    BY <2>1, <2>3
<1> QED
  BY <1>5, <1>6, <1>8

-----------------------------------------------------------------------------
(* Sorted cells and Kahn's queue.                                          *)

\* q holds each element of S once and nothing else.
Lists(q, S) ==
  /\ q \in Seq(Axis)
  /\ \A c : c \in S <=> \E i \in 1 .. Len(q) : q[i] = c
  /\ \A i \in 1 .. Len(q) : \A j \in 1 .. Len(q) : q[i] = q[j] => i = j

LEMMA ListsNothing ==
  Lists(<<>>, {})
<1>1. <<>> \in Seq(Axis) /\ Len(<<>>) = 0
  BY EmptySeq
<1> QED
  BY <1>1 DEF Lists

LEMMA ListsJoined ==
  ASSUME NEW q, NEW S, Lists(q, S), NEW r, NEW T, Lists(r, T), S \cap T = {}
  PROVE  /\ Lists(q \o r, S \cup T)
         /\ Len(q \o r) = Len(q) + Len(r) /\ Len(q) \in Nat /\ Len(r) \in Nat
         /\ \A i \in 1 .. Len(q) : (q \o r)[i] = q[i]
         /\ \A i \in Len(q) + 1 .. Len(q) + Len(r) :
              /\ i - Len(q) \in 1 .. Len(r)
              /\ (q \o r)[i] = r[i - Len(q)] /\ (q \o r)[i] \in T
<1> DEFINE n == Len(q)
           m == Len(r)
           both == q \o r
<1>1. q \in Seq(Axis) /\ r \in Seq(Axis)
  BY DEF Lists
<1>2. n \in Nat /\ m \in Nat
  BY <1>1, LenProperties
<1>3. /\ both \in Seq(Axis) /\ Len(both) = n + m
      /\ \A i \in 1 .. n + m : both[i] = IF i <= n THEN q[i] ELSE r[i - n]
  BY <1>1, ConcatProperties
<1> HIDE DEF n, m, both
<1>4. \A i \in 1 .. n : i \in 1 .. n + m /\ both[i] = q[i] /\ both[i] \in S
  <2>1. \A i \in 1 .. n : i \in 1 .. n + m /\ i <= n
    BY <1>2
  <2>2. \A i \in 1 .. n : q[i] \in S
    BY DEF Lists, n
  <2> QED
    BY <1>3, <2>1, <2>2
<1>5. \A i \in n + 1 .. n + m :
        /\ i \in 1 .. n + m /\ i - n \in 1 .. m
        /\ both[i] = r[i - n] /\ both[i] \in T
  <2>1. \A i \in n + 1 .. n + m :
          i \in 1 .. n + m /\ i - n \in 1 .. m /\ ~ (i <= n)
    BY <1>2
  <2>2. \A i \in 1 .. m : r[i] \in T
    BY DEF Lists, m
  <2> QED
    BY <1>3, <2>1, <2>2
<1>6. \A i \in 1 .. n + m : i \in 1 .. n \/ i \in n + 1 .. n + m
  BY <1>2
<1>7. ASSUME NEW c
      PROVE  c \in S \cup T <=> \E i \in 1 .. n + m : both[i] = c
  <2>1. ASSUME c \in S PROVE \E i \in 1 .. n + m : both[i] = c
    <3>1. PICK i \in 1 .. n : q[i] = c
      BY <2>1 DEF Lists, n
    <3> QED
      BY <1>4, <3>1
  <2>2. ASSUME c \in T PROVE \E i \in 1 .. n + m : both[i] = c
    <3>1. PICK i \in 1 .. m : r[i] = c
      BY <2>2 DEF Lists, m
    <3>2. n + i \in n + 1 .. n + m /\ (n + i) - n = i
      BY <1>2
    <3> QED
      BY <1>5, <3>1, <3>2
  <2>3. ASSUME NEW i \in 1 .. n + m PROVE both[i] \in S \cup T
    BY <1>4, <1>5, <1>6
  <2> QED
    BY <2>1, <2>2, <2>3
<1>8. ASSUME NEW i \in 1 .. n + m, NEW j \in 1 .. n + m, both[i] = both[j]
      PROVE  i = j
  <2>1. CASE i \in 1 .. n /\ j \in 1 .. n
    BY <1>4, <1>8, <2>1 DEF Lists, n
  <2>2. CASE i \in n + 1 .. n + m /\ j \in n + 1 .. n + m
    <3>1. /\ i - n \in 1 .. m /\ j - n \in 1 .. m /\ r[i - n] = r[j - n]
      BY <1>5, <1>8, <2>2
    <3>2. i - n = j - n
      BY <3>1 DEF Lists, m
    <3> QED
      BY <1>2, <3>2
  <2>3. CASE i \in 1 .. n /\ j \in n + 1 .. n + m
    BY <1>4, <1>5, <1>8, <2>3
  <2>4. CASE i \in n + 1 .. n + m /\ j \in 1 .. n
    BY <1>4, <1>5, <1>8, <2>4
  <2> QED
    BY <1>6, <2>1, <2>2, <2>3, <2>4
<1>9. Lists(both, S \cup T)
  BY <1>3, <1>7, <1>8 DEF Lists
<1> QED
  BY <1>2, <1>3, <1>4, <1>5, <1>9 DEF n, m, both

LEMMA ListsOneMore ==
  ASSUME NEW q, NEW S, Lists(q, S), NEW c \in Axis, c \notin S
  PROVE  Lists(Append(q, c), S \cup {c})
<1>1. q \in Seq(Axis)
  BY DEF Lists
<1>2. /\ Append(q, c) \in Seq(Axis) /\ Len(q) \in Nat
      /\ Len(Append(q, c)) = Len(q) + 1
      /\ \A i \in 1 .. Len(q) : Append(q, c)[i] = q[i]
      /\ Append(q, c)[Len(q) + 1] = c
  BY <1>1, AppendProperties, LenProperties
<1> DEFINE n == Len(q)
           more == Append(q, c)
<1> HIDE DEF n, more
<1>3. /\ n \in Nat /\ Len(more) = n + 1 /\ more[n + 1] = c
      /\ \A i \in 1 .. n : more[i] = q[i] /\ more[i] \in S
  BY <1>2 DEF n, more, Lists
<1>4. \A i \in 1 .. n + 1 : i \in 1 .. n \/ i = n + 1
  BY <1>3
<1>5. \A i \in 1 .. n : i \in 1 .. n + 1
  BY <1>3
<1>6. n + 1 \in 1 .. n + 1
  BY <1>3
<1>7. ASSUME NEW d
      PROVE  d \in S \cup {c} <=> \E i \in 1 .. n + 1 : more[i] = d
  <2>1. ASSUME d \in S PROVE \E i \in 1 .. n + 1 : more[i] = d
    <3>1. PICK i \in 1 .. n : q[i] = d
      BY <2>1 DEF Lists, n
    <3> QED
      BY <1>3, <1>5, <3>1
  <2>2. ASSUME NEW i \in 1 .. n + 1 PROVE more[i] \in S \cup {c}
    BY <1>3, <1>4
  <2> QED
    BY <1>3, <1>6, <2>1, <2>2
<1>8. ASSUME NEW i \in 1 .. n + 1, NEW j \in 1 .. n + 1, more[i] = more[j]
      PROVE  i = j
  <2>1. CASE i \in 1 .. n /\ j \in 1 .. n
    BY <1>3, <1>8, <2>1 DEF Lists, n
  <2>2. CASE ~ (i \in 1 .. n /\ j \in 1 .. n)
    BY <1>3, <1>4, <1>8, <2>2
  <2> QED
    BY <2>1, <2>2
<1> QED
  BY <1>2, <1>3, <1>7, <1>8 DEF Lists, more

\* A function g that satisfies the equation of a recursive definition in sight
\* is what is shown each time; the function that was defined satisfies it too.
LEMMA AscendingSteps ==
  ASSUME NEW S \in SUBSET Axis
  PROVE  \E f \in [0 .. Limit -> Seq(Axis)] :
           /\ f[0] = <<>>
           /\ \A n \in 1 .. Limit :
                f[n] = IF n \in S THEN Append(f[n - 1], n) ELSE f[n - 1]
           /\ Ascending(S) = f[Limit]
<1> DEFINE V == Seq(Axis)
           F == [x \in V \X Nat |->
                   IF x[2] \in S THEN Append(x[1], x[2]) ELSE x[1]]
<1>1. F \in [V \X Nat -> V]
  <2>1. ASSUME NEW x \in V \X Nat
        PROVE  (IF x[2] \in S THEN Append(x[1], x[2]) ELSE x[1]) \in V
    <3>1. x[1] \in Seq(Axis)
      OBVIOUS
    <3>2. CASE x[2] \in S
      <4>1. x[2] \in Axis
        BY <3>2
      <4>2. Append(x[1], x[2]) \in Seq(Axis)
        BY <3>1, <4>1, AppendProperties
      <4> QED
        BY <3>2, <4>2
    <3> QED
      BY <3>1, <3>2
  <2> QED
    BY <2>1
<1>2. Limit \in Nat /\ <<>> \in V
  BY LimitAssumption, EmptySeq
<1>3. PICK g \in [0 .. Limit -> V] : Iterates(g, <<>>, F, Limit)
  <2> HIDE DEF F, V
  <2> QED
    BY <1>1, <1>2, Recursion
<1> DEFINE f == CHOOSE f :
                  f = [n \in 0 .. Limit |->
                         IF n = 0 THEN <<>>
                         ELSE IF n \in S THEN Append(f[n - 1], n)
                         ELSE f[n - 1]]
<1>4. g = [n \in 0 .. Limit |->
             IF n = 0 THEN <<>>
             ELSE IF n \in S THEN Append(g[n - 1], n) ELSE g[n - 1]]
  <2>1. \A n \in 0 .. Limit :
          g[n] = IF n = 0 THEN <<>> ELSE F[<<g[n - 1], n>>]
    <3> HIDE DEF F
    <3> QED
      BY <1>3 DEF Iterates
  <2>2. ASSUME NEW n \in 0 .. Limit
        PROVE  g[n] = IF n = 0 THEN <<>>
                      ELSE IF n \in S THEN Append(g[n - 1], n) ELSE g[n - 1]
    <3>1. CASE n = 0
      BY <2>1, <3>1
    <3>2. CASE n # 0
      <4>1. n \in Nat /\ n - 1 \in 0 .. Limit
        BY <1>2, <3>2
      <4>2. <<g[n - 1], n>> \in V \X Nat
        <5> HIDE DEF V
        <5> QED
          BY <1>3, <4>1
      <4>3. F[<<g[n - 1], n>>]
              = IF n \in S THEN Append(g[n - 1], n) ELSE g[n - 1]
        <5> HIDE DEF V
        <5> QED
          BY <4>2
      <4> HIDE DEF F, V
      <4> QED
        BY <2>1, <3>2, <4>3
    <3> QED
      BY <3>1, <3>2
  <2>3. g = [n \in 0 .. Limit |-> g[n]]
    BY <1>3
  <2> HIDE DEF F
  <2> QED
    BY <2>2, <2>3
<1>5. f = [n \in 0 .. Limit |->
             IF n = 0 THEN <<>>
             ELSE IF n \in S THEN Append(f[n - 1], n) ELSE f[n - 1]]
  <2> HIDE DEF F, V
  <2> QED
    BY <1>4
<1>6. Ascending(S) = f[Limit]
  BY DEF Ascending
<1> HIDE DEF f, F
<1>7. /\ f[0] = <<>>
      /\ \A n \in 1 .. Limit :
           f[n] = IF n \in S THEN Append(f[n - 1], n) ELSE f[n - 1]
  <2>1. f[0] = <<>>
    BY <1>2, <1>5
  <2>2. ASSUME NEW n \in 1 .. Limit
        PROVE  f[n] = IF n \in S THEN Append(f[n - 1], n) ELSE f[n - 1]
    <3>1. n \in 0 .. Limit /\ n # 0
      BY <1>2
    <3> QED
      BY <1>5, <3>1, Zenon
  <2> QED
    BY <2>1, <2>2
<1> DEFINE W == {k \in 0 .. Limit : f[k] \in V}
<1> HIDE DEF V
<1>8. \A n \in 0 .. Limit : n \in W
  <2>1. 0 \in W
    BY <1>2, <1>7
  <2>2. ASSUME NEW n \in 0 .. Limit - 1, n \in W PROVE n + 1 \in W
    <3>1. n + 1 \in 1 .. Limit /\ (n + 1) - 1 = n /\ n + 1 \in Axis
      BY <1>2 DEF Axis
    <3>2. f[n + 1] = IF n + 1 \in S THEN Append(f[n], n + 1) ELSE f[n]
      BY <1>7, <3>1
    <3>3. f[n] \in V
      BY <2>2
    <3>4. Append(f[n], n + 1) \in V
      BY <3>1, <3>3, AppendProperties DEF V
    <3>5. f[n + 1] \in V
      BY <3>2, <3>3, <3>4
    <3> QED
      BY <3>1, <3>5
  <2> HIDE DEF W
  <2> QED
    BY <1>2, <2>1, <2>2, UpTo
<1>9. f \in [0 .. Limit -> V]
  <2>1. f = [n \in 0 .. Limit |-> f[n]]
    BY <1>5
  <2> QED
    BY <1>8, <2>1
<1> QED
  BY <1>6, <1>7, <1>9 DEF V

\* The cells of S up to n.
Low(S, n) == {c \in S : c <= n}

LEMMA LowIs ==
  ASSUME NEW S \in SUBSET Axis
  PROVE  /\ Low(S, 0) = {} /\ Low(S, Limit) = S
         /\ \A n \in Nat :
              /\ n + 1 \in S => /\ Low(S, n + 1) = Low(S, n) \cup {n + 1}
                               /\ n + 1 \notin Low(S, n)
              /\ n + 1 \notin S => Low(S, n + 1) = Low(S, n)
<1>1. \A c \in S : c \in Nat /\ 1 <= c /\ c <= Limit
  BY LimitAssumption DEF Axis
<1>2. \A n \in Nat : \A c \in S : c <= n + 1 <=> c <= n \/ c = n + 1
  BY <1>1
<1> QED
  BY <1>1, <1>2 DEF Low

LEMMA AscendingIs ==
  ASSUME NEW S \in SUBSET Axis
  PROVE  Lists(Ascending(S), S)
<1>1. PICK f \in [0 .. Limit -> Seq(Axis)] :
        /\ f[0] = <<>>
        /\ \A n \in 1 .. Limit :
             f[n] = IF n \in S THEN Append(f[n - 1], n) ELSE f[n - 1]
        /\ Ascending(S) = f[Limit]
  BY AscendingSteps
<1>2. Limit \in Nat
  BY LimitAssumption
<1> DEFINE W == {n \in 0 .. Limit : Lists(f[n], Low(S, n))}
<1>3. 0 \in W
  <2>1. Low(S, 0) = {}
    BY LowIs
  <2>2. Lists(f[0], Low(S, 0))
    BY <1>1, <2>1, ListsNothing
  <2> QED
    BY <1>2, <2>2
<1>4. ASSUME NEW n \in 0 .. Limit - 1, n \in W PROVE n + 1 \in W
  <2>1. n + 1 \in 1 .. Limit /\ (n + 1) - 1 = n /\ n + 1 \in Axis
    BY <1>2 DEF Axis
  <2>2. f[n + 1] = IF n + 1 \in S THEN Append(f[n], n + 1) ELSE f[n]
    BY <1>1, <2>1
  <2>3. Lists(f[n], Low(S, n)) /\ n \in Nat
    BY <1>2, <1>4
  <2>4. CASE n + 1 \in S
    <3>1. Low(S, n + 1) = Low(S, n) \cup {n + 1} /\ n + 1 \notin Low(S, n)
      BY <2>3, <2>4, LowIs
    <3>2. Lists(Append(f[n], n + 1), Low(S, n) \cup {n + 1})
      BY <2>1, <2>3, <3>1, ListsOneMore
    <3>3. Lists(f[n + 1], Low(S, n + 1))
      BY <2>2, <2>4, <3>1, <3>2
    <3> QED
      BY <2>1, <3>3
  <2>5. CASE n + 1 \notin S
    <3>1. Low(S, n + 1) = Low(S, n)
      BY <2>3, <2>5, LowIs
    <3>2. Lists(f[n + 1], Low(S, n + 1))
      BY <2>2, <2>3, <2>5, <3>1
    <3> QED
      BY <2>1, <3>2
  <2> QED
    BY <2>4, <2>5
<1> HIDE DEF W
<1>5. Limit \in W
  <2>1. \A n \in 0 .. Limit : n \in W
    BY <1>2, <1>3, <1>4, UpTo
  <2> QED
    BY <1>2, <2>1
<1>6. Low(S, Limit) = S
  BY LowIs
<1> QED
  BY <1>1, <1>5, <1>6 DEF W

\* The cells among the first n of q.
Before(q, n) == {q[j] : j \in {k \in 1 .. Len(q) : k <= n}}

\* A queue of which n cells were popped: it holds what was ready then, and the
\* precedents of a cell are further ahead.
Queue(g, candidates, q, n) ==
  /\ Lists(q, Ready(g, candidates, Before(q, n)))
  /\ \A i \in 1 .. Len(q) : Reads(g, q[i]) \cap candidates
                              \subseteq Before(q, i - 1)

LEMMA BeforeIs ==
  ASSUME NEW q, NEW S, Lists(q, S)
  PROVE  /\ Len(q) \in Nat
         /\ Before(q, 0) = {}
         /\ \A n \in Nat : Before(q, n) \subseteq S
         /\ \A n \in Nat : n >= Len(q) => Before(q, n) = S
         /\ \A n \in Nat, m \in Nat :
              n <= m => Before(q, n) \subseteq Before(q, m)
         /\ \A n \in Nat : n <= Len(q) => Before(q, n) = {q[i] : i \in 1 .. n}
<1>1. Len(q) \in Nat
  BY LenProperties DEF Lists
<1> DEFINE k == Len(q)
<1> HIDE DEF k
<1>2. \A c : c \in S <=> \E i \in 1 .. k : q[i] = c
  BY DEF Lists, k
<1>3. \A n, c : c \in Before(q, n) <=> \E i \in 1 .. k : i <= n /\ q[i] = c
  BY DEF Before, k
<1>4. k \in Nat
  BY <1>1 DEF k
<1>5. Before(q, 0) = {}
  <2>1. \A i \in 1 .. k : ~ (i <= 0)
    BY <1>4
  <2> QED
    BY <1>3, <2>1
<1>6. \A n \in Nat : Before(q, n) \subseteq S
  BY <1>2, <1>3
<1>7. ASSUME NEW n \in Nat, n >= k PROVE Before(q, n) = S
  <2>1. \A i \in 1 .. k : i <= n
    BY <1>4, <1>7
  <2> QED
    BY <1>2, <1>3, <2>1
<1>8. ASSUME NEW n \in Nat, NEW m \in Nat, n <= m
      PROVE  Before(q, n) \subseteq Before(q, m)
  <2>1. \A i \in 1 .. k : i <= n => i <= m
    BY <1>4, <1>8
  <2> QED
    BY <1>3, <2>1
<1>9. ASSUME NEW n \in Nat, n <= k
      PROVE  Before(q, n) = {q[i] : i \in 1 .. n}
  <2>1. \A i : i \in 1 .. k /\ i <= n <=> i \in 1 .. n
    BY <1>4, <1>9
  <2> QED
    BY <1>3, <2>1
<1> QED
  BY <1>1, <1>5, <1>6, <1>7, <1>8, <1>9 DEF k

LEMMA QueueStarts ==
  ASSUME NEW g, NEW candidates \in SUBSET Axis
  PROVE  Queue(g, candidates, Ascending(Ready(g, candidates, {})), 0)
<1> DEFINE S == Ready(g, candidates, {})
           q == Ascending(S)
<1>1. S \in SUBSET Axis
  BY DEF Ready
<1> HIDE DEF S
<1>2. Lists(q, S)
  BY <1>1, AscendingIs
<1> HIDE DEF q
<1>3. Before(q, 0) = {}
  BY <1>2, BeforeIs
<1>4. Lists(q, Ready(g, candidates, Before(q, 0)))
  BY <1>2, <1>3 DEF S
<1>5. ASSUME NEW i \in 1 .. Len(q)
      PROVE  Reads(g, q[i]) \cap candidates \subseteq Before(q, i - 1)
  <2>1. q[i] \in S
    BY <1>2 DEF Lists
  <2> QED
    BY <2>1 DEF S, Ready
<1>6. Queue(g, candidates, q, 0)
  BY <1>4, <1>5 DEF Queue
<1> QED
  BY <1>6 DEF q, S

LEMMA QueuePopped ==
  ASSUME NEW g, NEW candidates \in SUBSET Axis, NEW q, NEW n \in Nat,
         Queue(g, candidates, q, n)
  PROVE  Queue(g, candidates, Popped(g, candidates, q, n + 1), n + 1)
<1> DEFINE S == Ready(g, candidates, Before(q, n))
           N == n + 1
<1>1. Lists(q, S) /\ N \in Nat
  BY DEF Queue
<1>2. Len(q) \in Nat
  BY <1>1, BeforeIs
<1>3. CASE N > Len(q)
  <2>1. Before(q, N) = S /\ Before(q, n) = S
    <3>1. n >= Len(q) /\ N >= Len(q)
      BY <1>2, <1>3
    <3> HIDE DEF S, N
    <3> QED
      BY <1>1, <3>1, BeforeIs
  <2>2. Popped(g, candidates, q, N) = q
    <3> HIDE DEF N
    <3> QED
      BY <1>3 DEF Popped
  <2>3. Queue(g, candidates, q, N)
    <3> HIDE DEF N
    <3> QED
      BY <2>1 DEF Queue
  <2> QED
    BY <2>2, <2>3
<1>4. CASE N <= Len(q)
  <2> DEFINE done == Before(q, N)
             T == Ready(g, candidates, done) \ S
             r == Ascending(T)
             both == q \o r
  <2>1. Before(q, n) \subseteq done /\ done \subseteq S
        /\ done = {q[i] : i \in 1 .. N}
    <3>1. n \in Nat /\ n <= N
      BY <1>1
    <3> HIDE DEF S, N
    <3> QED
      BY <1>1, <1>4, <3>1, BeforeIs
  <2>2. {q[i] : i \in 1 .. Len(q)} = S
    <3> HIDE DEF S
    <3> QED
      BY <1>1 DEF Lists
  <2>3. Popped(g, candidates, q, N) = both
    <3>1. ~ (N > Len(q))
      BY <1>2, <1>4
    <3> HIDE DEF N, S, done
    <3> QED
      BY <2>1, <2>2, <3>1 DEF Popped
  <2>4. T \in SUBSET Axis /\ S \cap T = {}
    BY DEF Ready
  <2>5. S \cup T = Ready(g, candidates, done)
    BY <2>1 DEF Ready
  <2> HIDE DEF S, T, N
  <2>6. Lists(r, T)
    BY <2>4, AscendingIs
  <2> HIDE DEF r
  <2>7. /\ Lists(both, S \cup T)
        /\ Len(both) = Len(q) + Len(r) /\ Len(r) \in Nat
        /\ \A i \in 1 .. Len(q) : both[i] = q[i]
        /\ \A i \in Len(q) + 1 .. Len(q) + Len(r) : both[i] \in T
    <3>1. /\ Lists(q \o r, S \cup T)
          /\ Len(q \o r) = Len(q) + Len(r) /\ Len(q) \in Nat /\ Len(r) \in Nat
          /\ \A i \in 1 .. Len(q) : (q \o r)[i] = q[i]
          /\ \A i \in Len(q) + 1 .. Len(q) + Len(r) :
               /\ i - Len(q) \in 1 .. Len(r)
               /\ (q \o r)[i] = r[i - Len(q)] /\ (q \o r)[i] \in T
      BY <1>1, <2>4, <2>6, ListsJoined, Zenon
    <3> QED
      BY <3>1
  <2> HIDE DEF both, done
  <2>8. ASSUME NEW m \in Nat, m <= Len(q)
        PROVE  Before(both, m) = Before(q, m)
    <3>1. m <= Len(both)
      BY <1>2, <2>7, <2>8
    <3>2. Before(both, m) = {both[i] : i \in 1 .. m}
      BY <2>7, <3>1, BeforeIs
    <3>3. Before(q, m) = {q[i] : i \in 1 .. m}
      BY <1>1, <2>8, BeforeIs
    <3>4. \A i \in 1 .. m : both[i] = q[i]
      BY <1>2, <2>7, <2>8
    <3> QED
      BY <3>2, <3>3, <3>4
  <2>9. Before(both, N) = done
    BY <1>1, <1>4, <2>8 DEF done
  <2>10. Lists(both, Ready(g, candidates, Before(both, N)))
    BY <2>5, <2>7, <2>9
  <2>11. ASSUME NEW i \in 1 .. Len(both)
         PROVE  Reads(g, both[i]) \cap candidates \subseteq Before(both, i - 1)
    <3>1. CASE i <= Len(q)
      <4>1. i \in 1 .. Len(q) /\ i - 1 \in Nat /\ i - 1 <= Len(q)
        BY <1>2, <2>7, <3>1
      <4>2. both[i] = q[i] /\ Before(both, i - 1) = Before(q, i - 1)
        BY <2>7, <2>8, <4>1
      <4> QED
        BY <4>1, <4>2 DEF Queue
    <3>2. CASE ~ (i <= Len(q))
      <4>1. /\ i \in Len(q) + 1 .. Len(q) + Len(r)
            /\ i - 1 \in Nat /\ N <= i - 1
        BY <1>1, <1>2, <1>4, <2>7, <3>2
      <4>2. both[i] \in T
        BY <2>7, <4>1
      <4>3. Reads(g, both[i]) \cap candidates \subseteq done
        BY <4>2 DEF T, Ready
      <4>4. Before(both, N) \subseteq Before(both, i - 1)
        BY <1>1, <2>7, <4>1, BeforeIs
      <4> QED
        BY <2>9, <4>3, <4>4
    <3> QED
      BY <3>1, <3>2
  <2>12. Queue(g, candidates, both, N)
    BY <2>10, <2>11 DEF Queue
  <2> QED
    BY <2>3, <2>12 DEF N
<1>5. N > Len(q) \/ N <= Len(q)
  BY <1>1, <1>2
<1> QED
  BY <1>3, <1>4, <1>5

LEMMA OrderSteps ==
  ASSUME NEW g, NEW candidates,
         NEW V, Ascending(Ready(g, candidates, {})) \in V,
         \A v \in V : \A n \in 1 .. Limit :
           Popped(g, candidates, v, n) \in V
  PROVE  \E f \in [0 .. Limit -> V] :
           /\ f[0] = Ascending(Ready(g, candidates, {}))
           /\ \A n \in 1 .. Limit :
                f[n] = Popped(g, candidates, f[n - 1], n)
           /\ Order(g, candidates) = f[Limit]
<1> DEFINE b == Ascending(Ready(g, candidates, {}))
           k == Limit
           Step(v, n) == Popped(g, candidates, v, n)
<1>1. b \in V /\ \A v \in V : \A n \in 1 .. k : Step(v, n) \in V
  OBVIOUS
<1>2. k \in Nat
  BY LimitAssumption
<1> DEFINE F == [x \in V \X Nat |->
                   IF x[2] \in 1 .. k THEN Step(x[1], x[2]) ELSE b]
           f == CHOOSE f :
                  f = [n \in 0 .. k |->
                         IF n = 0 THEN b ELSE Step(f[n - 1], n)]
<1>3. Order(g, candidates) = f[k]
  BY DEF Order
<1> HIDE DEF b, k, Step
<1>4. F \in [V \X Nat -> V]
  BY <1>1
<1>5. PICK it \in [0 .. k -> V] : Iterates(it, b, F, k)
  <2> HIDE DEF F
  <2> QED
    BY <1>1, <1>2, <1>4, Recursion
<1>6. it = [n \in 0 .. k |-> IF n = 0 THEN b ELSE Step(it[n - 1], n)]
  <2>1. \A n \in 0 .. k : it[n] = IF n = 0 THEN b ELSE F[<<it[n - 1], n>>]
    <3> HIDE DEF F
    <3> QED
      BY <1>5 DEF Iterates
  <2>2. ASSUME NEW n \in 0 .. k, n # 0 PROVE it[n] = Step(it[n - 1], n)
    <3>1. n \in Nat /\ n - 1 \in 0 .. k /\ n \in 1 .. k
      BY <1>2, <2>2
    <3>2. <<it[n - 1], n>> \in V \X Nat
      BY <1>5, <3>1
    <3>3. F[<<it[n - 1], n>>] = Step(it[n - 1], n)
      BY <3>1, <3>2
    <3> HIDE DEF F
    <3> QED
      BY <2>1, <2>2, <3>3
  <2>3. it = [n \in 0 .. k |-> it[n]]
    BY <1>5
  <2>4. \A n \in 0 .. k : it[n] = IF n = 0 THEN b ELSE Step(it[n - 1], n)
    BY <2>1, <2>2
  <2> HIDE DEF F
  <2> QED
    BY <2>3, <2>4
<1>7. f = [n \in 0 .. k |-> IF n = 0 THEN b ELSE Step(f[n - 1], n)]
  <2> HIDE DEF F
  <2> QED
    BY <1>6
<1> HIDE DEF f, F
<1>8. f[0] = b
  BY <1>2, <1>7
<1>9. ASSUME NEW n \in 1 .. k PROVE f[n] = Step(f[n - 1], n)
  <2>1. n \in 0 .. k /\ n # 0
    BY <1>2
  <2> QED
    BY <1>7, <2>1, Zenon
<1> DEFINE W == {i \in 0 .. k : f[i] \in V}
<1>10. \A n \in 0 .. k : n \in W
  <2>1. 0 \in W
    BY <1>1, <1>2, <1>8
  <2>2. ASSUME NEW n \in 0 .. k - 1, n \in W PROVE n + 1 \in W
    <3>1. n + 1 \in 1 .. k /\ (n + 1) - 1 = n
      BY <1>2
    <3>2. f[n + 1] = Step(f[n], n + 1)
      BY <1>9, <3>1
    <3>3. f[n] \in V
      BY <2>2
    <3>4. f[n + 1] \in V
      BY <1>1, <3>1, <3>2, <3>3
    <3> QED
      BY <1>2, <3>1, <3>4
  <2> HIDE DEF W
  <2> QED
    BY <1>2, <2>1, <2>2, UpTo
<1>11. f \in [0 .. k -> V]
  <2>1. f = [n \in 0 .. k |-> f[n]]
    BY <1>7
  <2> QED
    BY <1>10, <2>1
<1>12. \E it2 \in [0 .. k -> V] :
         /\ it2[0] = b
         /\ \A n \in 1 .. k : it2[n] = Step(it2[n - 1], n)
         /\ Order(g, candidates) = it2[k]
  BY <1>3, <1>8, <1>9, <1>11
<1> QED
  BY <1>12, Zenon DEF b, k, Step

\* A queue is not longer than the grid.
LEMMA ListsShort ==
  ASSUME NEW q, NEW S, Lists(q, S)
  PROVE  Len(q) \in 0 .. Limit
<1>1. q \in Seq(Axis)
  BY DEF Lists
<1>2. Len(q) \in Nat /\ q \in [1 .. Len(q) -> Axis]
  BY <1>1, LenProperties
<1>3. /\ IsFiniteSet(Axis) /\ Cardinality(Axis) = Limit
      /\ IsFiniteSet(1 .. Len(q)) /\ Cardinality(1 .. Len(q)) = Len(q)
  <2>1. 1 \in Int /\ Limit \in Int /\ Len(q) \in Int
    BY <1>2, LimitAssumption
  <2>2. IsFiniteSet(1 .. Limit) /\ Cardinality(1 .. Limit) = Limit
    BY <2>1, LimitAssumption, FS_Interval
  <2> DEFINE k == Len(q)
  <2>3. k \in Nat /\ k \in Int
    BY <1>2, <2>1
  <2> HIDE DEF k
  <2>4. IsFiniteSet(1 .. k) /\ Cardinality(1 .. k) = k
    BY <2>1, <2>3, FS_Interval
  <2> QED
    BY <2>2, <2>4 DEF Axis, k
<1>4. ~ (Limit < Len(q))
  <2> SUFFICES ASSUME Limit < Len(q) PROVE FALSE
    OBVIOUS
  <2>1. Cardinality(Axis) < Cardinality(1 .. Len(q))
    BY <1>3
  <2>2. PICK i \in 1 .. Len(q), j \in 1 .. Len(q) : i # j /\ q[i] = q[j]
    BY <1>2, <1>3, <2>1, FS_PigeonHole
  <2> QED
    BY <2>2 DEF Lists
<1> QED
  BY <1>2, <1>4, LimitAssumption

\* q lists S, each cell after those of the candidates that it reads.
Ordered(g, candidates, q, S) ==
  /\ Lists(q, S) /\ S \subseteq candidates
  /\ Len(q) \in 0 .. Limit
  /\ S = Ready(g, candidates, S)
  /\ \A i \in 1 .. Len(q) : Reads(g, q[i]) \cap candidates
                              \subseteq Before(q, i - 1)

\* Kahn's queue stops with every cell whose precedents are in it.
LEMMA OrderIs ==
  ASSUME NEW g, NEW candidates \in SUBSET Axis
  PROVE  \E S : Ordered(g, candidates, Order(g, candidates), S)
<1> DEFINE V == Seq(Axis)
           b == Ascending(Ready(g, candidates, {}))
<1>1. \A done : Ready(g, candidates, done) \in SUBSET Axis
  BY DEF Ready
<1>2. b \in V
  <2>1. Lists(b, Ready(g, candidates, {}))
    BY <1>1, AscendingIs
  <2> QED
    BY <2>1 DEF Lists
<1>3. ASSUME NEW v \in V, NEW n \in 1 .. Limit
      PROVE  Popped(g, candidates, v, n) \in V
  <2> DEFINE T == Ready(g, candidates, {v[i] : i \in 1 .. n})
                    \ {v[i] : i \in 1 .. Len(v)}
             both == v \o Ascending(T)
  <2>1. T \in SUBSET Axis
    BY <1>1
  <2>2. Popped(g, candidates, v, n) = v
        \/ Popped(g, candidates, v, n) = both
    BY Zenon DEF Popped
  <2> HIDE DEF T
  <2>3. Lists(Ascending(T), T)
    BY <2>1, AscendingIs
  <2>4. Ascending(T) \in Seq(Axis)
    BY <2>3 DEF Lists
  <2>5. both \in Seq(Axis)
    BY <2>4, ConcatProperties
  <2> HIDE DEF both
  <2> QED
    BY <2>2, <2>5
<1> HIDE DEF V
<1>4. PICK f \in [0 .. Limit -> V] :
        /\ f[0] = b
        /\ \A n \in 1 .. Limit : f[n] = Popped(g, candidates, f[n - 1], n)
        /\ Order(g, candidates) = f[Limit]
  BY <1>2, <1>3, OrderSteps
<1>5. Limit \in Nat
  BY LimitAssumption
<1> DEFINE W == {n \in 0 .. Limit : Queue(g, candidates, f[n], n)}
<1>6. 0 \in W
  <2>1. Queue(g, candidates, b, 0)
    BY QueueStarts
  <2> QED
    BY <1>4, <1>5, <2>1
<1>7. ASSUME NEW n \in 0 .. Limit - 1, n \in W PROVE n + 1 \in W
  <2>1. n \in Nat /\ n + 1 \in 1 .. Limit /\ (n + 1) - 1 = n
    BY <1>5
  <2>2. f[n + 1] = Popped(g, candidates, f[n], n + 1)
    BY <1>4, <2>1
  <2>3. Queue(g, candidates, f[n], n)
    BY <1>7
  <2>4. Queue(g, candidates, Popped(g, candidates, f[n], n + 1), n + 1)
    BY <2>1, <2>3, QueuePopped
  <2> QED
    BY <2>1, <2>2, <2>4
<1> HIDE DEF W, b
<1>8. Limit \in W
  <2>1. \A n \in 0 .. Limit : n \in W
    BY <1>5, <1>6, <1>7, UpTo
  <2> QED
    BY <1>5, <2>1
<1> DEFINE q == f[Limit]
           S == Ready(g, candidates, Before(q, Limit))
<1>9. Queue(g, candidates, q, Limit)
  BY <1>8 DEF W
<1>10. q = Order(g, candidates)
  BY <1>4
<1> HIDE DEF q
<1>11. Lists(q, S) /\ S \subseteq candidates
  BY <1>9 DEF Queue, Ready
<1> HIDE DEF S
<1>12. Len(q) \in 0 .. Limit
  BY <1>11, ListsShort
<1>13. Before(q, Limit) = S
  BY <1>5, <1>11, <1>12, BeforeIs
<1>14. S = Ready(g, candidates, S)
  BY <1>13 DEF S
<1>15. Ordered(g, candidates, q, S)
  BY <1>9, <1>11, <1>12, <1>14 DEF Ordered, Queue
<1> QED
  BY <1>10, <1>15

\* What cycle_nodes looks at.
Within(g, nodes) ==
  [c \in Axis |-> IF c \in nodes THEN Reads(g, c) \cap nodes ELSE {}]

LEMMA CycleNodesAre ==
  ASSUME NEW g, NEW nodes \in SUBSET Axis
  PROVE  /\ Within(g, nodes) \in Nexts
         /\ CycleNodes(g, nodes) \in SUBSET nodes
         /\ \A c \in nodes :
              c \in CycleNodes(g, nodes) <=>
                c \in Reached(Within(g, nodes), Within(g, nodes)[c])
<1>1. Within(g, nodes) \in Nexts
  BY DEF Within, Nexts
<1>2. CycleNodes(g, nodes)
        = {c \in nodes : c \in Reached(Within(g, nodes), Within(g, nodes)[c])}
  BY Zenon DEF CycleNodes, Within
<1> QED
  BY <1>1, <1>2

\* Without the cells on cycles, Kahn's queue gets to every cell.
LEMMA OrderComplete ==
  ASSUME NEW g, NEW nodes \in SUBSET Axis, NEW q, NEW S,
         Ordered(g, nodes \ CycleNodes(g, nodes), q, S)
  PROVE  S = nodes \ CycleNodes(g, nodes)
<1> DEFINE candidates == nodes \ CycleNodes(g, nodes)
           R == candidates \ S
           next == Within(g, nodes)
<1>1. S \subseteq candidates /\ S = Ready(g, candidates, S)
  BY DEF Ordered
<1>2. SUFFICES ASSUME R # {} PROVE FALSE
  BY <1>1
<1>3. next \in Nexts /\ R \in SUBSET Axis
  BY CycleNodesAre
<1>4. ASSUME NEW c \in R PROVE next[c] \cap R # {}
  <2>1. c \in candidates /\ c \notin Ready(g, candidates, S)
    BY <1>1
  <2>2. PICK d \in Reads(g, c) \cap candidates : d \notin S
    BY <2>1 DEF Ready
  <2>3. d \in R /\ d \in next[c]
    BY <2>1, <2>2 DEF Within
  <2> QED
    BY <2>3
<1> HIDE DEF next, R
<1>5. PICK c \in R : c \in Reached(next, next[c])
  BY <1>2, <1>3, <1>4, CycleInside
<1>6. c \in nodes /\ c \notin CycleNodes(g, nodes)
  BY DEF R
<1> QED
  BY <1>5, <1>6, CycleNodesAre DEF next

-----------------------------------------------------------------------------
(* Types.                                                                  *)

Values == Nat \cup {Blank, Circular, RefError}
Cells == [raw : RawTexts, format : Nat, value : Values]
Engines ==
  [cells : [Axis -> Cells], sizes : [Axis -> Nat], precedents : Nexts,
   dependents : Nexts, spans : Nexts, dynamic : Nexts]

LEMMA RawIs ==
  ASSUME NEW raw \in RawTexts
  PROVE  /\ raw = [kind |-> raw.kind, lo |-> raw.lo, hi |-> raw.hi]
         /\ raw.kind \in {"empty", "absent", "error", "number", "ref",
                          "indirect", "sum"}
         /\ raw.kind = "empty" => raw = Empty
         /\ raw.kind = "absent" => raw = Absent
         /\ raw.kind = "error" => raw = RefErrorRaw
         /\ raw.kind = "number" => raw.lo \in Nat /\ raw.hi = 0
         /\ raw.kind \in {"ref", "indirect"} => raw.lo \in Axis /\ raw.hi = 0
         /\ raw.kind = "sum" =>
              raw.lo \in Axis /\ raw.hi \in Axis /\ raw.lo <= raw.hi
BY DEF RawTexts, Empty, Absent, RefErrorRaw, Raw

LEMMA PlainRaws ==
  /\ Empty \in RawTexts /\ Absent \in RawTexts /\ RefErrorRaw \in RawTexts
  /\ Empty # Absent /\ Empty # RefErrorRaw /\ Absent # RefErrorRaw
  /\ \A raw \in {Empty, Absent} :
       References(raw) = {} /\ Spanned(raw) = {} /\ ~ IsFormula(raw)
BY DEF RawTexts, Empty, Absent, RefErrorRaw, Raw, References, Spanned, IsFormula

LEMMA ReadsOfRaw ==
  ASSUME NEW raw \in RawTexts
  PROVE  References(raw) \in SUBSET Axis /\ Spanned(raw) \in SUBSET Axis
<1>1. References(raw) \in SUBSET Axis
  BY RawIs DEF References
<1>2. CASE raw.kind = "sum"
  <2>1. raw.lo \in Axis /\ raw.hi \in Axis
    BY <1>2, RawIs
  <2>2. raw.lo .. raw.hi \subseteq Axis
    BY <2>1, LimitAssumption DEF Axis
  <2> QED
    BY <1>1, <1>2, <2>2 DEF Spanned
<1>3. CASE raw.kind # "sum"
  BY <1>1, <1>3 DEF Spanned
<1> QED
  BY <1>2, <1>3

LEMMA ParseCellType ==
  ASSUME NEW raw \in RawTexts, NEW format \in Nat
  PROVE  /\ ParseCell(raw, format) \in Cells
         /\ ParseCell(raw, format).raw = raw
         /\ ParseCell(raw, format).format = format
         /\ NoCell \in Cells /\ NoCell.raw = Absent /\ NoCell.format = 0
<1>1. ASSUME NEW r \in RawTexts, NEW m \in Nat
      PROVE  ParseCell(r, m) \in Cells
  <2>1. (IF r.kind = "number" THEN r.lo ELSE Blank) \in Values
    BY RawIs DEF Values
  <2> HIDE DEF Values
  <2> QED
    BY <2>1 DEF ParseCell, Cells
<1>2. NoCell \in Cells
  BY <1>1, PlainRaws DEF NoCell
<1> QED
  BY <1>1, <1>2 DEF ParseCell, NoCell

LEMMA EngineIs ==
  ASSUME NEW g \in Engines
  PROVE  /\ g.cells \in [Axis -> Cells] /\ g.sizes \in [Axis -> Nat]
         /\ g.precedents \in Nexts /\ g.dependents \in Nexts
         /\ g.spans \in Nexts /\ g.dynamic \in Nexts
         /\ \A c \in Axis :
              /\ g.cells[c] \in Cells /\ g.cells[c].raw \in RawTexts
              /\ g.cells[c].format \in Nat /\ g.cells[c].value \in Values
              /\ g.sizes[c] \in Nat /\ Reads(g, c) \in SUBSET Axis
<1>1. /\ g.cells \in [Axis -> Cells] /\ g.sizes \in [Axis -> Nat]
      /\ g.precedents \in Nexts /\ g.dependents \in Nexts
      /\ g.spans \in Nexts /\ g.dynamic \in Nexts
  BY DEF Engines
<1>2. \A c \in Axis : g.cells[c] \in Cells /\ g.sizes[c] \in Nat
  BY <1>1
<1>3. \A x \in Cells : x.raw \in RawTexts /\ x.format \in Nat
                         /\ x.value \in Values
  BY DEF Cells
<1>4. \A c \in Axis : Reads(g, c) \in SUBSET Axis
  BY <1>1 DEF Reads, Nexts
<1> QED
  BY <1>1, <1>2, <1>3, <1>4

-----------------------------------------------------------------------------
(* Evaluation keeps everything but values and dynamic edges.               *)

LEMMA TotalSteps ==
  ASSUME NEW values,
         NEW V, 0 \in V,
         \A v \in V : \A n \in 1 .. Limit :
           (IF n \in DOMAIN values /\ values[n] # Blank THEN v + values[n]
                ELSE v) \in V
  PROVE  \E f \in [0 .. Limit -> V] :
           /\ f[0] = 0
           /\ \A n \in 1 .. Limit :
                f[n] = (IF n \in DOMAIN values /\ values[n] # Blank
                          THEN f[n - 1] + values[n] ELSE f[n - 1])
           /\ Total(values) = f[Limit]
<1> DEFINE b == 0
           k == Limit
           Step(v, n) == (IF n \in DOMAIN values /\ values[n] # Blank
                            THEN v + values[n] ELSE v)
<1>1. b \in V /\ \A v \in V : \A n \in 1 .. k : Step(v, n) \in V
  OBVIOUS
<1>2. k \in Nat
  BY LimitAssumption
<1> DEFINE F == [x \in V \X Nat |->
                   IF x[2] \in 1 .. k THEN Step(x[1], x[2]) ELSE b]
           f == CHOOSE f :
                  f = [n \in 0 .. k |->
                         IF n = 0 THEN b ELSE Step(f[n - 1], n)]
<1>3. Total(values) = f[k]
  BY DEF Total
<1> HIDE DEF b, k, Step
<1>4. F \in [V \X Nat -> V]
  BY <1>1
<1>5. PICK it \in [0 .. k -> V] : Iterates(it, b, F, k)
  <2> HIDE DEF F
  <2> QED
    BY <1>1, <1>2, <1>4, Recursion
<1>6. it = [n \in 0 .. k |-> IF n = 0 THEN b ELSE Step(it[n - 1], n)]
  <2>1. \A n \in 0 .. k : it[n] = IF n = 0 THEN b ELSE F[<<it[n - 1], n>>]
    <3> HIDE DEF F
    <3> QED
      BY <1>5 DEF Iterates
  <2>2. ASSUME NEW n \in 0 .. k, n # 0 PROVE it[n] = Step(it[n - 1], n)
    <3>1. n \in Nat /\ n - 1 \in 0 .. k /\ n \in 1 .. k
      BY <1>2, <2>2
    <3>2. <<it[n - 1], n>> \in V \X Nat
      BY <1>5, <3>1
    <3>3. F[<<it[n - 1], n>>] = Step(it[n - 1], n)
      BY <3>1, <3>2
    <3> HIDE DEF F
    <3> QED
      BY <2>1, <2>2, <3>3
  <2>3. it = [n \in 0 .. k |-> it[n]]
    BY <1>5
  <2>4. \A n \in 0 .. k : it[n] = IF n = 0 THEN b ELSE Step(it[n - 1], n)
    BY <2>1, <2>2
  <2> HIDE DEF F
  <2> QED
    BY <2>3, <2>4
<1>7. f = [n \in 0 .. k |-> IF n = 0 THEN b ELSE Step(f[n - 1], n)]
  <2> HIDE DEF F
  <2> QED
    BY <1>6
<1> HIDE DEF f, F
<1>8. f[0] = b
  BY <1>2, <1>7
<1>9. ASSUME NEW n \in 1 .. k PROVE f[n] = Step(f[n - 1], n)
  <2>1. n \in 0 .. k /\ n # 0
    BY <1>2
  <2> QED
    BY <1>7, <2>1, Zenon
<1> DEFINE W == {i \in 0 .. k : f[i] \in V}
<1>10. \A n \in 0 .. k : n \in W
  <2>1. 0 \in W
    BY <1>1, <1>2, <1>8
  <2>2. ASSUME NEW n \in 0 .. k - 1, n \in W PROVE n + 1 \in W
    <3>1. n + 1 \in 1 .. k /\ (n + 1) - 1 = n
      BY <1>2
    <3>2. f[n + 1] = Step(f[n], n + 1)
      BY <1>9, <3>1
    <3>3. f[n] \in V
      BY <2>2
    <3>4. f[n + 1] \in V
      BY <1>1, <3>1, <3>2, <3>3
    <3> QED
      BY <1>2, <3>1, <3>4
  <2> HIDE DEF W
  <2> QED
    BY <1>2, <2>1, <2>2, UpTo
<1>11. f \in [0 .. k -> V]
  <2>1. f = [n \in 0 .. k |-> f[n]]
    BY <1>7
  <2> QED
    BY <1>10, <2>1
<1>12. \E it2 \in [0 .. k -> V] :
         /\ it2[0] = b
         /\ \A n \in 1 .. k : it2[n] = Step(it2[n - 1], n)
         /\ Total(values) = it2[k]
  BY <1>3, <1>8, <1>9, <1>11
<1> QED
  BY <1>12, Zenon DEF b, k, Step

LEMMA TotalType ==
  ASSUME NEW S \in SUBSET Axis, NEW values \in [S -> Nat \cup {Blank}]
  PROVE  Total(values) \in Nat
<1>1. ASSUME NEW v \in Nat, NEW n \in 1 .. Limit
      PROVE  (IF n \in DOMAIN values /\ values[n] # Blank THEN v + values[n]
              ELSE v) \in Nat
  <2>1. n \in S /\ values[n] # Blank => values[n] \in Nat
    OBVIOUS
  <2> QED
    BY <2>1
<1>2. PICK f \in [0 .. Limit -> Nat] : Total(values) = f[Limit]
  BY <1>1, TotalSteps
<1> QED
  BY <1>2, LimitAssumption

\* The errors of a span, and the first of them.
SpanErrors(g, raw) == {c \in Spanned(raw) : IsError(g.cells[c].value)}

FirstOf(S) == CHOOSE c \in S : \A d \in S : c <= d

LEMMA FirstOfIs ==
  ASSUME NEW S \in SUBSET Axis, S # {}
  PROVE  FirstOf(S) \in S /\ \A d \in S : FirstOf(S) <= d
<1>1. S \in SUBSET Nat
  BY LimitAssumption DEF Axis
<1>2. \E c \in S : \A d \in S : c <= d
  BY <1>1, Smallest
<1> QED
  BY <1>2 DEF FirstOf

\* The value of a sum, by what its span holds.
ValueOfSum(g, raw) ==
  IF SpanErrors(g, raw) = {}
    THEN Total([c \in Spanned(raw) |-> g.cells[c].value])
  ELSE g.cells[FirstOf(SpanErrors(g, raw))].value

LEMMA ValueIs ==
  ASSUME NEW g, NEW raw
  PROVE  /\ raw.kind = "ref" => Value(g, raw) = g.cells[raw.lo].value
         /\ raw.kind = "sum" => Value(g, raw) = ValueOfSum(g, raw)
         /\ raw.kind = "indirect" =>
              Value(g, raw)
                = IF IsError(g.cells[raw.lo].value) THEN g.cells[raw.lo].value
                  ELSE IF g.cells[raw.lo].value \in Axis
                    THEN g.cells[g.cells[raw.lo].value].value
                  ELSE RefError
         /\ raw.kind = "error" => Value(g, raw) = RefError
         /\ raw.kind = "number" => Value(g, raw) = raw.lo
         /\ raw.kind \in {"empty", "absent"} => Value(g, raw) = Blank
<1>1. CASE raw.kind = "sum"
  BY <1>1 DEF Value, ValueOfSum, SpanErrors, FirstOf
<1>2. CASE raw.kind # "sum"
  BY <1>2 DEF Value
<1> QED
  BY <1>1, <1>2

LEMMA ValueType ==
  ASSUME NEW g \in Engines, NEW raw \in RawTexts
  PROVE  Value(g, raw) \in Values
<1>1. \A c \in Axis : g.cells[c].value \in Values
  BY EngineIs
<1>2. CASE raw.kind = "sum"
  <2>1. Spanned(raw) \in SUBSET Axis
    BY ReadsOfRaw
  <2>2. SpanErrors(g, raw) \in SUBSET Axis
    BY <2>1 DEF SpanErrors
  <2>3. CASE SpanErrors(g, raw) = {}
    <3> DEFINE values == [c \in Spanned(raw) |-> g.cells[c].value]
    <3>1. ASSUME NEW c \in Spanned(raw)
          PROVE  g.cells[c].value \in Nat \cup {Blank}
      <4>1. ~ IsError(g.cells[c].value)
        BY <2>3 DEF SpanErrors
      <4> QED
        BY <1>1, <2>1, <4>1 DEF IsError, Values
    <3>2. values \in [Spanned(raw) -> Nat \cup {Blank}]
      BY <3>1
    <3> HIDE DEF values
    <3>3. Total(values) \in Nat
      BY <2>1, <3>2, TotalType
    <3>4. Value(g, raw) = Total(values)
      BY <1>2, <2>3, ValueIs DEF ValueOfSum, values
    <3> QED
      BY <3>3, <3>4 DEF Values
  <2>4. CASE SpanErrors(g, raw) # {}
    <3>1. FirstOf(SpanErrors(g, raw)) \in Axis
      BY <2>2, <2>4, FirstOfIs
    <3>2. Value(g, raw) = g.cells[FirstOf(SpanErrors(g, raw))].value
      BY <1>2, <2>4, ValueIs DEF ValueOfSum
    <3> QED
      BY <1>1, <3>1, <3>2
  <2> QED
    BY <2>3, <2>4
<1>3. CASE raw.kind = "ref"
  BY <1>1, <1>3, RawIs, ValueIs
<1>4. CASE raw.kind = "indirect"
  <2>1. raw.lo \in Axis
    BY <1>4, RawIs
  <2>2. /\ g.cells[raw.lo].value \in Values
        /\ g.cells[raw.lo].value \in Axis
             => g.cells[g.cells[raw.lo].value].value \in Values
        /\ RefError \in Values
    BY <1>1, <2>1 DEF Values
  <2> QED
    BY <1>4, <2>2, ValueIs, Zenon
<1>5. CASE raw.kind \in {"error", "number", "empty", "absent"}
  <2>1. Value(g, raw) \in {RefError, raw.lo, Blank}
        /\ (Value(g, raw) = raw.lo => raw.kind = "number" \/ raw.lo = 0)
    BY <1>5, RawIs, ValueIs DEF Empty, Absent, RefErrorRaw, Raw, RefError, Blank
  <2>2. raw.kind = "number" => raw.lo \in Nat
    BY RawIs
  <2> QED
    BY <2>1, <2>2 DEF Values
<1> QED
  BY <1>2, <1>3, <1>4, <1>5, RawIs

\* h is g with other values and other dynamic edges.
Kept(g, h) ==
  /\ h \in Engines
  /\ h.sizes = g.sizes /\ h.precedents = g.precedents
  /\ h.dependents = g.dependents /\ h.spans = g.spans
  /\ \A c \in Axis :
       h.cells[c].raw = g.cells[c].raw /\ h.cells[c].format = g.cells[c].format

\* What evaluating cell c does.
Evaluation(g, c, h) ==
  /\ Kept(g, h)
  /\ \A d \in Axis \ {c} :
       h.cells[d] = g.cells[d] /\ h.dynamic[d] = g.dynamic[d]
  /\ IF IsFormula(g.cells[c].raw)
       THEN /\ h.cells[c].value = Value(g, g.cells[c].raw)
            /\ h.dynamic[c] = RecordedRange(g, g.cells[c].raw)
     ELSE h = g

LEMMA KeptSame ==
  ASSUME NEW g \in Engines
  PROVE  Kept(g, g)
BY DEF Kept

LEMMA KeptFurther ==
  ASSUME NEW g, NEW h, NEW j, Kept(g, h), Kept(h, j)
  PROVE  Kept(g, j)
BY DEF Kept

LEMMA EvaluateCellIs ==
  ASSUME NEW g \in Engines, NEW c \in Axis
  PROVE  Evaluation(g, c, EvaluateCell(g, c))
<1> DEFINE raw == g.cells[c].raw
           h == EvaluateCell(g, c)
<1>1. raw \in RawTexts
  BY EngineIs
<1>2. CASE ~ IsFormula(raw)
  <2>1. h = g
    BY <1>2 DEF EvaluateCell
  <2> QED
    BY <1>2, <2>1, KeptSame DEF Evaluation
<1>3. CASE IsFormula(raw)
  <2> DEFINE v == Value(g, raw)
             range == RecordedRange(g, raw)
             cells == [g.cells EXCEPT ![c].value = v]
             dynamic == [g.dynamic EXCEPT ![c] = range]
  <2>1. h = [g EXCEPT !.dynamic = dynamic, !.cells = cells]
    BY <1>3 DEF EvaluateCell
  <2>2. v \in Values
    BY <1>1, ValueType
  <2>3. range \in SUBSET Axis
    BY DEF RecordedRange
  <2> HIDE DEF v, range
  <2>4. /\ g.cells \in [Axis -> Cells] /\ g.dynamic \in [Axis -> SUBSET Axis]
        /\ g.cells[c] \in Cells
    BY EngineIs DEF Nexts
  <2>5. /\ [g.cells[c] EXCEPT !.value = v] \in Cells
        /\ [g.cells[c] EXCEPT !.value = v].value = v
        /\ [g.cells[c] EXCEPT !.value = v].raw = raw
        /\ [g.cells[c] EXCEPT !.value = v].format = g.cells[c].format
    <3> HIDE DEF Values, RawTexts
    <3> QED
      BY <2>2, <2>4 DEF Cells
  <2>6. /\ cells \in [Axis -> Cells] /\ cells[c].value = v
        /\ cells[c].raw = raw /\ cells[c].format = g.cells[c].format
        /\ \A d \in Axis \ {c} : cells[d] = g.cells[d]
    BY <2>4, <2>5
  <2>7. /\ dynamic \in Nexts /\ dynamic[c] = range
        /\ \A d \in Axis \ {c} : dynamic[d] = g.dynamic[d]
    BY <2>3, <2>4 DEF Nexts
  <2> HIDE DEF cells, dynamic, h, raw
  <2>8. /\ h \in Engines /\ h.cells = cells /\ h.dynamic = dynamic
        /\ h.sizes = g.sizes /\ h.precedents = g.precedents
        /\ h.dependents = g.dependents /\ h.spans = g.spans
    BY <2>1, <2>6, <2>7 DEF Engines
  <2>9. Kept(g, h)
    BY <2>6, <2>8 DEF Kept, raw
  <2>10. Evaluation(g, c, h)
    BY <1>3, <2>6, <2>7, <2>8, <2>9 DEF Evaluation, v, range, raw
  <2> QED
    BY <2>10 DEF h
<1> QED
  BY <1>2, <1>3

\* What flagging the cells on cycles does.
Flagging(g, circular, h) ==
  /\ Kept(g, h) /\ h.dynamic = g.dynamic
  /\ \A c \in Axis :
       h.cells[c].value =
         IF c \in circular /\ Occupied(g.cells[c]) THEN Circular
         ELSE g.cells[c].value

LEMMA FlagIs ==
  ASSUME NEW g \in Engines, NEW circular
  PROVE  Flagging(g, circular, Flag(g, circular))
<1> DEFINE flagged(c) == IF c \in circular /\ Occupied(g.cells[c])
                           THEN [g.cells[c] EXCEPT !.value = Circular]
                         ELSE g.cells[c]
           cells == [c \in Axis |-> flagged(c)]
           h == Flag(g, circular)
<1>1. h = [g EXCEPT !.cells = cells]
  BY Zenon DEF Flag
<1>2. Circular \in Values
  BY DEF Values
<1>3. ASSUME NEW c \in Axis
      PROVE  /\ flagged(c) \in Cells
             /\ flagged(c).raw = g.cells[c].raw
             /\ flagged(c).format = g.cells[c].format
             /\ flagged(c).value
                  = IF c \in circular /\ Occupied(g.cells[c]) THEN Circular
                    ELSE g.cells[c].value
  <2>1. g.cells[c] \in Cells
    BY EngineIs
  <2>2. /\ [g.cells[c] EXCEPT !.value = Circular] \in Cells
        /\ [g.cells[c] EXCEPT !.value = Circular].value = Circular
        /\ [g.cells[c] EXCEPT !.value = Circular].raw = g.cells[c].raw
        /\ [g.cells[c] EXCEPT !.value = Circular].format = g.cells[c].format
    BY <1>2, <2>1 DEF Cells
  <2> QED
    BY <2>1, <2>2
<1> HIDE DEF flagged
<1>4. cells \in [Axis -> Cells] /\ \A c \in Axis : cells[c] = flagged(c)
  BY <1>3
<1> HIDE DEF cells, h
<1>5. /\ h \in Engines /\ h.cells = cells /\ h.dynamic = g.dynamic
      /\ h.sizes = g.sizes /\ h.precedents = g.precedents
      /\ h.dependents = g.dependents /\ h.spans = g.spans
  BY <1>1, <1>4 DEF Engines
<1>6. Flagging(g, circular, h)
  BY <1>3, <1>4, <1>5 DEF Flagging, Kept
<1> QED
  BY <1>6 DEF h

\* The cells of order are evaluated one after the other, with engines of V.
EvaluatedThrough(g, order, V) ==
  \E f \in [0 .. Len(order) -> V] :
    /\ f[0] = g
    /\ \A n \in 1 .. Len(order) : f[n] = EvaluateCell(f[n - 1], order[n])
    /\ Evaluated(g, order) = f[Len(order)]

LEMMA EvaluatedSteps ==
  ASSUME NEW g, NEW order \in Seq(Axis),
         NEW V, g \in V,
         \A v \in V : \A n \in 1 .. Len(order) :
           EvaluateCell(v, order[n]) \in V
  PROVE  EvaluatedThrough(g, order, V)
<1> DEFINE b == g
           k == Len(order)
           Step(v, n) == EvaluateCell(v, order[n])
<1>1. b \in V /\ \A v \in V : \A n \in 1 .. k : Step(v, n) \in V
  OBVIOUS
<1>2. k \in Nat
  BY LenProperties
<1> DEFINE F == [x \in V \X Nat |->
                   IF x[2] \in 1 .. k THEN Step(x[1], x[2]) ELSE b]
           f == CHOOSE f :
                  f = [n \in 0 .. k |->
                         IF n = 0 THEN b ELSE Step(f[n - 1], n)]
<1>3. Evaluated(g, order) = f[k]
  BY DEF Evaluated
<1> HIDE DEF b, k, Step
<1>4. F \in [V \X Nat -> V]
  BY <1>1
<1>5. PICK it \in [0 .. k -> V] : Iterates(it, b, F, k)
  <2> HIDE DEF F
  <2> QED
    BY <1>1, <1>2, <1>4, Recursion
<1>6. it = [n \in 0 .. k |-> IF n = 0 THEN b ELSE Step(it[n - 1], n)]
  <2>1. \A n \in 0 .. k : it[n] = IF n = 0 THEN b ELSE F[<<it[n - 1], n>>]
    <3> HIDE DEF F
    <3> QED
      BY <1>5 DEF Iterates
  <2>2. ASSUME NEW n \in 0 .. k, n # 0 PROVE it[n] = Step(it[n - 1], n)
    <3>1. n \in Nat /\ n - 1 \in 0 .. k /\ n \in 1 .. k
      BY <1>2, <2>2
    <3>2. <<it[n - 1], n>> \in V \X Nat
      BY <1>5, <3>1
    <3>3. F[<<it[n - 1], n>>] = Step(it[n - 1], n)
      BY <3>1, <3>2
    <3> HIDE DEF F
    <3> QED
      BY <2>1, <2>2, <3>3
  <2>3. it = [n \in 0 .. k |-> it[n]]
    BY <1>5
  <2>4. \A n \in 0 .. k : it[n] = IF n = 0 THEN b ELSE Step(it[n - 1], n)
    BY <2>1, <2>2
  <2> HIDE DEF F
  <2> QED
    BY <2>3, <2>4
<1>7. f = [n \in 0 .. k |-> IF n = 0 THEN b ELSE Step(f[n - 1], n)]
  <2> HIDE DEF F
  <2> QED
    BY <1>6
<1> HIDE DEF f, F
<1>8. f[0] = b
  BY <1>2, <1>7
<1>9. ASSUME NEW n \in 1 .. k PROVE f[n] = Step(f[n - 1], n)
  <2>1. n \in 0 .. k /\ n # 0
    BY <1>2
  <2> QED
    BY <1>7, <2>1, Zenon
<1> DEFINE W == {i \in 0 .. k : f[i] \in V}
<1>10. \A n \in 0 .. k : n \in W
  <2>1. 0 \in W
    BY <1>1, <1>2, <1>8
  <2>2. ASSUME NEW n \in 0 .. k - 1, n \in W PROVE n + 1 \in W
    <3>1. n + 1 \in 1 .. k /\ (n + 1) - 1 = n
      BY <1>2
    <3>2. f[n + 1] = Step(f[n], n + 1)
      BY <1>9, <3>1
    <3>3. f[n] \in V
      BY <2>2
    <3>4. f[n + 1] \in V
      BY <1>1, <3>1, <3>2, <3>3
    <3> QED
      BY <1>2, <3>1, <3>4
  <2> HIDE DEF W
  <2> QED
    BY <1>2, <2>1, <2>2, UpTo
<1>11. f \in [0 .. k -> V]
  <2>1. f = [n \in 0 .. k |-> f[n]]
    BY <1>7
  <2> QED
    BY <1>10, <2>1
<1>12. \E it2 \in [0 .. k -> V] :
         /\ it2[0] = b
         /\ \A n \in 1 .. k : it2[n] = Step(it2[n - 1], n)
         /\ Evaluated(g, order) = it2[k]
  BY <1>3, <1>8, <1>9, <1>11
<1> QED
  BY <1>12, Zenon DEF b, k, Step, EvaluatedThrough

LEMMA EvaluatedIs ==
  ASSUME NEW g \in Engines, NEW order \in Seq(Axis)
  PROVE  \E f \in [0 .. Len(order) -> Engines] :
           /\ f[0] = g
           /\ \A n \in 1 .. Len(order) : Evaluation(f[n - 1], order[n], f[n])
           /\ Evaluated(g, order) = f[Len(order)]
<1>1. \A n \in 1 .. Len(order) : order[n] \in Axis
  BY ElementOfSeq
<1>2. \A v \in Engines : \A n \in 1 .. Len(order) :
        EvaluateCell(v, order[n]) \in Engines
  BY <1>1, EvaluateCellIs DEF Evaluation, Kept
<1>3. PICK f \in [0 .. Len(order) -> Engines] :
        /\ f[0] = g
        /\ \A n \in 1 .. Len(order) : f[n] = EvaluateCell(f[n - 1], order[n])
        /\ Evaluated(g, order) = f[Len(order)]
  <2>1. EvaluatedThrough(g, order, Engines)
    BY <1>2, EvaluatedSteps
  <2> QED
    BY <2>1 DEF EvaluatedThrough
<1>4. ASSUME NEW n \in 1 .. Len(order)
      PROVE  Evaluation(f[n - 1], order[n], f[n])
  <2>1. n - 1 \in 0 .. Len(order)
    BY LenProperties
  <2>2. f[n - 1] \in Engines
    BY <2>1
  <2> QED
    BY <1>1, <1>3, <2>2, EvaluateCellIs
<1> QED
  BY <1>3, <1>4

LEMMA EvaluatedKeeps ==
  ASSUME NEW g \in Engines, NEW order \in Seq(Axis)
  PROVE  Kept(g, Evaluated(g, order))
<1>1. PICK f \in [0 .. Len(order) -> Engines] :
        /\ f[0] = g
        /\ \A n \in 1 .. Len(order) : Evaluation(f[n - 1], order[n], f[n])
        /\ Evaluated(g, order) = f[Len(order)]
  BY EvaluatedIs
<1> DEFINE k == Len(order)
           W == {n \in 0 .. k : Kept(g, f[n])}
<1>2. k \in Nat
  BY LenProperties
<1>3. 0 \in W
  BY <1>1, <1>2, KeptSame
<1>4. ASSUME NEW n \in 0 .. k - 1, n \in W PROVE n + 1 \in W
  <2>1. n + 1 \in 1 .. k /\ (n + 1) - 1 = n
    BY <1>2
  <2>2. Kept(g, f[n]) /\ Evaluation(f[n], order[n + 1], f[n + 1])
    BY <1>1, <1>4, <2>1
  <2>3. Kept(g, f[n + 1])
    BY <2>2, KeptFurther DEF Evaluation
  <2> QED
    BY <2>1, <2>3
<1> HIDE DEF W, k
<1>5. k \in W
  <2>1. \A n \in 0 .. k : n \in W
    BY <1>2, <1>3, <1>4, UpTo
  <2> QED
    BY <1>2, <2>1
<1> QED
  BY <1>1, <1>5 DEF W, k

\* recalc_dirty changes values and dynamic edges only.
LEMMA RecalcDirtyKeeps ==
  ASSUME NEW g \in Engines, NEW dirty \in SUBSET Axis
  PROVE  Kept(g, RecalcDirty(g, dirty))
<1> DEFINE circular == CycleNodes(g, dirty)
           flagged == Flag(g, circular)
           order == Order(g, dirty \ circular)
           evaluated == Evaluated(flagged, order)
<1>1. RecalcDirty(g, dirty)
        = Flag(evaluated, CycleNodes(evaluated, dirty) \ circular)
  BY DEF RecalcDirty
<1> HIDE DEF circular, order
<1>2. Kept(g, flagged) /\ flagged \in Engines
  BY FlagIs DEF Flagging, Kept
<1>3. order \in Seq(Axis)
  <2>1. dirty \ circular \in SUBSET Axis
    OBVIOUS
  <2>2. PICK S : Ordered(g, dirty \ circular, order, S)
    BY <2>1, OrderIs DEF order
  <2> QED
    BY <2>2 DEF Ordered, Lists
<1> HIDE DEF flagged
<1>4. Kept(flagged, evaluated) /\ evaluated \in Engines
  BY <1>2, <1>3, EvaluatedKeeps DEF Kept
<1> HIDE DEF evaluated
<1>5. Kept(evaluated, RecalcDirty(g, dirty))
  BY <1>1, <1>4, FlagIs DEF Flagging
<1> QED
  BY <1>2, <1>4, <1>5, KeptFurther

-----------------------------------------------------------------------------
(* The graph and the contents after each operation.                        *)

Sheets == [cells : [Axis -> Cells], sizes : [Axis -> Nat]]

Plain(raw) == IF raw = Empty THEN Absent ELSE raw

ContentsOf(g) == Contents(SheetOf(g))

\* GraphMatchesSheet of any engine.
Matches(g) ==
  \A c \in Axis :
    /\ g.precedents[c] = References(g.cells[c].raw)
    /\ g.spans[c] = Spanned(g.cells[c].raw)
    /\ g.dependents[c] = {d \in Axis : c \in g.precedents[d]}

LEMMA ContentsAre ==
  ASSUME NEW sheet
  PROVE  /\ Contents(sheet)
              = [raws |-> [c \in Axis |-> Plain(sheet.cells[c].raw)],
                               sizes |-> sheet.sizes]
         /\ \A c \in Axis :
              Contents(sheet).raws[c] = Plain(sheet.cells[c].raw)
         /\ Contents(sheet).sizes = sheet.sizes
         /\ DOMAIN Contents(sheet).raws = Axis
BY DEF Contents, Plain

LEMMA ContentsOfAre ==
  ASSUME NEW g
  PROVE  ContentsOf(g) = [raws |-> [c \in Axis |-> Plain(g.cells[c].raw)],
                          sizes |-> g.sizes]
BY DEF ContentsOf, Contents, SheetOf, Plain

LEMMA ContentsEqual ==
  ASSUME NEW sheet, NEW other, sheet.sizes = other.sizes,
         \A c \in Axis : Plain(sheet.cells[c].raw) = Plain(other.cells[c].raw)
  PROVE  Contents(sheet) = Contents(other)
<1>1. [c \in Axis |-> Plain(sheet.cells[c].raw)]
        = [c \in Axis |-> Plain(other.cells[c].raw)]
  OBVIOUS
<1> QED
  BY <1>1, ContentsAre

LEMMA PlainReads ==
  ASSUME NEW r \in RawTexts, NEW s \in RawTexts, Plain(r) = Plain(s)
  PROVE  References(r) = References(s) /\ Spanned(r) = Spanned(s)
<1>1. r = s \/ (r \in {Empty, Absent} /\ s \in {Empty, Absent})
  BY DEF Plain
<1> QED
  BY <1>1, PlainRaws

LEMMA KeptContents ==
  ASSUME NEW g \in Engines, NEW h, Kept(g, h)
  PROVE  /\ ContentsOf(h) = ContentsOf(g)
         /\ Matches(g) => Matches(h)
<1>1. ContentsOf(h) = ContentsOf(g)
  <2>1. SheetOf(h).sizes = SheetOf(g).sizes
        /\ \A c \in Axis :
             Plain(SheetOf(h).cells[c].raw) = Plain(SheetOf(g).cells[c].raw)
    BY DEF Kept, SheetOf
  <2> QED
    BY <2>1, ContentsEqual DEF ContentsOf
<1>2. Matches(g) => Matches(h)
  BY DEF Matches, Kept
<1> QED
  BY <1>1, <1>2

LEMMA DirtySetType ==
  ASSUME NEW g \in Engines, NEW c \in Axis
  PROVE  DirtySet(g, c) \in SUBSET Axis
<1> DEFINE readers == [p \in Axis |->
             g.dependents[p]
               \cup {d \in Axis : p \in g.spans[d] \cup g.dynamic[d]}]
<1>1. readers \in Nexts
  BY EngineIs DEF Nexts
<1>2. DirtySet(g, c) = Reached(readers, {c})
  BY DEF DirtySet
<1> HIDE DEF readers
<1> QED
  BY <1>1, <1>2, ReachedClosed

\* h is g with another raw in cell c.
Committed(g, c, raw, h) ==
  /\ h \in Engines
  /\ h.sizes = g.sizes /\ h.precedents = g.precedents
  /\ h.dependents = g.dependents /\ h.spans = g.spans /\ h.dynamic = g.dynamic
  /\ h.cells[c] = IF raw = Empty THEN NoCell
                  ELSE ParseCell(raw, g.cells[c].format)
  /\ h.cells[c].raw = Plain(raw)
  /\ \A d \in Axis \ {c} : h.cells[d] = g.cells[d]

LEMMA CommitCellIs ==
  ASSUME NEW g \in Engines, NEW c \in Axis, NEW raw \in RawTexts
  PROVE  Committed(g, c, raw, CommitCell(g, c, raw))
<1> DEFINE cell == IF raw = Empty THEN NoCell
                   ELSE ParseCell(raw, g.cells[c].format)
           cells == [g.cells EXCEPT ![c] = cell]
           h == CommitCell(g, c, raw)
<1>1. h = [g EXCEPT !.cells = cells]
  BY DEF CommitCell
<1>2. cell \in Cells /\ cell.raw = Plain(raw)
  <2>1. g.cells[c].format \in Nat
    BY EngineIs
  <2> QED
    BY <2>1, ParseCellType DEF Plain
<1> HIDE DEF cell
<1>3. g.cells \in [Axis -> Cells]
  BY EngineIs
<1>4. /\ cells \in [Axis -> Cells] /\ cells[c] = cell
      /\ \A d \in Axis \ {c} : cells[d] = g.cells[d]
  BY <1>2, <1>3
<1> HIDE DEF cells, h
<1>5. /\ h \in Engines /\ h.cells = cells
      /\ h.sizes = g.sizes /\ h.precedents = g.precedents
      /\ h.dependents = g.dependents /\ h.spans = g.spans
      /\ h.dynamic = g.dynamic
  BY <1>1, <1>4 DEF Engines
<1>6. Committed(g, c, raw, h)
  BY <1>2, <1>4, <1>5 DEF Committed, cell
<1> QED
  BY <1>6 DEF h

\* h is g with the static edges of cell c brought up to date.
Linked(g, c, h) ==
  /\ h \in Engines
  /\ h.sizes = g.sizes /\ h.cells = g.cells
  /\ h.dynamic[c] = {} /\ \A d \in Axis \ {c} : h.dynamic[d] = g.dynamic[d]
  /\ (/\ \A d \in Axis \ {c} :
           /\ g.precedents[d] = References(g.cells[d].raw)
           /\ g.spans[d] = Spanned(g.cells[d].raw)
      /\ \A d \in Axis : g.dependents[d] = {x \in Axis : d \in g.precedents[x]})
     => Matches(h)

LEMMA ReplaceEdgesIs ==
  ASSUME NEW g \in Engines, NEW c \in Axis
  PROVE  Linked(g, c, ReplaceEdges(g, c))
<1> DEFINE refs == References(g.cells[c].raw)
           spanned == Spanned(g.cells[c].raw)
           dependents == [p \in Axis |->
             IF p \in refs THEN g.dependents[p] \cup {c}
             ELSE IF p \in g.precedents[c] THEN g.dependents[p] \ {c}
             ELSE g.dependents[p]]
           precedents == [g.precedents EXCEPT ![c] = refs]
           spans == [g.spans EXCEPT ![c] = spanned]
           dynamic == [g.dynamic EXCEPT ![c] = {}]
           h == ReplaceEdges(g, c)
<1>1. h = [g EXCEPT !.dynamic = dynamic, !.precedents = precedents,
                    !.spans = spans, !.dependents = dependents]
  BY DEF ReplaceEdges, ReplaceStaticEdges
<1>2. refs \in SUBSET Axis /\ spanned \in SUBSET Axis
  BY EngineIs, ReadsOfRaw
<1>3. /\ g.precedents \in [Axis -> SUBSET Axis]
           /\ g.spans \in [Axis -> SUBSET Axis]
      /\ g.dependents \in [Axis -> SUBSET Axis]
      /\ g.dynamic \in [Axis -> SUBSET Axis]
  BY EngineIs DEF Nexts
<1> HIDE DEF refs, spanned
<1>4. /\ precedents \in Nexts /\ spans \in Nexts /\ dynamic \in Nexts
      /\ precedents[c] = refs /\ spans[c] = spanned /\ dynamic[c] = {}
      /\ \A d \in Axis \ {c} :
           /\ precedents[d] = g.precedents[d] /\ spans[d] = g.spans[d]
           /\ dynamic[d] = g.dynamic[d]
  BY <1>2, <1>3 DEF Nexts
<1>5. dependents \in Nexts
      /\ \A p \in Axis :
           dependents[p] = IF p \in refs THEN g.dependents[p] \cup {c}
                           ELSE IF p \in g.precedents[c]
                             THEN g.dependents[p] \ {c}
                           ELSE g.dependents[p]
  BY <1>2, <1>3 DEF Nexts
<1> HIDE DEF precedents, spans, dynamic, dependents, h
<1>6. /\ h \in Engines /\ h.cells = g.cells /\ h.sizes = g.sizes
      /\ h.precedents = precedents /\ h.spans = spans /\ h.dynamic = dynamic
      /\ h.dependents = dependents
  BY <1>1, <1>4, <1>5 DEF Engines
<1>7. ASSUME \A d \in Axis \ {c} :
               /\ g.precedents[d] = References(g.cells[d].raw)
               /\ g.spans[d] = Spanned(g.cells[d].raw),
             \A d \in Axis :
               g.dependents[d] = {x \in Axis : d \in g.precedents[x]}
      PROVE  Matches(h)
  <2>1. ASSUME NEW d \in Axis
        PROVE  precedents[d] = References(g.cells[d].raw)
               /\ spans[d] = Spanned(g.cells[d].raw)
    BY <1>4, <1>7 DEF refs, spanned
  <2>2. ASSUME NEW p \in Axis
        PROVE  dependents[p] = {x \in Axis : p \in precedents[x]}
    <3>1. g.dependents[p] = {x \in Axis : p \in g.precedents[x]}
      BY <1>7
    <3>2. ASSUME NEW x \in Axis
          PROVE  x \in dependents[p] <=> p \in precedents[x]
      <4>1. CASE x = c
        BY <1>4, <1>5, <3>1, <4>1
      <4>2. CASE x # c
        <5>1. precedents[x] = g.precedents[x]
          BY <1>4, <4>2
        <5>2. x \in dependents[p] <=> x \in g.dependents[p]
          BY <1>5, <4>2
        <5> QED
          BY <3>1, <5>1, <5>2
      <4> QED
        BY <4>1, <4>2
    <3>3. dependents[p] \in SUBSET Axis
      BY <1>5 DEF Nexts
    <3> QED
      BY <3>2, <3>3
  <2> QED
    BY <1>6, <2>1, <2>2 DEF Matches
<1>8. Linked(g, c, h)
  BY <1>4, <1>6, <1>7 DEF Linked
<1> QED
  BY <1>8 DEF h

\* k with another raw in cell c.
WithRaw(k, c, raw) == [k EXCEPT !.raws[c] = Plain(raw)]

\* SetCell: one raw changes, and the graph follows.
LEMMA SetCellIs ==
  ASSUME NEW g \in Engines, NEW c \in Axis, NEW raw \in RawTexts
  PROVE  /\ SetCell(g, c, raw) \in Engines
         /\ Matches(g) => Matches(SetCell(g, c, raw))
         /\ ContentsOf(SetCell(g, c, raw)) = WithRaw(ContentsOf(g), c, raw)
<1> DEFINE h == CommitCell(g, c, raw)
           edited == ReplaceEdges(h, c)
           dirty == DirtySet(edited, c)
           after == RecalcDirty(edited, dirty)
<1>1. SetCell(g, c, raw) = after
  BY DEF SetCell
<1>2. Committed(g, c, raw, h)
  BY CommitCellIs
<1> HIDE DEF h
<1>3. h \in Engines
  BY <1>2 DEF Committed
<1>4. Linked(h, c, edited)
  BY <1>3, ReplaceEdgesIs
<1> HIDE DEF edited
<1>5. edited \in Engines
  BY <1>4 DEF Linked
<1>6. dirty \in SUBSET Axis
  BY <1>5, DirtySetType
<1> HIDE DEF dirty
<1>7. Kept(edited, after)
  BY <1>5, <1>6, RecalcDirtyKeeps
<1> HIDE DEF after
<1>8. after \in Engines
  BY <1>7 DEF Kept
<1>9. ASSUME Matches(g) PROVE Matches(after)
  <2>1. /\ \A d \in Axis \ {c} :
             /\ h.precedents[d] = References(h.cells[d].raw)
             /\ h.spans[d] = Spanned(h.cells[d].raw)
        /\ \A d \in Axis : h.dependents[d]
                             = {x \in Axis : d \in h.precedents[x]}
    BY <1>2, <1>9 DEF Committed, Matches
  <2>2. Matches(edited)
    BY <1>4, <2>1 DEF Linked
  <2> QED
    BY <1>5, <1>7, <2>2, KeptContents
<1>10. ContentsOf(after) = WithRaw(ContentsOf(g), c, raw)
  <2>1. ContentsOf(after) = ContentsOf(edited)
    BY <1>5, <1>7, KeptContents
  <2>2. /\ edited.sizes = g.sizes
        /\ edited.cells[c].raw = Plain(raw)
        /\ \A d \in Axis \ {c} : edited.cells[d].raw = g.cells[d].raw
    BY <1>2, <1>4 DEF Committed, Linked
  <2>3. Plain(Plain(raw)) = Plain(raw)
    BY PlainRaws DEF Plain
  <2>4. ASSUME NEW d \in Axis
        PROVE  Plain(edited.cells[d].raw)
                 = IF d = c THEN Plain(raw) ELSE Plain(g.cells[d].raw)
    BY <2>2, <2>3
  <2> DEFINE raws == [d \in Axis |-> Plain(g.cells[d].raw)]
             now == [d \in Axis |-> Plain(edited.cells[d].raw)]
  <2>5. now = [raws EXCEPT ![c] = Plain(raw)]
    BY <2>4
  <2> HIDE DEF raws, now
  <2>6. ContentsOf(edited) = [raws |-> now, sizes |-> edited.sizes]
        /\ ContentsOf(g) = [raws |-> raws, sizes |-> g.sizes]
    BY ContentsOfAre, Zenon DEF raws, now
  <2> QED
    BY <2>1, <2>2, <2>5, <2>6 DEF WithRaw
<1> QED
  BY <1>1, <1>8, <1>9, <1>10

\* h is g with a graph made from its formulas.
Rebuilt(g, h) ==
  /\ h \in Engines /\ h.cells = g.cells /\ h.sizes = g.sizes
  /\ \A c \in Axis :
       h.dynamic[c] = IF IsFormula(g.cells[c].raw) THEN g.dynamic[c] ELSE {}
  /\ Matches(h)

LEMMA RebuildGraphIs ==
  ASSUME NEW g \in Engines
  PROVE  Rebuilt(g, RebuildGraph(g))
<1> DEFINE precedents == [c \in Axis |-> References(g.cells[c].raw)]
           spans == [c \in Axis |-> Spanned(g.cells[c].raw)]
           dependents == [p \in Axis |->
                            {c \in Axis : p \in References(g.cells[c].raw)}]
           dynamic == [c \in Axis |->
                         IF IsFormula(g.cells[c].raw) THEN g.dynamic[c] ELSE {}]
           h == RebuildGraph(g)
<1>1. h = [g EXCEPT !.precedents = precedents, !.spans = spans,
                    !.dependents = dependents, !.dynamic = dynamic]
  BY DEF RebuildGraph
<1>2. \A c \in Axis : /\ References(g.cells[c].raw) \in SUBSET Axis
                      /\ Spanned(g.cells[c].raw) \in SUBSET Axis
                      /\ g.dynamic[c] \in SUBSET Axis
  BY EngineIs, ReadsOfRaw DEF Nexts
<1>3. /\ precedents \in Nexts /\ spans \in Nexts /\ dependents \in Nexts
      /\ dynamic \in Nexts
  BY <1>2 DEF Nexts
<1>4. \A c \in Axis :
        /\ precedents[c] = References(g.cells[c].raw)
        /\ spans[c] = Spanned(g.cells[c].raw)
        /\ dependents[c] = {d \in Axis : c \in precedents[d]}
        /\ dynamic[c] = IF IsFormula(g.cells[c].raw) THEN g.dynamic[c] ELSE {}
  OBVIOUS
<1> HIDE DEF precedents, spans, dependents, dynamic, h
<1>5. /\ h \in Engines /\ h.cells = g.cells /\ h.sizes = g.sizes
      /\ h.precedents = precedents /\ h.spans = spans
      /\ h.dependents = dependents /\ h.dynamic = dynamic
  BY <1>1, <1>3 DEF Engines
<1>6. Rebuilt(g, h)
  BY <1>4, <1>5 DEF Rebuilt, Matches
<1> QED
  BY <1>6 DEF h

LEMMA RecalcAllIs ==
  ASSUME NEW g \in Engines
  PROVE  /\ RecalcAll(g) \in Engines
         /\ Matches(RecalcAll(g))
         /\ ContentsOf(RecalcAll(g)) = ContentsOf(g)
<1> DEFINE h == RebuildGraph(g)
           dirty == OccupiedCells(g)
           after == RecalcDirty(h, dirty)
<1>1. RecalcAll(g) = after
  BY DEF RecalcAll
<1>2. Rebuilt(g, h) /\ dirty \in SUBSET Axis
  BY RebuildGraphIs DEF OccupiedCells
<1> HIDE DEF h, dirty
<1>3. h \in Engines /\ Kept(h, after)
  BY <1>2, RecalcDirtyKeeps DEF Rebuilt
<1> HIDE DEF after
<1>4. ContentsOf(h) = ContentsOf(g)
  BY <1>2 DEF Rebuilt, ContentsOf, SheetOf
<1>5. after \in Engines /\ Matches(after) /\ ContentsOf(after) = ContentsOf(h)
  BY <1>2, <1>3, KeptContents DEF Kept, Rebuilt
<1> QED
  BY <1>1, <1>4, <1>5

LEMMA ReplaceSheetIs ==
  ASSUME NEW g \in Engines, NEW sheet \in Sheets
  PROVE  /\ ReplaceSheet(g, sheet) \in Engines
         /\ Matches(ReplaceSheet(g, sheet))
         /\ ContentsOf(ReplaceSheet(g, sheet)) = Contents(sheet)
<1> DEFINE h == [g EXCEPT !.cells = sheet.cells, !.sizes = sheet.sizes]
<1>1. ReplaceSheet(g, sheet) = RecalcAll(h)
  BY DEF ReplaceSheet
<1>2. sheet.cells \in [Axis -> Cells] /\ sheet.sizes \in [Axis -> Nat]
  BY DEF Sheets
<1>3. /\ h \in Engines /\ h.cells = sheet.cells /\ h.sizes = sheet.sizes
  BY <1>2 DEF Engines
<1> HIDE DEF h
<1>4. ContentsOf(h) = Contents(sheet)
  BY <1>3, ContentsEqual DEF ContentsOf, SheetOf
<1> QED
  BY <1>1, <1>3, <1>4, RecalcAllIs

LEMMA SheetOfType ==
  ASSUME NEW g \in Engines
  PROVE  SheetOf(g) \in Sheets
BY EngineIs DEF SheetOf, Sheets

\* A snapshot of other cells, of the same texts, leaves graph and contents.
LEMMA RestoreCellsIs ==
  ASSUME NEW g \in Engines, NEW S \in SUBSET Axis,
         NEW snapshot \in [S -> Cells],
         \A c \in S : Plain(snapshot[c].raw) = Plain(g.cells[c].raw)
  PROVE  /\ RestoreCells(g, snapshot) \in Engines
         /\ Matches(g) => Matches(RestoreCells(g, snapshot))
         /\ ContentsOf(RestoreCells(g, snapshot)) = ContentsOf(g)
<1> DEFINE cells == [c \in Axis |-> IF c \in DOMAIN snapshot THEN snapshot[c]
                                    ELSE g.cells[c]]
           h == RestoreCells(g, snapshot)
<1>1. h = [g EXCEPT !.cells = cells]
  BY DEF RestoreCells
<1>2. \A c \in Axis : g.cells[c] \in Cells
  BY EngineIs
<1>3. cells \in [Axis -> Cells]
  BY <1>2
<1>4. \A c \in Axis : Plain(cells[c].raw) = Plain(g.cells[c].raw)
  OBVIOUS
<1>5. \A c \in Axis : cells[c].raw \in RawTexts /\ g.cells[c].raw \in RawTexts
  BY <1>2, <1>3 DEF Cells
<1> HIDE DEF cells, h
<1>6. /\ h \in Engines /\ h.cells = cells /\ h.sizes = g.sizes
      /\ h.precedents = g.precedents /\ h.spans = g.spans
      /\ h.dependents = g.dependents
  BY <1>1, <1>3 DEF Engines
<1>7. Matches(g) => Matches(h)
  BY <1>4, <1>5, <1>6, PlainReads DEF Matches
<1>8. ContentsOf(h) = ContentsOf(g)
  <2>1. SheetOf(h).sizes = SheetOf(g).sizes
        /\ \A c \in Axis :
             Plain(SheetOf(h).cells[c].raw) = Plain(SheetOf(g).cells[c].raw)
    BY <1>4, <1>6 DEF SheetOf
  <2> QED
    BY <2>1, ContentsEqual DEF ContentsOf
<1> QED
  BY <1>6, <1>7, <1>8 DEF h

\* k with other sizes where the snapshot has some.
WithSizes(k, snapshot) ==
  [k EXCEPT !.sizes = [i \in Axis |-> IF i \in DOMAIN snapshot THEN snapshot[i]
                                      ELSE k.sizes[i]]]

LEMMA WithSizesIs ==
  ASSUME NEW raws, NEW sizes, NEW snapshot
  PROVE  WithSizes([raws |-> raws, sizes |-> sizes], snapshot)
           = [raws |-> raws,
              sizes |-> [i \in Axis |-> IF i \in DOMAIN snapshot
                                          THEN snapshot[i] ELSE sizes[i]]]
BY DEF WithSizes

LEMMA RestoreSizesIs ==
  ASSUME NEW g \in Engines, NEW S \in SUBSET Axis, NEW snapshot \in [S -> Nat]
  PROVE  /\ RestoreSizes(g, snapshot) \in Engines
         /\ Matches(g) => Matches(RestoreSizes(g, snapshot))
         /\ ContentsOf(RestoreSizes(g, snapshot))
              = WithSizes(ContentsOf(g), snapshot)
<1> DEFINE sizes == [i \in Axis |-> IF i \in DOMAIN snapshot THEN snapshot[i]
                                    ELSE g.sizes[i]]
           h == RestoreSizes(g, snapshot)
<1>1. h = [g EXCEPT !.sizes = sizes]
  BY DEF RestoreSizes
<1>2. \A i \in Axis : g.sizes[i] \in Nat
  BY EngineIs
<1>3. sizes \in [Axis -> Nat]
  BY <1>2
<1>4. WithSizes(ContentsOf(g), snapshot)
        = [ContentsOf(g) EXCEPT !.sizes = sizes]
  BY ContentsAre DEF WithSizes, ContentsOf, SheetOf
<1> HIDE DEF sizes, h
<1>5. /\ h \in Engines /\ h.cells = g.cells /\ h.sizes = sizes
      /\ h.precedents = g.precedents /\ h.spans = g.spans
      /\ h.dependents = g.dependents
  BY <1>1, <1>3 DEF Engines
<1>6. Matches(g) => Matches(h)
  BY <1>5 DEF Matches
<1>7. ContentsOf(h) = [ContentsOf(g) EXCEPT !.sizes = sizes]
  <2> DEFINE raws == [c \in Axis |-> Plain(g.cells[c].raw)]
  <2>1. ContentsOf(g) = [raws |-> raws, sizes |-> g.sizes]
        /\ ContentsOf(h) = [raws |-> raws, sizes |-> sizes]
    BY <1>5, ContentsOfAre
  <2> HIDE DEF raws
  <2> QED
    BY <2>1
<1> QED
  BY <1>4, <1>5, <1>6, <1>7 DEF h

-----------------------------------------------------------------------------
(* Opening a file.                                                         *)

LoadedCell(g, file, c) ==
  IF Occupied(file.cells[c]) THEN SetCell(g, c, file.cells[c].raw) ELSE g

\* The cells of a file are set one after the other, with engines of V.
LoadedThrough(file, V) ==
  \E f \in [0 .. Limit -> V] :
    /\ f[0] = NewEngine([c \in Axis |-> NoCell], file.sizes)
    /\ \A n \in 1 .. Limit : f[n] = LoadedCell(f[n - 1], file, n)
    /\ Loaded(file) = f[Limit]

LEMMA LoadedSteps ==
  ASSUME NEW file,
         NEW V, NewEngine([c \in Axis |-> NoCell], file.sizes) \in V,
         \A v \in V : \A n \in 1 .. Limit :
           LoadedCell(v, file, n) \in V
  PROVE  LoadedThrough(file, V)
<1> DEFINE b == NewEngine([c \in Axis |-> NoCell], file.sizes)
           k == Limit
           Step(v, n) == LoadedCell(v, file, n)
<1>1. b \in V /\ \A v \in V : \A n \in 1 .. k : Step(v, n) \in V
  OBVIOUS
<1>2. k \in Nat
  BY LimitAssumption
<1> DEFINE F == [x \in V \X Nat |->
                   IF x[2] \in 1 .. k THEN Step(x[1], x[2]) ELSE b]
           f == CHOOSE f :
                  f = [n \in 0 .. k |->
                         IF n = 0 THEN b ELSE Step(f[n - 1], n)]
<1>3. Loaded(file) = f[k]
  BY DEF Loaded, LoadedCell
<1> HIDE DEF b, k, Step
<1>4. F \in [V \X Nat -> V]
  BY <1>1
<1>5. PICK it \in [0 .. k -> V] : Iterates(it, b, F, k)
  <2> HIDE DEF F
  <2> QED
    BY <1>1, <1>2, <1>4, Recursion
<1>6. it = [n \in 0 .. k |-> IF n = 0 THEN b ELSE Step(it[n - 1], n)]
  <2>1. \A n \in 0 .. k : it[n] = IF n = 0 THEN b ELSE F[<<it[n - 1], n>>]
    <3> HIDE DEF F
    <3> QED
      BY <1>5 DEF Iterates
  <2>2. ASSUME NEW n \in 0 .. k, n # 0 PROVE it[n] = Step(it[n - 1], n)
    <3>1. n \in Nat /\ n - 1 \in 0 .. k /\ n \in 1 .. k
      BY <1>2, <2>2
    <3>2. <<it[n - 1], n>> \in V \X Nat
      BY <1>5, <3>1
    <3>3. F[<<it[n - 1], n>>] = Step(it[n - 1], n)
      BY <3>1, <3>2
    <3> HIDE DEF F
    <3> QED
      BY <2>1, <2>2, <3>3
  <2>3. it = [n \in 0 .. k |-> it[n]]
    BY <1>5
  <2>4. \A n \in 0 .. k : it[n] = IF n = 0 THEN b ELSE Step(it[n - 1], n)
    BY <2>1, <2>2
  <2> HIDE DEF F
  <2> QED
    BY <2>3, <2>4
<1>7. f = [n \in 0 .. k |-> IF n = 0 THEN b ELSE Step(f[n - 1], n)]
  <2> HIDE DEF F
  <2> QED
    BY <1>6
<1> HIDE DEF f, F
<1>8. f[0] = b
  BY <1>2, <1>7
<1>9. ASSUME NEW n \in 1 .. k PROVE f[n] = Step(f[n - 1], n)
  <2>1. n \in 0 .. k /\ n # 0
    BY <1>2
  <2> QED
    BY <1>7, <2>1, Zenon
<1> DEFINE W == {i \in 0 .. k : f[i] \in V}
<1>10. \A n \in 0 .. k : n \in W
  <2>1. 0 \in W
    BY <1>1, <1>2, <1>8
  <2>2. ASSUME NEW n \in 0 .. k - 1, n \in W PROVE n + 1 \in W
    <3>1. n + 1 \in 1 .. k /\ (n + 1) - 1 = n
      BY <1>2
    <3>2. f[n + 1] = Step(f[n], n + 1)
      BY <1>9, <3>1
    <3>3. f[n] \in V
      BY <2>2
    <3>4. f[n + 1] \in V
      BY <1>1, <3>1, <3>2, <3>3
    <3> QED
      BY <1>2, <3>1, <3>4
  <2> HIDE DEF W
  <2> QED
    BY <1>2, <2>1, <2>2, UpTo
<1>11. f \in [0 .. k -> V]
  <2>1. f = [n \in 0 .. k |-> f[n]]
    BY <1>7
  <2> QED
    BY <1>10, <2>1
<1>12. \E it2 \in [0 .. k -> V] :
         /\ it2[0] = b
         /\ \A n \in 1 .. k : it2[n] = Step(it2[n - 1], n)
         /\ Loaded(file) = it2[k]
  BY <1>3, <1>8, <1>9, <1>11
<1> QED
  BY <1>12, Zenon DEF b, k, Step, LoadedThrough

LEMMA NewEngineIs ==
  ASSUME NEW cells \in [Axis -> Cells], NEW sizes \in [Axis -> Nat]
  PROVE  /\ NewEngine(cells, sizes) \in Engines
         /\ NewEngine(cells, sizes).cells = cells
         /\ NewEngine(cells, sizes).sizes = sizes
         /\ NewEngine(cells, sizes).dynamic = NoEdges
<1>1. NoEdges \in Nexts
  BY DEF NoEdges, Nexts
<1> QED
  BY <1>1 DEF NewEngine, Engines

LEMMA NothingIs ==
  /\ NoCells \in [Axis -> Cells] /\ NoSizes \in [Axis -> Nat]
  /\ NewEngine(NoCells, NoSizes) \in Engines
  /\ Matches(NewEngine(NoCells, NoSizes))
<1>1. NoCell \in Cells /\ NoCell.raw = Absent
  BY PlainRaws, ParseCellType
<1>2. NoCells \in [Axis -> Cells] /\ \A c \in Axis : NoCells[c].raw = Absent
  BY <1>1 DEF NoCells
<1>3. NoSizes \in [Axis -> Nat]
  BY DEF NoSizes
<1>4. /\ NewEngine(NoCells, NoSizes).cells = NoCells
      /\ NewEngine(NoCells, NoSizes).precedents = NoEdges
      /\ NewEngine(NoCells, NoSizes).spans = NoEdges
      /\ NewEngine(NoCells, NoSizes).dependents = NoEdges
  BY DEF NewEngine
<1>5. Matches(NewEngine(NoCells, NoSizes))
  BY <1>2, <1>4, PlainRaws DEF Matches, NoEdges
<1> QED
  BY <1>2, <1>3, <1>5, NewEngineIs

LEMMA LoadedType ==
  ASSUME NEW file \in Sheets
  PROVE  Loaded(file) \in Engines
<1>1. file.cells \in [Axis -> Cells] /\ file.sizes \in [Axis -> Nat]
  BY DEF Sheets
<1>2. NewEngine([c \in Axis |-> NoCell], file.sizes) \in Engines
  BY <1>1, NothingIs, NewEngineIs DEF NoCells
<1>3. ASSUME NEW v \in Engines, NEW n \in 1 .. Limit
      PROVE  LoadedCell(v, file, n) \in Engines
  <2>1. n \in Axis /\ file.cells[n].raw \in RawTexts
    BY <1>1 DEF Axis, Cells
  <2> QED
    BY <2>1, SetCellIs DEF LoadedCell
<1>4. LoadedThrough(file, Engines)
  BY <1>2, <1>3, LoadedSteps
<1> QED
  BY <1>4, LimitAssumption DEF LoadedThrough

LEMMA OpenIs ==
  ASSUME NEW file \in Sheets
  PROVE  Open(file) \in Engines /\ Matches(Open(file))
<1> DEFINE loaded == Loaded(file)
           cells == [c \in Axis |->
                       [loaded.cells[c] EXCEPT !.format = file.cells[c].format]]
           formatted == [loaded EXCEPT !.cells = cells]
           model == RecalcAll(formatted)
           fresh == NewEngine(model.cells, model.sizes)
<1>1. Open(file) = RecalcAll(fresh)
  BY DEF Open
<1>2. loaded \in Engines
  BY LoadedType
<1> HIDE DEF loaded
<1>3. cells \in [Axis -> Cells]
  <2>1. \A c \in Axis : loaded.cells[c] \in Cells
                          /\ file.cells[c].format \in Nat
    BY <1>2, EngineIs DEF Sheets, Cells
  <2>2. \A x \in Cells, m \in Nat : [x EXCEPT !.format = m] \in Cells
    BY DEF Cells
  <2> QED
    BY <2>1, <2>2
<1> HIDE DEF cells
<1>4. formatted \in Engines
  BY <1>2, <1>3 DEF Engines
<1> HIDE DEF formatted
<1>5. model \in Engines
  BY <1>4, RecalcAllIs
<1> HIDE DEF model
<1>6. fresh \in Engines
  BY <1>5, EngineIs, NewEngineIs
<1> HIDE DEF fresh
<1> QED
  BY <1>1, <1>6, RecalcAllIs

LEMMA SavedType ==
  ASSUME NEW g \in Engines
  PROVE  Saved(g) \in Sheets
<1>1. g.cells \in [Axis -> Cells] /\ g.sizes \in [Axis -> Nat]
      /\ NoCell \in Cells
  BY EngineIs, NothingIs, PlainRaws, ParseCellType
<1>2. [c \in Axis |-> IF g.cells[c].raw = Empty THEN NoCell ELSE g.cells[c]]
        \in [Axis -> Cells]
  BY <1>1
<1> QED
  BY <1>1, <1>2 DEF Saved, Sheets

LEMMA TypedType ==
  ASSUME NEW raws \in Starts
  PROVE  Typed(raws) \in Sheets
<1>1. \A c \in Axis : raws[c] \in RawTexts
  BY SheetConstants
<1>2. [c \in Axis |-> ParseCell(raws[c], 0)] \in [Axis -> Cells]
  BY <1>1, ParseCellType
<1> QED
  BY <1>2, NothingIs DEF Typed, Sheets

-----------------------------------------------------------------------------
(* Insertions and deletions.                                               *)

LEMMA RewriteFormulaType ==
  ASSUME NEW raw \in RawTexts, NEW e \in Edits, InBounds(e)
  PROVE  RewriteFormula(raw, e) \in RawTexts
<1> DEFINE to == ShiftIndex(raw.lo, e)
           span == RewriteSpan(raw.lo, raw.hi, e)
<1>1. CASE raw.kind \in {"ref", "indirect"} /\ to # None
  <2>1. raw.lo \in Axis /\ raw.hi = 0 /\ to \in Axis
    BY <1>1, RawIs, ShiftIndexType
  <2>2. RewriteFormula(raw, e) = [raw EXCEPT !.lo = to]
    BY <1>1 DEF RewriteFormula
  <2> HIDE DEF to
  <2>3. [raw EXCEPT !.lo = to] = [kind |-> raw.kind, lo |-> to, hi |-> 0]
    BY <2>1, RawIs
  <2> QED
    BY <1>1, <2>1, <2>2, <2>3 DEF RawTexts
<1>2. CASE raw.kind = "sum" /\ span # NoSpan
  <2>1. span.lo \in Axis /\ span.hi \in Axis /\ span.lo <= span.hi
    BY <1>2, RawIs, RewriteSpanType
  <2>2. RewriteFormula(raw, e) = Raw("sum", span.lo, span.hi)
    BY <1>2 DEF RewriteFormula
  <2> HIDE DEF span
  <2> QED
    BY <2>1, <2>2 DEF RawTexts, Raw
<1>3. CASE ~ (raw.kind \in {"ref", "indirect"} /\ to # None)
           /\ ~ (raw.kind = "sum" /\ span # NoSpan)
  <2>1. RewriteFormula(raw, e) \in {raw, RefErrorRaw}
    BY <1>3 DEF RewriteFormula
  <2> QED
    BY <2>1, PlainRaws
<1> QED
  BY <1>1, <1>2, <1>3

LEMMA ShiftCellType ==
  ASSUME NEW cell \in Cells, NEW e \in Edits, InBounds(e)
  PROVE  ShiftCell(cell, e) \in Cells
<1>1. cell.raw \in RawTexts /\ cell.format \in Nat
  BY DEF Cells
<1>2. ParseCell(RewriteFormula(cell.raw, e), cell.format) \in Cells
  BY <1>1, RewriteFormulaType, ParseCellType
<1> QED
  BY <1>2 DEF ShiftCell

LEMMA ShiftedFromIs ==
  ASSUME NEW e \in Edits, NEW i \in Axis
  PROVE  \/ /\ ShiftedFrom(i, e) \in Axis
            /\ ShiftIndex(ShiftedFrom(i, e), e) = i
         \/ /\ ShiftedFrom(i, e) = None
            /\ \A j \in Axis : ShiftIndex(j, e) # i
<1> DEFINE from == {j \in Axis : ShiftIndex(j, e) = i}
<1>1. CASE from = {}
  BY <1>1 DEF ShiftedFrom
<1>2. CASE from # {}
  <2>1. ShiftedFrom(i, e) = CHOOSE j \in from : TRUE
    BY <1>2 DEF ShiftedFrom
  <2>2. ShiftedFrom(i, e) \in from
    BY <1>2, <2>1
  <2> QED
    BY <2>2
<1> QED
  BY <1>1, <1>2

LEMMA ShiftedType ==
  ASSUME NEW sheet \in Sheets, NEW e \in Edits, InBounds(e)
  PROVE  Shifted(sheet, e) \in Sheets
<1> DEFINE cells == [i \in Axis |->
                       IF ShiftedFrom(i, e) = None THEN NoCell
                       ELSE ShiftCell(sheet.cells[ShiftedFrom(i, e)], e)]
           sizes == [i \in Axis |-> IF ShiftedFrom(i, e) = None THEN 0
                                    ELSE sheet.sizes[ShiftedFrom(i, e)]]
<1>1. sheet.cells \in [Axis -> Cells] /\ sheet.sizes \in [Axis -> Nat]
  BY DEF Sheets
<1>2. NoCell \in Cells
  BY PlainRaws, ParseCellType
<1>3. \A i \in Axis : ShiftedFrom(i, e) # None =>
        /\ ShiftCell(sheet.cells[ShiftedFrom(i, e)], e) \in Cells
        /\ sheet.sizes[ShiftedFrom(i, e)] \in Nat
  BY <1>1, ShiftedFromIs, ShiftCellType
<1>4. cells \in [Axis -> Cells] /\ sizes \in [Axis -> Nat]
  BY <1>2, <1>3
<1>5. Shifted(sheet, e) = [cells |-> cells, sizes |-> sizes]
  BY DEF Shifted
<1> HIDE DEF cells, sizes
<1> QED
  BY <1>4, <1>5 DEF Sheets

-----------------------------------------------------------------------------
(* The history.                                                            *)

Labels == Edits \cup {NoEdit}
Snapshots == UNION {[S -> Cells] : S \in SUBSET Axis}
SizeSnapshots == UNION {[S -> Nat] : S \in SUBSET Axis}

Entries ==
  {SetEntry(c, raw) : c \in Axis, raw \in RawTexts}
    \cup {RestoreEntry("cells", label, to, from) :
            label \in Labels, to \in Snapshots, from \in Snapshots}
    \cup {RestoreEntry("sheet", label, to, from) :
            label \in Labels, to \in Sheets, from \in Sheets}
    \cup {RestoreEntry("size", label, to, from) :
            label \in Labels, to \in SizeSnapshots, from \in SizeSnapshots}

\* The cells of a snapshot have the texts of k.
Alike(snapshot, k) ==
  \A c \in DOMAIN snapshot : Plain(snapshot[c].raw) = k.raws[c]

\* The entry, applied to a sheet of contents k, gives one of contents m, and
\* its inverse leads back.
Leads(entry, k, m) ==
  \/ \E c \in Axis, raw \in RawTexts :
       entry = SetEntry(c, raw) /\ m = WithRaw(k, c, raw)
  \/ \E label \in Labels, to \in Snapshots, from \in Snapshots :
       /\ entry = RestoreEntry("cells", label, to, from)
       /\ m = k /\ Alike(to, k) /\ Alike(from, k)
  \/ \E label \in Labels, to \in Sheets, from \in Sheets :
       /\ entry = RestoreEntry("sheet", label, to, from)
       /\ m = Contents(to) /\ k = Contents(from)
  \/ \E label \in Labels, to \in SizeSnapshots, from \in SizeSnapshots :
       /\ entry = RestoreEntry("size", label, to, from)
       /\ m = WithSizes(k, to) /\ k = WithSizes(m, from)

\* An entry that leads somewhere is one of the history.
LEMMA LeadsType ==
  ASSUME NEW entry, NEW k, NEW m, Leads(entry, k, m)
  PROVE  entry \in Entries
BY DEF Leads, Entries

LEMMA PriorRawIs ==
  ASSUME NEW g \in Engines, NEW c \in Axis
  PROVE  /\ PriorRaw(g, c) \in RawTexts
         /\ Plain(PriorRaw(g, c)) = ContentsOf(g).raws[c]
<1>1. g.cells[c].raw \in RawTexts
  BY EngineIs
<1>2. ContentsOf(g).raws[c] = Plain(g.cells[c].raw)
  BY ContentsAre DEF ContentsOf, SheetOf
<1> QED
  BY <1>1, <1>2, PlainRaws DEF PriorRaw, Plain, Occupied

LEMMA WithRawIs ==
  ASSUME NEW raws, NEW sizes, NEW c, NEW raw
  PROVE  WithRaw([raws |-> raws, sizes |-> sizes], c, raw)
           = [raws |-> [raws EXCEPT ![c] = Plain(raw)], sizes |-> sizes]
BY DEF WithRaw

LEMMA WithRawBack ==
  ASSUME NEW g \in Engines, NEW c \in Axis, NEW raw, NEW old,
         Plain(old) = ContentsOf(g).raws[c]
  PROVE  WithRaw(WithRaw(ContentsOf(g), c, raw), c, old) = ContentsOf(g)
<1> DEFINE raws == [d \in Axis |-> Plain(g.cells[d].raw)]
           k == ContentsOf(g)
<1>1. k = [raws |-> raws, sizes |-> g.sizes]
  BY ContentsOfAre
<1>2. raws = [d \in Axis |-> raws[d]]
  OBVIOUS
<1> HIDE DEF raws, k
<1>3. [[raws EXCEPT ![c] = Plain(raw)] EXCEPT ![c] = Plain(old)] = raws
  BY <1>1, <1>2 DEF k
<1>4. WithRaw(k, c, raw) = [raws |-> [raws EXCEPT ![c] = Plain(raw)],
                            sizes |-> g.sizes]
  BY <1>1, WithRawIs
<1>5. WithRaw(WithRaw(k, c, raw), c, old)
        = [raws |-> [[raws EXCEPT ![c] = Plain(raw)] EXCEPT ![c] = Plain(old)],
           sizes |-> g.sizes]
  BY <1>4, WithRawIs
<1> QED
  BY <1>1, <1>3, <1>5 DEF k

\* An entry that fits does what it says, and so does its inverse.
LEMMA ApplyIs ==
  ASSUME NEW g \in Engines, Matches(g), NEW entry, NEW m,
         Leads(entry, ContentsOf(g), m)
  PROVE  /\ Apply(g, entry).engine \in Engines
         /\ Matches(Apply(g, entry).engine)
         /\ ContentsOf(Apply(g, entry).engine) = m
         /\ Leads(Apply(g, entry).inverse, m, ContentsOf(g))
<1> DEFINE k == ContentsOf(g)
<1>1. ASSUME NEW c \in Axis, NEW raw \in RawTexts,
             entry = SetEntry(c, raw), m = WithRaw(k, c, raw)
      PROVE  /\ Apply(g, entry).engine \in Engines
             /\ Matches(Apply(g, entry).engine)
             /\ ContentsOf(Apply(g, entry).engine) = m
             /\ Leads(Apply(g, entry).inverse, m, k)
  <2>1. /\ Apply(g, entry).engine = SetCell(g, c, raw)
        /\ Apply(g, entry).inverse = SetEntry(c, PriorRaw(g, c))
    BY <1>1 DEF Apply, SetEntry
  <2>2. PriorRaw(g, c) \in RawTexts /\ k = WithRaw(m, c, PriorRaw(g, c))
    BY <1>1, PriorRawIs, WithRawBack
  <2>3. Leads(SetEntry(c, PriorRaw(g, c)), m, k)
    <3> HIDE DEF k
    <3> QED
      BY <2>2 DEF Leads
  <2> QED
    BY <1>1, <2>1, <2>3, SetCellIs
<1>2. ASSUME NEW label \in Labels, NEW to \in Snapshots, NEW from \in Snapshots,
             entry = RestoreEntry("cells", label, to, from),
             m = k, Alike(to, k), Alike(from, k)
      PROVE  /\ Apply(g, entry).engine \in Engines
             /\ Matches(Apply(g, entry).engine)
             /\ ContentsOf(Apply(g, entry).engine) = m
             /\ Leads(Apply(g, entry).inverse, m, k)
  <2>1. /\ Apply(g, entry).engine = RestoreCells(g, to)
        /\ Apply(g, entry).inverse = RestoreEntry("cells", label, from, to)
    BY <1>2 DEF Apply, RestoreEntry
  <2>2. PICK S \in SUBSET Axis : to \in [S -> Cells]
    BY <1>2 DEF Snapshots
  <2>3. \A c \in S : Plain(to[c].raw) = Plain(g.cells[c].raw)
    BY <1>2, <2>2, ContentsAre DEF Alike, ContentsOf, SheetOf
  <2>4. Leads(RestoreEntry("cells", label, from, to), m, k)
    <3> HIDE DEF k
    <3> QED
      BY <1>2 DEF Leads
  <2> QED
    BY <1>2, <2>1, <2>2, <2>3, <2>4, RestoreCellsIs
<1>3. ASSUME NEW label \in Labels, NEW to \in Sheets, NEW from \in Sheets,
             entry = RestoreEntry("sheet", label, to, from),
             m = Contents(to), k = Contents(from)
      PROVE  /\ Apply(g, entry).engine \in Engines
             /\ Matches(Apply(g, entry).engine)
             /\ ContentsOf(Apply(g, entry).engine) = m
             /\ Leads(Apply(g, entry).inverse, m, k)
  <2>1. /\ Apply(g, entry).engine = ReplaceSheet(g, to)
        /\ Apply(g, entry).inverse = RestoreEntry("sheet", label, from, to)
    BY <1>3 DEF Apply, RestoreEntry
  <2>2. Leads(RestoreEntry("sheet", label, from, to), m, k)
    <3> HIDE DEF k
    <3> QED
      BY <1>3 DEF Leads
  <2> QED
    BY <1>3, <2>1, <2>2, ReplaceSheetIs
<1>4. ASSUME NEW label \in Labels, NEW to \in SizeSnapshots,
             NEW from \in SizeSnapshots,
             entry = RestoreEntry("size", label, to, from),
             m = WithSizes(k, to), k = WithSizes(m, from)
      PROVE  /\ Apply(g, entry).engine \in Engines
             /\ Matches(Apply(g, entry).engine)
             /\ ContentsOf(Apply(g, entry).engine) = m
             /\ Leads(Apply(g, entry).inverse, m, k)
  <2>1. /\ Apply(g, entry).engine = RestoreSizes(g, to)
        /\ Apply(g, entry).inverse = RestoreEntry("size", label, from, to)
    BY <1>4 DEF Apply, RestoreEntry
  <2>2. PICK S \in SUBSET Axis : to \in [S -> Nat]
    BY <1>4 DEF SizeSnapshots
  <2>3. Leads(RestoreEntry("size", label, from, to), m, k)
    <3> HIDE DEF k
    <3> QED
      BY <1>4 DEF Leads
  <2> QED
    BY <1>4, <2>1, <2>2, <2>3, RestoreSizesIs
<1> QED
  BY <1>1, <1>2, <1>3, <1>4 DEF Leads

\* Each entry leads from the contents that the one after it found, the last
\* one from k, to those of the sheet beside it.
Links(entries, sheets, k) ==
  /\ Len(entries) = Len(sheets)
  /\ \A i \in 1 .. Len(entries) :
       Leads(entries[i],
             IF i = Len(entries) THEN k ELSE Contents(sheets[i + 1]),
             Contents(sheets[i]))

LEMMA LinksNothing ==
  ASSUME NEW k
  PROVE  Links(<<>>, <<>>, k)
<1>1. Len(<<>>) = 0
  OBVIOUS
<1> QED
  BY <1>1 DEF Links

LEMMA LinksOneMore ==
  ASSUME NEW entries \in Seq(Entries), NEW sheets \in Seq(Sheets),
         NEW sheet \in Sheets, NEW entry, NEW k,
         Links(entries, sheets, Contents(sheet)),
         Leads(entry, k, Contents(sheet))
  PROVE  /\ Append(entries, entry) \in Seq(Entries)
         /\ Append(sheets, sheet) \in Seq(Sheets)
         /\ Links(Append(entries, entry), Append(sheets, sheet), k)
<1> DEFINE n == Len(entries)
           E == Append(entries, entry)
           T == Append(sheets, sheet)
<1>1. entry \in Entries
  BY LeadsType
<1>2. /\ n \in Nat /\ Len(sheets) = n
      /\ E \in Seq(Entries) /\ T \in Seq(Sheets)
      /\ Len(E) = n + 1 /\ Len(T) = n + 1
      /\ E[n + 1] = entry /\ T[n + 1] = sheet
      /\ \A i \in 1 .. n : E[i] = entries[i] /\ T[i] = sheets[i]
  <2>1. n \in Nat /\ Len(sheets) = n
    BY LenProperties DEF Links
  <2>2. /\ E \in Seq(Entries) /\ Len(E) = n + 1 /\ E[n + 1] = entry
        /\ \A i \in 1 .. n : E[i] = entries[i]
    BY <1>1, AppendProperties
  <2>3. /\ T \in Seq(Sheets) /\ Len(T) = Len(sheets) + 1
        /\ T[Len(sheets) + 1] = sheet
        /\ \A i \in 1 .. Len(sheets) : T[i] = sheets[i]
    BY AppendProperties
  <2> QED
    BY <2>1, <2>2, <2>3
<1> HIDE DEF E, T
<1>3. ASSUME NEW i \in 1 .. n
      PROVE  Leads(entries[i],
                   IF i = n THEN Contents(sheet) ELSE Contents(sheets[i + 1]),
                   Contents(sheets[i]))
  BY DEF Links
<1> HIDE DEF n
<1>4. ASSUME NEW i \in 1 .. n + 1
      PROVE  Leads(E[i], IF i = n + 1 THEN k ELSE Contents(T[i + 1]),
                   Contents(T[i]))
  <2>1. CASE i = n + 1
    BY <1>2, <2>1
  <2>2. CASE i # n + 1
    <3>1. i \in 1 .. n /\ E[i] = entries[i] /\ T[i] = sheets[i]
      BY <1>2, <2>2
    <3>2. CASE i = n
      <4>1. T[i + 1] = sheet
        BY <1>2, <3>2
      <4> QED
        BY <1>3, <2>2, <3>1, <3>2, <4>1
    <3>3. CASE i # n
      <4>1. i + 1 \in 1 .. n
        BY <1>2, <3>1, <3>3
      <4>2. T[i + 1] = sheets[i + 1]
        BY <1>2, <4>1
      <4> QED
        BY <1>3, <2>2, <3>1, <3>3, <4>2
    <3> QED
      BY <3>2, <3>3
  <2> QED
    BY <2>1, <2>2
<1>5. Links(E, T, k)
  BY <1>2, <1>4 DEF Links
<1> QED
  BY <1>2, <1>5 DEF E, T

LEMMA FrontIs ==
  ASSUME NEW S, NEW s \in Seq(S), s # <<>>
  PROVE  /\ Front(s) \in Seq(S) /\ Len(Front(s)) = Len(s) - 1
         /\ \A i \in 1 .. Len(s) - 1 : Front(s)[i] = s[i]
<1> DEFINE n == Len(s)
<1>1. n \in Nat /\ n # 0
  BY EmptySeq
<1>2. Front(s) = SubSeq(s, 1, n - 1)
  BY DEF Front
<1>3. \A i \in 1 .. n - 1 : s[i] \in S
  <2>1. \A i \in 1 .. n : s[i] \in S
    BY ElementOfSeq
  <2> HIDE DEF n
  <2> QED
    BY <1>1, <2>1
<1> HIDE DEF n
<1>4. /\ SubSeq(s, 1, n - 1) \in Seq(S)
      /\ Len(SubSeq(s, 1, n - 1)) = IF 1 <= n - 1 THEN n - 1 - 1 + 1 ELSE 0
      /\ \A i \in 1 .. n - 1 - 1 + 1 : SubSeq(s, 1, n - 1)[i] = s[1 + i - 1]
  <2>1. 1 \in Int /\ n - 1 \in Int
    BY <1>1
  <2> QED
    BY <1>3, <2>1, SubSeqProperties
<1> DEFINE r == SubSeq(s, 1, n - 1)
<1> HIDE DEF r
<1>5. Len(r) = n - 1 /\ \A i \in 1 .. n - 1 : r[i] = s[i]
  BY <1>1, <1>4 DEF r
<1> QED
  BY <1>2, <1>4, <1>5 DEF r, n

LEMMA LinksOneLess ==
  ASSUME NEW entries \in Seq(Entries), NEW sheets \in Seq(Sheets), NEW k,
         Links(entries, sheets, k), entries # <<>>
  PROVE  /\ Leads(Last(entries), k, Contents(Last(sheets)))
         /\ Front(entries) \in Seq(Entries) /\ Front(sheets) \in Seq(Sheets)
         /\ Last(sheets) \in Sheets
         /\ Links(Front(entries), Front(sheets), Contents(Last(sheets)))
<1> DEFINE n == Len(entries)
           E == Front(entries)
           T == Front(sheets)
<1>1. /\ n \in Nat /\ n # 0 /\ Len(sheets) = n
  BY LenProperties, EmptySeq DEF Links
<1>2. sheets # <<>>
  <2>1. Len(<<>>) = 0
    OBVIOUS
  <2> QED
    BY <1>1, <2>1
<1>3. /\ E \in Seq(Entries) /\ Len(E) = n - 1
      /\ \A i \in 1 .. n - 1 : E[i] = entries[i]
  BY FrontIs
<1>4. /\ T \in Seq(Sheets) /\ Len(T) = n - 1
      /\ \A i \in 1 .. n - 1 : T[i] = sheets[i]
  BY <1>1, <1>2, FrontIs
<1>5. Last(entries) = entries[n] /\ Last(sheets) = sheets[n]
  BY <1>1 DEF Last
<1>6. sheets[n] \in Sheets
  BY <1>1, ElementOfSeq
<1> HIDE DEF E, T
<1>7. ASSUME NEW i \in 1 .. n
      PROVE  Leads(entries[i], IF i = n THEN k ELSE Contents(sheets[i + 1]),
                   Contents(sheets[i]))
  BY DEF Links
<1> HIDE DEF n
<1>8. Leads(entries[n], k, Contents(sheets[n]))
  <2>1. n \in 1 .. n
    BY <1>1
  <2> QED
    BY <1>7, <2>1
<1>9. ASSUME NEW i \in 1 .. n - 1
      PROVE  Leads(E[i],
                   IF i = n - 1
                     THEN Contents(sheets[n]) ELSE Contents(T[i + 1]),
                   Contents(T[i]))
  <2>1. i \in 1 .. n /\ i # n /\ E[i] = entries[i] /\ T[i] = sheets[i]
    BY <1>1, <1>3, <1>4
  <2>2. Leads(entries[i], Contents(sheets[i + 1]), Contents(sheets[i]))
    BY <1>7, <2>1
  <2>3. IF i = n - 1 THEN sheets[i + 1] = sheets[n]
                     ELSE T[i + 1] = sheets[i + 1]
    <3>1. i # n - 1 => i + 1 \in 1 .. n - 1
      BY <1>1
    <3> QED
      BY <1>1, <1>4, <3>1
  <2> QED
    BY <2>1, <2>2, <2>3
<1>10. Links(E, T, Contents(sheets[n]))
  BY <1>3, <1>4, <1>9 DEF Links
<1> QED
  BY <1>3, <1>4, <1>5, <1>6, <1>8, <1>10 DEF E, T

-----------------------------------------------------------------------------
(* The inductive invariant: types, the graph, and the chains of contents   *)
(* along which undo and redo lead.                                         *)

TypeOK ==
  /\ engine \in Engines
  /\ undo \in Seq(Entries) /\ redo \in Seq(Entries)
  /\ past \in Seq(Sheets) /\ future \in Seq(Sheets)
  /\ budget \in [Commands -> Nat]

HistoryLeads ==
  /\ Links(undo, past, ContentsOf(engine))
  /\ Links(redo, future, ContentsOf(engine))

IInv == TypeOK /\ Matches(engine) /\ HistoryLeads

LEMMA SpendIs ==
  ASSUME TypeOK, NEW kind \in Commands, Spend(kind)
  PROVE  budget' \in [Commands -> Nat] /\ budget' # budget
BY DEF TypeOK, Spend

LEMMA ExecKeeps ==
  ASSUME IInv, NEW kind \in Commands, NEW after \in Engines, NEW inverse,
         Matches(after), Leads(inverse, ContentsOf(after), ContentsOf(engine)),
         Exec(kind, after, inverse)
  PROVE  IInv' /\ budget' # budget
<1>1. budget' \in [Commands -> Nat] /\ budget' # budget
  BY SpendIs DEF IInv, Exec
<1>2. /\ engine' = after
      /\ undo' = Append(undo, inverse) /\ redo' = <<>>
      /\ past' = Append(past, SheetOf(engine)) /\ future' = <<>>
  BY DEF Exec
<1>3. /\ undo \in Seq(Entries) /\ past \in Seq(Sheets)
      /\ SheetOf(engine) \in Sheets
      /\ Links(undo, past, Contents(SheetOf(engine)))
      /\ Leads(inverse, ContentsOf(after), Contents(SheetOf(engine)))
  BY SheetOfType DEF IInv, TypeOK, HistoryLeads, ContentsOf
<1>4. /\ undo' \in Seq(Entries) /\ past' \in Seq(Sheets)
      /\ Links(undo', past', ContentsOf(after))
  BY <1>2, <1>3, LinksOneMore
<1>5. /\ redo' \in Seq(Entries) /\ future' \in Seq(Sheets)
      /\ Links(redo', future', ContentsOf(after))
  BY <1>2, EmptySeq, LinksNothing
<1> QED
  BY <1>1, <1>2, <1>4, <1>5
     DEF IInv, TypeOK, HistoryLeads, Matches, ContentsOf, SheetOf, Contents

LEMMA StartOverKeeps ==
  ASSUME IInv, NEW with \in Engines, Matches(with), StartOver(with)
  PROVE  IInv' /\ budget' # budget
<1>1. budget' \in [Commands -> Nat] /\ budget' # budget
  BY SpendIs DEF IInv, StartOver, Commands
<1>2. /\ engine' = with /\ undo' = <<>> /\ redo' = <<>>
      /\ past' = <<>> /\ future' = <<>>
  BY DEF StartOver
<1>3. /\ undo' \in Seq(Entries) /\ past' \in Seq(Sheets)
      /\ redo' \in Seq(Entries) /\ future' \in Seq(Sheets)
      /\ Links(undo', past', ContentsOf(with))
      /\ Links(redo', future', ContentsOf(with))
  BY <1>2, EmptySeq, LinksNothing
<1> QED
  BY <1>1, <1>2, <1>3
     DEF IInv, TypeOK, HistoryLeads, Matches, ContentsOf, SheetOf, Contents

LEMMA InitInv ==
  ASSUME Init
  PROVE  IInv
<1>1. PICK raws \in Starts : engine = Open(Typed(raws))
  BY DEF Init
<1>2. engine \in Engines /\ Matches(engine)
  BY <1>1, TypedType, OpenIs
<1>3. /\ undo = <<>> /\ redo = <<>> /\ past = <<>> /\ future = <<>>
      /\ budget \in [Commands -> Nat]
  BY SheetConstants DEF Init
<1> QED
  BY <1>2, <1>3, EmptySeq, LinksNothing DEF IInv, TypeOK, HistoryLeads

\* A format is given to cells that stay, texts and all.
LEMMA FormattedIs ==
  ASSUME NEW cell \in Cells, NEW format \in Nat
  PROVE  /\ Formatted(cell, format) \in Cells
         /\ Plain(Formatted(cell, format).raw) = Plain(cell.raw)
<1>1. CASE Occupied(cell)
  <2>1. Formatted(cell, format) = [cell EXCEPT !.format = format]
    BY <1>1 DEF Formatted
  <2> QED
    BY <2>1 DEF Cells
<1>2. CASE ~ Occupied(cell) /\ format = 0
  BY <1>2 DEF Formatted
<1>3. CASE ~ Occupied(cell) /\ format # 0
  <2>1. Formatted(cell, format) = ParseCell(Empty, format) /\ cell.raw = Absent
    BY <1>3 DEF Formatted, Occupied
  <2>2. /\ ParseCell(Empty, format) \in Cells
        /\ ParseCell(Empty, format).raw = Empty
    BY PlainRaws, ParseCellType
  <2> QED
    BY <2>1, <2>2 DEF Plain
<1> QED
  BY <1>1, <1>2, <1>3

LEMMA SetCellKeeps ==
  ASSUME IInv, NEW c \in Axis, NEW raw \in Raws, SetCellCommand(c, raw)
  PROVE  IInv' /\ budget' # budget
<1> DEFINE after == SetCell(engine, c, raw)
           k == ContentsOf(engine)
           prior == PriorRaw(engine, c)
<1>1. engine \in Engines /\ Matches(engine) /\ raw \in RawTexts
  BY SheetConstants DEF IInv, TypeOK
<1>2. /\ after \in Engines /\ Matches(after)
      /\ ContentsOf(after) = WithRaw(k, c, raw)
  BY <1>1, SetCellIs
<1>3. prior \in RawTexts /\ k = WithRaw(WithRaw(k, c, raw), c, prior)
  BY <1>1, PriorRawIs, WithRawBack
<1>4. Exec("set", after, SetEntry(c, prior))
  BY DEF SetCellCommand
<1> HIDE DEF after, k, prior
<1>5. Leads(SetEntry(c, prior), ContentsOf(after), k)
  BY <1>2, <1>3 DEF Leads
<1>6. "set" \in Commands
  BY DEF Commands
<1> QED
  BY <1>2, <1>4, <1>5, <1>6, ExecKeeps DEF k

LEMMA SetFormatKeeps ==
  ASSUME IInv, NEW lo \in Axis, NEW hi \in Axis, NEW format \in {0, 1},
         SetFormatCommand(lo, hi, format)
  PROVE  IInv' /\ budget' # budget
<1> DEFINE S == lo .. hi
           before == [c \in S |-> engine.cells[c]]
           snapshot == [c \in S |-> Formatted(engine.cells[c], format)]
           after == RestoreCells(engine, snapshot)
           k == ContentsOf(engine)
           inverse == RestoreEntry("cells", NoEdit, before, snapshot)
<1>1. engine \in Engines /\ Matches(engine)
  BY DEF IInv, TypeOK
<1>2. S \in SUBSET Axis
  BY LimitAssumption DEF Axis
<1>3. Exec("format", after, inverse)
  BY DEF SetFormatCommand
<1> HIDE DEF S
<1>4. \A c \in S : /\ engine.cells[c] \in Cells
                   /\ Formatted(engine.cells[c], format) \in Cells
                   /\ Plain(Formatted(engine.cells[c], format).raw)
                        = Plain(engine.cells[c].raw)
                   /\ Plain(engine.cells[c].raw) = k.raws[c]
  <2>1. format \in Nat
    OBVIOUS
  <2> QED
    BY <1>1, <1>2, <2>1, EngineIs, FormattedIs, ContentsAre
       DEF ContentsOf, SheetOf
<1>5. /\ before \in [S -> Cells] /\ snapshot \in [S -> Cells]
      /\ \A c \in S : /\ Plain(before[c].raw) = k.raws[c]
                      /\ Plain(snapshot[c].raw) = k.raws[c]
                      /\ Plain(snapshot[c].raw) = Plain(engine.cells[c].raw)
  BY <1>4
<1> HIDE DEF before, snapshot, after, k
<1>6. after \in Engines /\ Matches(after) /\ ContentsOf(after) = k
  BY <1>1, <1>2, <1>5, RestoreCellsIs DEF after, k
<1>7. /\ before \in Snapshots /\ snapshot \in Snapshots
      /\ Alike(before, k) /\ Alike(snapshot, k)
  BY <1>2, <1>5 DEF Snapshots, Alike
<1>8. Leads(inverse, ContentsOf(after), k)
  BY <1>6, <1>7 DEF Leads, Labels
<1> HIDE DEF inverse
<1>9. "format" \in Commands
  BY DEF Commands
<1> QED
  BY <1>3, <1>6, <1>8, <1>9, ExecKeeps DEF k

LEMMA ResizeKeeps ==
  ASSUME IInv, NEW i \in Axis, NEW size \in {0, 1}, ResizeCommand(i, size)
  PROVE  IInv' /\ budget' # budget
<1> DEFINE before == [j \in {i} |-> engine.sizes[i]]
           snapshot == [j \in {i} |-> size]
           after == RestoreSizes(engine, snapshot)
           k == ContentsOf(engine)
           inverse == RestoreEntry("size", NoEdit, before, snapshot)
<1>1. engine \in Engines /\ Matches(engine) /\ engine.sizes \in [Axis -> Nat]
  BY EngineIs DEF IInv, TypeOK
<1>2. Exec("resize", after, inverse)
  BY DEF ResizeCommand
<1>3. /\ before \in [{i} -> Nat] /\ snapshot \in [{i} -> Nat]
      /\ {i} \in SUBSET Axis
  BY <1>1
<1>4. before \in SizeSnapshots /\ snapshot \in SizeSnapshots
  <2> HIDE DEF before, snapshot
  <2> QED
    BY <1>3 DEF SizeSnapshots
<1>5. k = WithSizes(WithSizes(k, snapshot), before)
  <2> DEFINE raws == [c \in Axis |-> Plain(engine.cells[c].raw)]
             sizes == engine.sizes
             changed == [j \in Axis |-> IF j \in DOMAIN snapshot
                                          THEN snapshot[j] ELSE sizes[j]]
             back == [j \in Axis |-> IF j \in DOMAIN before THEN before[j]
                                     ELSE changed[j]]
  <2>1. k = [raws |-> raws, sizes |-> sizes]
    BY ContentsOfAre
  <2>2. back = sizes
    BY <1>1
  <2> HIDE DEF raws, sizes, before, snapshot, k
  <2>3. WithSizes(k, snapshot) = [raws |-> raws, sizes |-> changed]
    BY <2>1, WithSizesIs
  <2> HIDE DEF changed
  <2>4. WithSizes(WithSizes(k, snapshot), before)
          = [raws |-> raws, sizes |-> back]
    BY <2>3, WithSizesIs DEF back
  <2> QED
    BY <2>1, <2>2, <2>4
<1> HIDE DEF before, snapshot, after, k
<1>6. /\ after \in Engines /\ Matches(after)
      /\ ContentsOf(after) = WithSizes(k, snapshot)
  BY <1>1, <1>3, RestoreSizesIs DEF after, k
<1>7. Leads(inverse, ContentsOf(after), k)
  BY <1>4, <1>5, <1>6 DEF Leads, Labels
<1> HIDE DEF inverse
<1>8. "resize" \in Commands
  BY DEF Commands
<1> QED
  BY <1>2, <1>6, <1>7, <1>8, ExecKeeps DEF k

LEMMA StructuralEditKeeps ==
  ASSUME IInv, NEW e \in Edits, StructuralEditCommand(e)
  PROVE  IInv' /\ budget' # budget
<1> DEFINE shifted == Shifted(SheetOf(engine), e)
           after == ReplaceSheet(engine, shifted)
           k == ContentsOf(engine)
           inverse == RestoreEntry("sheet", e, SheetOf(engine), SheetOf(after))
<1>1. engine \in Engines /\ SheetOf(engine) \in Sheets /\ InBounds(e)
  BY SheetOfType DEF IInv, TypeOK, StructuralEditCommand
<1>2. Exec("edit", after, inverse)
  BY DEF StructuralEditCommand
<1>3. shifted \in Sheets
  BY <1>1, ShiftedType
<1> HIDE DEF shifted
<1>4. after \in Engines /\ Matches(after)
  BY <1>1, <1>3, ReplaceSheetIs
<1> HIDE DEF after
<1>5. /\ SheetOf(after) \in Sheets
      /\ ContentsOf(after) = Contents(SheetOf(after))
      /\ k = Contents(SheetOf(engine))
  BY <1>4, SheetOfType DEF ContentsOf
<1>6. Leads(inverse, ContentsOf(after), k)
  BY <1>1, <1>5 DEF Leads, Labels
<1> HIDE DEF inverse
<1>7. "edit" \in Commands
  BY DEF Commands
<1> QED
  BY <1>2, <1>4, <1>6, <1>7, ExecKeeps

\* Undo goes back one link, and redo gains it.
LEMMA UndoKeeps ==
  ASSUME IInv, Undo
  PROVE  /\ IInv'
         /\ ContentsOf(engine)' = Contents(Last(past))
         /\ Len(redo') = Len(redo) + 1 /\ Len(redo) \in Nat
<1> DEFINE k == ContentsOf(engine)
           m == Contents(Last(past))
           applied == Apply(engine, Last(undo))
<1>1. /\ engine \in Engines /\ Matches(engine)
      /\ undo \in Seq(Entries) /\ redo \in Seq(Entries)
      /\ past \in Seq(Sheets) /\ future \in Seq(Sheets)
      /\ Links(undo, past, k) /\ Links(redo, future, k)
      /\ budget \in [Commands -> Nat] /\ SheetOf(engine) \in Sheets
  BY SheetOfType DEF IInv, TypeOK, HistoryLeads
<1>2. /\ undo # <<>> /\ engine' = applied.engine
      /\ redo' = Append(redo, applied.inverse)
      /\ undo' = Front(undo) /\ past' = Front(past)
      /\ future' = Append(future, SheetOf(engine)) /\ budget' = budget
  BY DEF Undo
<1>3. /\ Leads(Last(undo), k, m)
      /\ undo' \in Seq(Entries) /\ past' \in Seq(Sheets)
      /\ Links(undo', past', m)
  BY <1>1, <1>2, LinksOneLess
<1> HIDE DEF k, m
<1>4. /\ applied.engine \in Engines /\ Matches(applied.engine)
      /\ ContentsOf(applied.engine) = m
      /\ Leads(applied.inverse, m, k)
  BY <1>1, <1>3, ApplyIs DEF k
<1> HIDE DEF applied
<1>5. /\ redo' \in Seq(Entries) /\ future' \in Seq(Sheets)
      /\ Links(redo', future', m)
  <2>1. k = Contents(SheetOf(engine))
    BY DEF k, ContentsOf
  <2> QED
    BY <1>1, <1>2, <1>4, <2>1, LinksOneMore
<1>6. ContentsOf(engine)' = ContentsOf(applied.engine)
  BY <1>2 DEF ContentsOf, SheetOf, Contents
<1>7. Matches(engine)'
  BY <1>2, <1>4 DEF Matches
<1>8. IInv'
  BY <1>1, <1>2, <1>3, <1>4, <1>5, <1>6, <1>7 DEF IInv, TypeOK, HistoryLeads
<1>9. Len(redo') = Len(redo) + 1 /\ Len(redo) \in Nat
  <2>1. applied.inverse \in Entries
    BY <1>4, LeadsType
  <2> QED
    BY <1>1, <1>2, <2>1, AppendProperties, LenProperties
<1> QED
  BY <1>4, <1>6, <1>8, <1>9 DEF m

LEMMA RedoKeeps ==
  ASSUME IInv, Redo
  PROVE  /\ IInv'
         /\ ContentsOf(engine)' = Contents(Last(future))
         /\ Len(undo') = Len(undo) + 1 /\ Len(undo) \in Nat
<1> DEFINE k == ContentsOf(engine)
           m == Contents(Last(future))
           applied == Apply(engine, Last(redo))
<1>1. /\ engine \in Engines /\ Matches(engine)
      /\ undo \in Seq(Entries) /\ redo \in Seq(Entries)
      /\ past \in Seq(Sheets) /\ future \in Seq(Sheets)
      /\ Links(undo, past, k) /\ Links(redo, future, k)
      /\ budget \in [Commands -> Nat] /\ SheetOf(engine) \in Sheets
  BY SheetOfType DEF IInv, TypeOK, HistoryLeads
<1>2. /\ redo # <<>> /\ engine' = applied.engine
      /\ undo' = Append(undo, applied.inverse)
      /\ redo' = Front(redo) /\ future' = Front(future)
      /\ past' = Append(past, SheetOf(engine)) /\ budget' = budget
  BY DEF Redo
<1>3. /\ Leads(Last(redo), k, m)
      /\ redo' \in Seq(Entries) /\ future' \in Seq(Sheets)
      /\ Links(redo', future', m)
  BY <1>1, <1>2, LinksOneLess
<1> HIDE DEF k, m
<1>4. /\ applied.engine \in Engines /\ Matches(applied.engine)
      /\ ContentsOf(applied.engine) = m
      /\ Leads(applied.inverse, m, k)
  BY <1>1, <1>3, ApplyIs DEF k
<1> HIDE DEF applied
<1>5. /\ undo' \in Seq(Entries) /\ past' \in Seq(Sheets)
      /\ Links(undo', past', m)
  <2>1. k = Contents(SheetOf(engine))
    BY DEF k, ContentsOf
  <2> QED
    BY <1>1, <1>2, <1>4, <2>1, LinksOneMore
<1>6. ContentsOf(engine)' = ContentsOf(applied.engine)
  BY <1>2 DEF ContentsOf, SheetOf, Contents
<1>7. Matches(engine)'
  BY <1>2, <1>4 DEF Matches
<1>8. IInv'
  BY <1>1, <1>2, <1>3, <1>4, <1>5, <1>6, <1>7 DEF IInv, TypeOK, HistoryLeads
<1>9. Len(undo') = Len(undo) + 1 /\ Len(undo) \in Nat
  <2>1. applied.inverse \in Entries
    BY <1>4, LeadsType
  <2> QED
    BY <1>1, <1>2, <2>1, AppendProperties, LenProperties
<1> QED
  BY <1>4, <1>6, <1>8, <1>9 DEF m

\* What a step does: it spends a command, or undoes, or redoes.
LEMMA StepInv ==
  ASSUME IInv, [Next]_vars
  PROVE  /\ IInv'
         /\ Undo \/ Redo \/ budget' # budget \/ UNCHANGED vars
<1>1. ASSUME NEW c \in Axis, NEW raw \in Raws, SetCellCommand(c, raw)
      PROVE  IInv' /\ budget' # budget
  BY <1>1, SetCellKeeps
<1>2. ASSUME NEW lo \in Axis, NEW hi \in Axis, NEW format \in {0, 1},
             SetFormatCommand(lo, hi, format)
      PROVE  IInv' /\ budget' # budget
  BY <1>2, SetFormatKeeps
<1>3. ASSUME NEW i \in Axis, NEW size \in {0, 1}, ResizeCommand(i, size)
      PROVE  IInv' /\ budget' # budget
  BY <1>3, ResizeKeeps
<1>4. ASSUME NEW e \in Edits, StructuralEditCommand(e)
      PROVE  IInv' /\ budget' # budget
  BY <1>4, StructuralEditKeeps
<1>5. CASE Undo
  BY <1>5, UndoKeeps
<1>6. CASE Redo
  BY <1>6, RedoKeeps
<1>7. CASE Reopen
  <2>1. Saved(engine) \in Sheets
    BY SavedType DEF IInv, TypeOK
  <2>2. Open(Saved(engine)) \in Engines /\ Matches(Open(Saved(engine)))
    BY <2>1, OpenIs
  <2> QED
    BY <1>7, <2>2, StartOverKeeps DEF Reopen
<1>8. CASE NewWorkbook
  BY <1>8, NothingIs, StartOverKeeps DEF NewWorkbook
<1>9. CASE UNCHANGED vars
  <2>1. IInv'
    BY <1>9, ZenonT(30)
       DEF IInv, TypeOK, HistoryLeads, Links, Matches, ContentsOf, SheetOf,
           Contents, vars
  <2> QED
    BY <1>9, <2>1
<1> QED
  BY <1>1, <1>2, <1>3, <1>4, <1>5, <1>6, <1>7, <1>8, <1>9 DEF Next

\* Types, the graph and the chains of contents hold in every state: whatever is
\* done, undone, redone, saved and opened.
THEOREM InvHolds == Spec => []IInv
<1>1. Init => IInv
  BY InitInv
<1>2. IInv /\ [Next]_vars => IInv'
  BY StepInv
<1> QED
  BY <1>1, <1>2, PTL DEF Spec

\* The engine's tables, the entries of the history and the sheets kept for the
\* properties have their types.
THEOREM TypeCorrect == Spec => []TypeOK
<1>1. IInv => TypeOK
  BY DEF IInv
<1> QED
  BY <1>1, InvHolds, PTL

\* recalc.rs:216: whatever is typed, formatted, resized, inserted, deleted,
\* undone, redone, saved and opened, the graph that the operations keep up step
\* by step is the one that the formulas of the sheet have.
THEOREM GraphKept == Spec => []GraphMatchesSheet
<1>1. IInv => GraphMatchesSheet
  BY DEF IInv, Matches, GraphMatchesSheet
<1> QED
  BY <1>1, InvHolds, PTL

\* history.rs:48-73: undo brings back the contents that the command found, redo
\* those it left, however many commands of whatever kinds are in between, though
\* the history keeps only one raw text for an edit and a few cells for a format.
THEOREM UndoRight == Spec => UndoRestores
<1> DEFINE A == /\ Len(undo') < Len(undo) /\ budget' = budget =>
                     Contents(SheetOf(engine')) = Contents(Last(past))
                /\ Len(redo') < Len(redo) /\ budget' = budget =>
                     Contents(SheetOf(engine')) = Contents(Last(future))
<1>1. ASSUME IInv, [Next]_vars PROVE A \/ UNCHANGED vars
  <2>1. CASE Undo
    <3>1. /\ ContentsOf(engine)' = Contents(Last(past))
          /\ ~ (Len(redo') < Len(redo))
      BY <1>1, <2>1, UndoKeeps
    <3> QED
      BY <3>1 DEF ContentsOf
  <2>2. CASE Redo
    <3>1. /\ ContentsOf(engine)' = Contents(Last(future))
          /\ ~ (Len(undo') < Len(undo))
      BY <1>1, <2>2, RedoKeeps
    <3> QED
      BY <3>1 DEF ContentsOf
  <2> QED
    BY <1>1, <2>1, <2>2, StepInv
<1>2. IInv /\ [Next]_vars => [A]_vars
  BY <1>1 DEF vars
<1> QED
  BY <1>2, InvHolds, PTL DEF Spec, UndoRestores

-----------------------------------------------------------------------------
(* Exact values.  INDIRECT is left out: a sheet without it is direct.      *)

Direct(sheet) == \A c \in Axis : sheet.cells[c].raw.kind # "indirect"

ParsedValue(raw) == IF raw.kind = "number" THEN raw.lo ELSE Blank

\* Cells that hold no formula show what was typed.
Parsed(sheet) ==
  \A c \in Axis : ~ IsFormula(sheet.cells[c].raw) =>
    sheet.cells[c].value = ParsedValue(sheet.cells[c].raw)

Unlinked(g) == \A c \in Axis : g.dynamic[c] = {}

OnCycle(next, c) == c \in Reached(next, next[c])

ExactAt(g, c) ==
  g.cells[c].value = IF OnCycle(Static(g), c) THEN Circular
                     ELSE Value(g, g.cells[c].raw)

Exact(g) == \A c \in Axis : ExactAt(g, c)

LEMMA NothingReached ==
  ASSUME NEW next \in Nexts
  PROVE  Reached(next, {}) = {}
<1>1. {} \in SUBSET Axis /\ Closed(next, {})
  BY DEF Closed
<1>2. Reached(next, {}) \subseteq {}
  BY <1>1, ReachedLeast
<1> QED
  BY <1>2

LEMMA StaticIs ==
  ASSUME NEW g \in Engines
  PROVE  /\ Static(g) \in Nexts
         /\ \A c \in Axis :
              Static(g)[c]
                = References(g.cells[c].raw) \cup Spanned(g.cells[c].raw)
         /\ Matches(g) /\ Unlinked(g) =>
              \A c \in Axis : Reads(g, c) = Static(g)[c]
<1>1. \A c \in Axis : /\ References(g.cells[c].raw) \in SUBSET Axis
                      /\ Spanned(g.cells[c].raw) \in SUBSET Axis
  BY EngineIs, ReadsOfRaw
<1>2. \A c \in Axis :
        Static(g)[c] = References(g.cells[c].raw) \cup Spanned(g.cells[c].raw)
  BY DEF Static
<1>3. Static(g) \in Nexts
  BY <1>1 DEF Static, Nexts
<1>4. Matches(g) /\ Unlinked(g) =>
        \A c \in Axis : Reads(g, c) = Static(g)[c]
  BY <1>2 DEF Matches, Unlinked, Reads
<1> QED
  BY <1>2, <1>3, <1>4

LEMMA StaticAlike ==
  ASSUME NEW g \in Engines, NEW h \in Engines,
         \A c \in Axis : Plain(h.cells[c].raw) = Plain(g.cells[c].raw)
  PROVE  Static(h) = Static(g)
<1>1. \A c \in Axis :
        /\ References(h.cells[c].raw) = References(g.cells[c].raw)
        /\ Spanned(h.cells[c].raw) = Spanned(g.cells[c].raw)
  BY EngineIs, PlainReads
<1> QED
  BY <1>1 DEF Static

LEMMA NoFormula ==
  ASSUME NEW g, NEW raw \in RawTexts, ~ IsFormula(raw)
  PROVE  /\ References(raw) = {} /\ Spanned(raw) = {}
         /\ Value(g, raw) = ParsedValue(raw)
<1>1. raw.kind \in {"empty", "absent", "number"}
  BY RawIs DEF IsFormula
<1> QED
  BY <1>1, ValueIs DEF References, Spanned, ParsedValue

LEMMA ValueAlike ==
  ASSUME NEW g, NEW h, NEW raw \in RawTexts, raw.kind # "indirect",
         \A d \in References(raw) \cup Spanned(raw) :
           h.cells[d].value = g.cells[d].value
  PROVE  Value(h, raw) = Value(g, raw)
<1>1. CASE raw.kind = "ref"
  <2>1. raw.lo \in References(raw)
    BY <1>1 DEF References
  <2> QED
    BY <1>1, <2>1, ValueIs
<1>2. CASE raw.kind = "sum"
  <2>1. SpanErrors(h, raw) = SpanErrors(g, raw)
    BY DEF SpanErrors
  <2>2. [c \in Spanned(raw) |-> h.cells[c].value]
          = [c \in Spanned(raw) |-> g.cells[c].value]
    OBVIOUS
  <2>3. SpanErrors(g, raw) \in SUBSET Spanned(raw)
    BY DEF SpanErrors
  <2>4. SpanErrors(g, raw) # {} => FirstOf(SpanErrors(g, raw)) \in Spanned(raw)
    <3>1. Spanned(raw) \in SUBSET Axis
      BY ReadsOfRaw
    <3>2. SpanErrors(g, raw) \in SUBSET Axis
      BY <2>3, <3>1
    <3> QED
      BY <2>3, <3>2, FirstOfIs
  <2>5. ValueOfSum(h, raw) = ValueOfSum(g, raw)
    BY <2>1, <2>2, <2>4 DEF ValueOfSum
  <2> QED
    BY <1>2, <2>5, ValueIs
<1>3. CASE raw.kind \notin {"ref", "sum"}
  BY <1>3, RawIs, ValueIs
<1> QED
  BY <1>1, <1>2, <1>3

\* A cell on a cycle reads something: it holds a formula.
LEMMA CycleReads ==
  ASSUME NEW g \in Engines, NEW c \in Axis, OnCycle(Static(g), c)
  PROVE  IsFormula(g.cells[c].raw) /\ Occupied(g.cells[c])
<1>1. g.cells[c].raw \in RawTexts
  BY EngineIs
<1>2. Static(g)[c] # {}
  BY StaticIs, NothingReached DEF OnCycle
<1>3. IsFormula(g.cells[c].raw)
  BY <1>1, <1>2, StaticIs, NoFormula
<1> QED
  BY <1>3, PlainRaws DEF Occupied

LEMMA ExactParsed ==
  ASSUME NEW g \in Engines, Exact(g)
  PROVE  Parsed(g)
<1>1. ASSUME NEW c \in Axis, ~ IsFormula(g.cells[c].raw)
      PROVE  g.cells[c].value = ParsedValue(g.cells[c].raw)
  <2>1. ~ OnCycle(Static(g), c)
    BY <1>1, CycleReads
  <2>2. g.cells[c].raw \in RawTexts
    BY EngineIs
  <2> QED
    BY <1>1, <2>1, <2>2, NoFormula DEF Exact, ExactAt
<1> QED
  BY <1>1 DEF Parsed

\* The cells that read one of D are in D.
Upward(next, D) == \A c \in Axis : next[c] \cap D # {} => c \in D

\* The cycles through a set that holds all readers of its cells are inside it.
LEMMA CyclesInside ==
  ASSUME NEW g \in Engines, Matches(g), Unlinked(g), NEW D \in SUBSET Axis,
         Upward(Static(g), D)
  PROVE  CycleNodes(g, D) = {c \in D : OnCycle(Static(g), c)}
<1> DEFINE next == Static(g)
           inner == Within(g, D)
<1>1. /\ next \in Nexts /\ inner \in Nexts
      /\ \A c \in D : inner[c] = next[c] \cap D
      /\ \A c \in Axis : inner[c] \subseteq D /\ inner[c] \subseteq next[c]
  <2>1. next \in Nexts /\ inner \in Nexts
    BY StaticIs, CycleNodesAre
  <2>2. \A c \in Axis : Reads(g, c) = next[c]
    BY StaticIs
  <2> HIDE DEF next
  <2>3. \A c \in Axis : inner[c] = IF c \in D THEN next[c] \cap D ELSE {}
    BY <2>2 DEF Within
  <2> HIDE DEF inner
  <2> QED
    BY <2>1, <2>3
<1> HIDE DEF next, inner
<1>2. ASSUME NEW c \in D
      PROVE  c \in Reached(inner, inner[c]) <=> c \in Reached(next, next[c])
  <2> DEFINE I == Reached(inner, inner[c])
             O == Reached(next, next[c])
             X == (Axis \ D) \cup I
  <2>1. next[c] \in SUBSET Axis /\ inner[c] \in SUBSET Axis
    BY <1>1 DEF Nexts
  <2>2. /\ I \in SUBSET Axis /\ inner[c] \subseteq I /\ Closed(inner, I)
        /\ O \in SUBSET Axis /\ next[c] \subseteq O /\ Closed(next, O)
    BY <1>1, <2>1, ReachedClosed
  <2>3. I \subseteq O
    <3>1. inner[c] \subseteq O /\ Closed(inner, O)
      BY <1>1, <2>2 DEF Closed
    <3> HIDE DEF O
    <3> QED
      BY <1>1, <2>1, <3>1, ReachedLeast
  <2>4. I \subseteq D
    <3>1. Closed(inner, D) /\ inner[c] \subseteq D
      BY <1>1 DEF Closed
    <3> QED
      BY <1>1, <2>1, <3>1, ReachedLeast
  <2> HIDE DEF I
  <2>5. next[c] \subseteq X
    BY <1>1, <2>1, <2>2
  <2>6. ASSUME NEW x \in X PROVE next[x] \subseteq X
    <3>1. x \in Axis /\ next[x] \subseteq Axis
      BY <1>1, <2>2 DEF Nexts
    <3>2. CASE x \notin D
      <4>1. next[x] \cap D = {}
        BY <3>1, <3>2 DEF Upward, next
      <4> QED
        BY <3>1, <4>1
    <3>3. CASE x \in D
      <4>1. x \in I
        BY <3>3
      <4>2. next[x] \cap D \subseteq I
        BY <1>1, <2>2, <3>3, <4>1 DEF Closed
      <4> QED
        BY <3>1, <4>2
    <3> QED
      BY <3>2, <3>3
  <2> HIDE DEF X
  <2>7. O \subseteq X
    <3>1. Closed(next, X)
      BY <2>6 DEF Closed
    <3> QED
      BY <1>1, <2>1, <2>5, <3>1, ReachedLeast
  <2> QED
    BY <2>3, <2>7 DEF X, I
<1>3. \A c \in D : c \in CycleNodes(g, D) <=> OnCycle(Static(g), c)
  BY <1>2, CycleNodesAre DEF OnCycle, next, inner
<1>4. CycleNodes(g, D) \subseteq D
  BY CycleNodesAre
<1> QED
  BY <1>3, <1>4

\* Every cell of order comes after those of C that it reads.
InOrder(next, C, order) ==
  /\ Lists(order, C)
  /\ \A i \in 1 .. Len(order) : next[order[i]] \cap C
                                  \subseteq Before(order, i - 1)

\* h is g with the first n cells of order evaluated.
Partly(g, order, n, h) ==
  /\ Kept(g, h) /\ Unlinked(h)
  /\ \A c \in Axis : c \notin Before(order, n) => h.cells[c] = g.cells[c]
  /\ \A c \in Axis : c \in Before(order, n) =>
       h.cells[c].value = Value(h, h.cells[c].raw)

LEMMA BeforeNext ==
  ASSUME NEW order, NEW C, Lists(order, C), NEW n \in Nat, n + 1 <= Len(order)
  PROVE  /\ Before(order, n + 1) = Before(order, n) \cup {order[n + 1]}
         /\ order[n + 1] \notin Before(order, n)
         /\ order[n + 1] \in C
<1> DEFINE k == Len(order)
<1>1. k \in Nat
  BY BeforeIs
<1>2. \A c, m : c \in Before(order, m)
                  <=> \E i \in 1 .. k : i <= m /\ order[i] = c
  BY DEF Before
<1>3. /\ \A i \in 1 .. k : \A j \in 1 .. k : order[i] = order[j] => i = j
      /\ \A i \in 1 .. k : order[i] \in C
  BY DEF Lists
<1> HIDE DEF k
<1>4. n + 1 \in 1 .. k
  BY <1>1 DEF k
<1>5. \A i \in 1 .. k : i <= n + 1 <=> i <= n \/ i = n + 1
  BY <1>1
<1>6. \A i \in 1 .. k : i <= n => i # n + 1
  BY <1>1
<1>7. order[n + 1] \notin Before(order, n)
  BY <1>2, <1>3, <1>4, <1>6
<1>8. Before(order, n + 1) = Before(order, n) \cup {order[n + 1]}
  BY <1>2, <1>4, <1>5
<1> QED
  BY <1>3, <1>4, <1>7, <1>8

LEMMA EvaluatesNext ==
  ASSUME NEW g \in Engines, Direct(g), Parsed(g),
         NEW C \in SUBSET Axis, NEW order, InOrder(Static(g), C, order),
         NEW n \in Nat, n + 1 <= Len(order), NEW h, Partly(g, order, n, h),
         NEW j, Evaluation(h, order[n + 1], j)
  PROVE  Partly(g, order, n + 1, j)
<1> DEFINE x == order[n + 1]
<1>1. /\ Lists(order, C) /\ Len(order) \in Nat
      /\ \A i \in 1 .. Len(order) :
           Static(g)[order[i]] \cap C \subseteq Before(order, i - 1)
  BY BeforeIs DEF InOrder
<1>2. /\ Before(order, n + 1) = Before(order, n) \cup {x}
      /\ x \notin Before(order, n) /\ x \in C /\ x \in Axis
  BY <1>1, BeforeNext
<1>3. \A c \in Before(order, n + 1) : x \notin Static(g)[c]
  <2>1. ASSUME NEW i \in 1 .. Len(order), i <= n + 1
        PROVE  x \notin Static(g)[order[i]]
    <3>1. i - 1 \in Nat /\ i - 1 <= n
      BY <1>1, <2>1
    <3>2. Before(order, i - 1) \subseteq Before(order, n)
      BY <1>1, <3>1, BeforeIs
    <3> QED
      BY <1>1, <1>2, <3>2
  <2> QED
    BY <2>1 DEF Before
<1> HIDE DEF x
<1>4. /\ Kept(g, h) /\ Unlinked(h) /\ h \in Engines
      /\ \A c \in Axis : c \notin Before(order, n) => h.cells[c] = g.cells[c]
      /\ \A c \in Axis : c \in Before(order, n) =>
           h.cells[c].value = Value(h, h.cells[c].raw)
  BY DEF Partly, Kept
<1>5. Evaluation(h, x, j)
  BY DEF x
<1>6. /\ Kept(h, j) /\ j \in Engines /\ Kept(g, j)
      /\ \A d \in Axis : d # x =>
           j.cells[d] = h.cells[d] /\ j.dynamic[d] = h.dynamic[d]
  BY <1>4, <1>5, KeptFurther DEF Evaluation, Kept
<1>7. \A c \in Axis : /\ h.cells[c].raw = g.cells[c].raw
                      /\ j.cells[c].raw = g.cells[c].raw
                      /\ g.cells[c].raw \in RawTexts
                      /\ g.cells[c].raw.kind # "indirect"
  BY <1>4, <1>6, EngineIs DEF Kept, Direct
<1>8. Unlinked(j)
  <2>1. j.dynamic[x] = {}
    <3>1. CASE IsFormula(h.cells[x].raw)
      <4>1. j.dynamic[x] = RecordedRange(h, h.cells[x].raw)
        BY <1>5, <3>1 DEF Evaluation
      <4> QED
        BY <1>2, <1>7, <4>1 DEF RecordedRange
    <3>2. CASE ~ IsFormula(h.cells[x].raw)
      BY <1>2, <1>4, <1>5, <3>2 DEF Evaluation, Unlinked
    <3> QED
      BY <3>1, <3>2
  <2> QED
    BY <1>4, <1>6, <2>1 DEF Unlinked
\* What is read by a cell done before, or by x, is not x.
<1>9. ASSUME NEW c \in Axis, c \in Before(order, n + 1)
      PROVE  Value(j, g.cells[c].raw) = Value(h, g.cells[c].raw)
  <2>1. \A d \in Static(g)[c] : d \in Axis /\ d # x
    BY <1>3, <1>9, StaticIs DEF Nexts
  <2>2. \A d \in References(g.cells[c].raw) \cup Spanned(g.cells[c].raw) :
          j.cells[d].value = h.cells[d].value
    BY <1>6, <2>1, StaticIs
  <2> QED
    BY <1>7, <2>2, ValueAlike
<1>10. \A c \in Axis : c \notin Before(order, n + 1) => j.cells[c] = g.cells[c]
  BY <1>2, <1>4, <1>6
<1>11. ASSUME NEW c \in Axis, c \in Before(order, n + 1)
       PROVE  j.cells[c].value = Value(j, j.cells[c].raw)
  <2>1. CASE c # x
    <3>1. c \in Before(order, n)
      BY <1>2, <1>11, <2>1
    <3> QED
      BY <1>4, <1>6, <1>7, <1>9, <1>11, <2>1, <3>1
  <2>2. CASE c = x /\ IsFormula(g.cells[x].raw)
    <3>1. j.cells[x].value = Value(h, h.cells[x].raw)
      BY <1>2, <1>5, <1>7, <2>2 DEF Evaluation
    <3> QED
      BY <1>7, <1>9, <1>11, <2>2, <3>1
  <2>3. CASE c = x /\ ~ IsFormula(g.cells[x].raw)
    <3>1. j = h
      BY <1>2, <1>5, <1>7, <2>3 DEF Evaluation
    <3>2. j.cells[x].value = ParsedValue(g.cells[x].raw)
      BY <1>2, <1>4, <2>3, <3>1 DEF Parsed
    <3>3. Value(j, g.cells[x].raw) = ParsedValue(g.cells[x].raw)
      BY <1>2, <1>7, <2>3, NoFormula
    <3> QED
      BY <1>2, <1>7, <2>3, <3>2, <3>3
  <2> QED
    BY <2>1, <2>2, <2>3
<1> QED
  BY <1>6, <1>8, <1>10, <1>11 DEF Partly

\* In that order every cell is evaluated over the values that stay.
LEMMA EvaluatedExact ==
  ASSUME NEW g \in Engines, Direct(g), Unlinked(g), Parsed(g),
         NEW C \in SUBSET Axis, NEW order, InOrder(Static(g), C, order)
  PROVE  /\ Kept(g, Evaluated(g, order)) /\ Unlinked(Evaluated(g, order))
         /\ \A c \in Axis \ C : Evaluated(g, order).cells[c] = g.cells[c]
         /\ \A c \in C : Evaluated(g, order).cells[c].value
                           = Value(Evaluated(g, order), g.cells[c].raw)
<1>1. Lists(order, C) /\ order \in Seq(Axis)
  BY DEF InOrder, Lists
<1>2. PICK f \in [0 .. Len(order) -> Engines] :
        /\ f[0] = g
        /\ \A n \in 1 .. Len(order) : Evaluation(f[n - 1], order[n], f[n])
        /\ Evaluated(g, order) = f[Len(order)]
  BY <1>1, EvaluatedIs
<1> DEFINE k == Len(order)
           W == {n \in 0 .. k : Partly(g, order, n, f[n])}
<1>3. k \in Nat
  BY <1>1, LenProperties
<1>4. 0 \in W
  <2>1. Before(order, 0) = {}
    BY <1>1, BeforeIs
  <2>2. Partly(g, order, 0, g)
    BY <2>1, KeptSame DEF Partly
  <2> QED
    BY <1>2, <1>3, <2>2
<1>5. ASSUME NEW n \in 0 .. k - 1, n \in W PROVE n + 1 \in W
  <2>1. n \in Nat /\ n + 1 <= k /\ n + 1 \in 1 .. k /\ (n + 1) - 1 = n
    BY <1>3
  <2>2. Partly(g, order, n, f[n]) /\ Evaluation(f[n], order[n + 1], f[n + 1])
    BY <1>2, <1>5, <2>1
  <2>3. Partly(g, order, n + 1, f[n + 1])
    BY <2>1, <2>2, EvaluatesNext
  <2> QED
    BY <1>3, <2>1, <2>3
<1> HIDE DEF W, k
<1>6. k \in W
  <2>1. \A n \in 0 .. k : n \in W
    BY <1>3, <1>4, <1>5, UpTo
  <2> QED
    BY <1>3, <2>1
<1> DEFINE h == Evaluated(g, order)
<1>7. Partly(g, order, k, h)
  BY <1>2, <1>6 DEF W, k
<1>8. Before(order, k) = C
  BY <1>1, <1>3, BeforeIs DEF k
<1> HIDE DEF h
<1>9. \A c \in Axis : h.cells[c].raw = g.cells[c].raw
  BY <1>7 DEF Partly, Kept
<1>10. /\ Kept(g, h) /\ Unlinked(h)
       /\ \A c \in Axis \ C : h.cells[c] = g.cells[c]
       /\ \A c \in C : h.cells[c].value = Value(h, g.cells[c].raw)
  BY <1>7, <1>8, <1>9 DEF Partly
<1> QED
  BY <1>10 DEF h

\* recalc_dirty on a set that holds all readers of its cells makes their values
\* exact, if those of the other cells are.
LEMMA RecalcDirtyExact ==
  ASSUME NEW g \in Engines, Matches(g), Direct(g), Unlinked(g), Parsed(g),
         NEW D \in SUBSET Axis, Upward(Static(g), D),
         \A c \in Axis \ D : ExactAt(g, c)
  PROVE  /\ Kept(g, RecalcDirty(g, D))
         /\ Unlinked(RecalcDirty(g, D))
         /\ Exact(RecalcDirty(g, D))
<1> DEFINE next == Static(g)
           circular == CycleNodes(g, D)
           C == D \ circular
           flagged == Flag(g, circular)
           order == Order(g, C)
           h == Evaluated(flagged, order)
           again == CycleNodes(h, D) \ circular
           last == Flag(h, again)
<1>1. RecalcDirty(g, D) = last
  BY DEF RecalcDirty
<1>2. circular = {c \in D : OnCycle(next, c)}
  BY CyclesInside
<1>3. /\ next \in Nexts
      /\ \A c \in Axis : Reads(g, c) = next[c]
      /\ \A c \in Axis :
           next[c] = References(g.cells[c].raw) \cup Spanned(g.cells[c].raw)
  BY StaticIs
<1>4. C \in SUBSET Axis
  OBVIOUS
<1>5. PICK S : Ordered(g, C, order, S)
  <2> HIDE DEF C
  <2> QED
    BY <1>4, OrderIs
<1>6. S = C
  BY <1>5, OrderComplete
<1> HIDE DEF order
<1>7. Flagging(g, circular, flagged)
  BY FlagIs
<1> HIDE DEF flagged, circular, next
<1>8. /\ Kept(g, flagged) /\ flagged \in Engines /\ flagged.dynamic = g.dynamic
      /\ \A c \in Axis : flagged.cells[c].raw = g.cells[c].raw
      /\ \A c \in Axis :
           flagged.cells[c].value = IF c \in circular /\ Occupied(g.cells[c])
                                      THEN Circular ELSE g.cells[c].value
  BY <1>7 DEF Flagging, Kept
<1>9. \A c \in circular : c \in Axis /\ Occupied(g.cells[c])
                          /\ IsFormula(g.cells[c].raw)
  BY <1>2, CycleReads DEF next
<1>10. Direct(flagged) /\ Unlinked(flagged) /\ Parsed(flagged)
  BY <1>8, <1>9 DEF Direct, Unlinked, Parsed
<1>11. Static(flagged) = next
  BY <1>8, StaticAlike DEF next
<1>12. InOrder(Static(flagged), C, order)
  <2>1. /\ Lists(order, C)
        /\ \A i \in 1 .. Len(order) : Reads(g, order[i]) \cap C
                                        \subseteq Before(order, i - 1)
    BY <1>5, <1>6 DEF Ordered
  <2>2. \A i \in 1 .. Len(order) : order[i] \in Axis
    BY <2>1, <1>4 DEF Lists
  <2> QED
    BY <1>3, <1>11, <2>1, <2>2 DEF InOrder
<1> HIDE DEF C
<1>13. /\ Kept(flagged, h) /\ Unlinked(h)
       /\ \A c \in Axis \ C : h.cells[c] = flagged.cells[c]
       /\ \A c \in C : h.cells[c].value = Value(h, flagged.cells[c].raw)
  BY <1>4, <1>8, <1>10, <1>12, EvaluatedExact
<1> HIDE DEF h
<1>14. Kept(g, h) /\ h \in Engines
       /\ \A c \in Axis : h.cells[c].raw = g.cells[c].raw
  BY <1>8, <1>13, KeptFurther DEF Kept
<1>15. Static(h) = next
  BY <1>14, StaticAlike DEF next
<1>16. \A c \in Axis : g.cells[c].raw \in RawTexts
                         /\ g.cells[c].raw.kind # "indirect"
  BY EngineIs DEF Direct
<1>17. Exact(h)
  <2> SUFFICES ASSUME NEW c \in Axis PROVE ExactAt(h, c)
    BY DEF Exact
  <2>1. CASE c \in circular
    <3>1. c \notin C /\ OnCycle(next, c)
      BY <1>2, <2>1 DEF C
    <3>2. h.cells[c].value = Circular
      BY <1>8, <1>9, <1>13, <2>1, <3>1
    <3> QED
      BY <1>15, <3>1, <3>2 DEF ExactAt
  <2>2. CASE c \in C
    <3>1. ~ OnCycle(next, c)
      BY <1>2, <2>2 DEF C
    <3>2. h.cells[c].value = Value(h, h.cells[c].raw)
      BY <1>8, <1>13, <1>14, <2>2
    <3> QED
      BY <1>15, <3>1, <3>2 DEF ExactAt
  <2>3. CASE c \notin D
    <3>1. \A d \in Axis : d \notin D => h.cells[d].value = g.cells[d].value
      BY <1>2, <1>8, <1>13 DEF C
    <3>2. next[c] \subseteq Axis /\ next[c] \cap D = {}
      BY <1>3, <2>3 DEF Nexts, Upward, next
    <3>3. Value(h, g.cells[c].raw) = Value(g, g.cells[c].raw)
      <4>1. \A d \in References(g.cells[c].raw) \cup Spanned(g.cells[c].raw) :
              h.cells[d].value = g.cells[d].value
        BY <1>3, <3>1, <3>2
      <4> QED
        BY <1>16, <4>1, ValueAlike
    <3>4. ExactAt(g, c)
      BY <2>3
    <3> QED
      BY <1>14, <1>15, <2>3, <3>1, <3>3, <3>4 DEF ExactAt, next
  <2> QED
    BY <2>1, <2>2, <2>3 DEF C
<1>18. Matches(h)
  BY <1>14, KeptContents
<1>19. again = {}
  <2>1. Upward(Static(h), D)
    BY <1>15 DEF next
  <2>2. CycleNodes(h, D) = {c \in D : OnCycle(Static(h), c)}
    BY <1>13, <1>14, <1>18, <2>1, CyclesInside
  <2> QED
    BY <1>2, <1>15, <2>2
<1>20. Flagging(h, again, last)
  BY <1>14, FlagIs
<1> HIDE DEF again, last
<1>21. /\ Kept(h, last) /\ last \in Engines /\ last.dynamic = h.dynamic
       /\ \A c \in Axis : last.cells[c].value = h.cells[c].value
       /\ \A c \in Axis : last.cells[c].raw = g.cells[c].raw
  BY <1>14, <1>19, <1>20 DEF Flagging, Kept
<1>22. Kept(g, last) /\ Unlinked(last)
  BY <1>13, <1>14, <1>21, KeptFurther DEF Unlinked
<1>23. Exact(last)
  <2>1. Static(last) = next
    BY <1>21, StaticAlike DEF next
  <2>2. \A c \in Axis : Value(last, g.cells[c].raw) = Value(h, g.cells[c].raw)
    <3> SUFFICES ASSUME NEW c \in Axis
                 PROVE  Value(last, g.cells[c].raw) = Value(h, g.cells[c].raw)
      OBVIOUS
    <3>1. \A d \in References(g.cells[c].raw) \cup Spanned(g.cells[c].raw) :
            last.cells[d].value = h.cells[d].value
      BY <1>16, <1>21, ReadsOfRaw
    <3> QED
      BY <1>16, <3>1, ValueAlike
  <2> QED
    BY <1>14, <1>15, <1>17, <1>21, <2>1, <2>2 DEF Exact, ExactAt
<1> QED
  BY <1>1, <1>22, <1>23

\* An engine without INDIRECT that shows what its formulas say.
Right(g) ==
  g \in Engines /\ Matches(g) /\ Direct(g) /\ Unlinked(g) /\ Exact(g)

\* dirty_set holds the changed cell and every reader of its cells.
LEMMA DirtySetIs ==
  ASSUME NEW g \in Engines, Matches(g), Unlinked(g), NEW c \in Axis
  PROVE  /\ DirtySet(g, c) \in SUBSET Axis /\ c \in DirtySet(g, c)
         /\ Upward(Static(g), DirtySet(g, c))
<1> DEFINE readers == [p \in Axis |->
             g.dependents[p]
               \cup {d \in Axis : p \in g.spans[d] \cup g.dynamic[d]}]
           next == Static(g)
           D == DirtySet(g, c)
<1>1. readers \in Nexts
  BY EngineIs DEF Nexts
<1>2. D = Reached(readers, {c})
  BY DEF DirtySet
<1>3. /\ next \in Nexts
      /\ \A d \in Axis :
           next[d] = References(g.cells[d].raw) \cup Spanned(g.cells[d].raw)
  BY StaticIs
<1> HIDE DEF next, D
<1>4. ASSUME NEW p \in Axis, NEW d \in Axis, p \in next[d]
      PROVE  d \in readers[p]
  <2>1. p \in g.precedents[d] \/ p \in g.spans[d]
    BY <1>3, <1>4 DEF Matches
  <2>2. p \in g.precedents[d] => d \in g.dependents[p]
    BY DEF Matches
  <2> QED
    BY <2>1, <2>2
<1> HIDE DEF readers
<1>5. /\ D \in SUBSET Axis /\ c \in D /\ Closed(readers, D)
  BY <1>1, <1>2, ReachedClosed
<1>6. Upward(next, D)
  <2> SUFFICES ASSUME NEW d \in Axis, next[d] \cap D # {} PROVE d \in D
    BY DEF Upward
  <2>1. PICK p \in D : p \in next[d]
    OBVIOUS
  <2>2. d \in readers[p]
    BY <1>4, <1>5, <2>1
  <2> QED
    BY <1>5, <2>1, <2>2 DEF Closed
<1> QED
  BY <1>5, <1>6 DEF D, next

\* Cells outside a set that holds all readers of its cells stay exact when
\* nothing outside the set changes.
LEMMA ExactOutside ==
  ASSUME NEW g \in Engines, Direct(g), NEW h \in Engines, NEW D \in SUBSET Axis,
         Upward(Static(h), D),
         \A c \in Axis \ D : h.cells[c] = g.cells[c] /\ ExactAt(g, c)
  PROVE  \A c \in Axis \ D : ExactAt(h, c)
<1> DEFINE next == Static(h)
           X == Axis \ D
<1>1. /\ next \in Nexts /\ Static(g) \in Nexts
      /\ \A c \in Axis :
           next[c] = References(h.cells[c].raw) \cup Spanned(h.cells[c].raw)
      /\ \A c \in X : Static(g)[c] = next[c]
  BY StaticIs, ZenonT(30)
<1> HIDE DEF next
<1>2. \A c \in X : next[c] \subseteq X
  BY <1>1 DEF Upward, Nexts, next
<1>3. Closed(next, X)
  BY <1>2 DEF Closed
<1> HIDE DEF X
<1>4. X \in SUBSET Axis
  BY DEF X
<1>5. ASSUME NEW c \in X PROVE ExactAt(h, c)
  <2>1. c \in Axis /\ h.cells[c] = g.cells[c] /\ ExactAt(g, c)
    BY DEF X
  <2>2. next[c] \in SUBSET Axis /\ next[c] \subseteq X /\ Static(g)[c] = next[c]
    BY <1>1, <1>2, <1>4
  <2>3. Reached(Static(g), next[c]) = Reached(next, next[c])
    BY <1>1, <1>3, <1>4, <2>2, ReachedAlike
  <2>4. OnCycle(Static(g), c) <=> OnCycle(next, c)
    BY <2>2, <2>3 DEF OnCycle
  <2>5. Value(h, g.cells[c].raw) = Value(g, g.cells[c].raw)
    <3>1. \A d \in References(g.cells[c].raw) \cup Spanned(g.cells[c].raw) :
            h.cells[d].value = g.cells[d].value
      BY <1>1, <2>1, <2>2 DEF X
    <3>2. g.cells[c].raw \in RawTexts /\ g.cells[c].raw.kind # "indirect"
      BY <2>1, EngineIs DEF Direct
    <3> QED
      BY <3>1, <3>2, ValueAlike
  <2> QED
    BY <2>1, <2>4, <2>5 DEF ExactAt, next
<1> QED
  BY <1>5 DEF X

\* Editing a cell of a right engine gives a right engine.
LEMMA SetCellRight ==
  ASSUME NEW g, Right(g), NEW c \in Axis, NEW raw \in RawTexts,
         raw.kind # "indirect"
  PROVE  Right(SetCell(g, c, raw))
<1> DEFINE h == CommitCell(g, c, raw)
           edited == ReplaceEdges(h, c)
           dirty == DirtySet(edited, c)
           after == RecalcDirty(edited, dirty)
<1>1. SetCell(g, c, raw) = after
  BY DEF SetCell
<1>2. g \in Engines /\ Matches(g) /\ Direct(g) /\ Unlinked(g) /\ Exact(g)
      /\ Parsed(g)
  BY ExactParsed DEF Right
<1>3. Committed(g, c, raw, h)
  BY <1>2, CommitCellIs
<1> HIDE DEF h
<1>4. h \in Engines
  BY <1>3 DEF Committed
<1>5. Linked(h, c, edited)
  BY <1>4, ReplaceEdgesIs
<1> HIDE DEF edited
<1>6. edited \in Engines /\ Matches(edited) /\ Unlinked(edited)
  <2>1. Matches(edited)
    BY <1>2, <1>3, <1>5 DEF Committed, Linked, Matches
  <2> QED
    BY <1>2, <1>3, <1>5, <2>1 DEF Committed, Linked, Unlinked
<1>7. /\ \A d \in Axis \ {c} : edited.cells[d] = g.cells[d]
      /\ edited.cells[c] = IF raw = Empty THEN NoCell
                           ELSE ParseCell(raw, g.cells[c].format)
      /\ edited.cells[c].raw = Plain(raw)
  BY <1>3, <1>5 DEF Committed, Linked
<1>8. Direct(edited)
  BY <1>2, <1>7 DEF Direct, Plain, Absent, Raw
<1>9. Parsed(edited)
  <2>1. edited.cells[c].value = ParsedValue(edited.cells[c].raw)
    BY <1>7 DEF NoCell, ParseCell, ParsedValue
  <2> QED
    BY <1>2, <1>7, <2>1 DEF Parsed
<1>10. dirty \in SUBSET Axis /\ c \in dirty /\ Upward(Static(edited), dirty)
  BY <1>6, DirtySetIs
<1> HIDE DEF dirty
<1>11. \A d \in Axis \ dirty : ExactAt(edited, d)
  <2>1. \A d \in Axis \ dirty : edited.cells[d] = g.cells[d] /\ ExactAt(g, d)
    BY <1>2, <1>7, <1>10 DEF Exact
  <2> QED
    BY <1>2, <1>6, <1>10, <2>1, ExactOutside
<1>12. Kept(edited, after) /\ Unlinked(after) /\ Exact(after)
  BY <1>6, <1>8, <1>9, <1>10, <1>11, RecalcDirtyExact
<1> HIDE DEF after
<1>13. after \in Engines /\ Matches(after) /\ Direct(after)
  BY <1>6, <1>8, <1>12, KeptContents DEF Kept, Direct
<1> QED
  BY <1>1, <1>12, <1>13 DEF Right

\* A recalculation of everything makes what was typed right.
LEMMA RecalcAllRight ==
  ASSUME NEW g \in Engines, Direct(g), Unlinked(g), Parsed(g)
  PROVE  /\ Right(RecalcAll(g))
         /\ RecalcAll(g).sizes = g.sizes
         /\ \A c \in Axis : /\ RecalcAll(g).cells[c].raw = g.cells[c].raw
                            /\ RecalcAll(g).cells[c].format = g.cells[c].format
<1> DEFINE h == RebuildGraph(g)
           D == OccupiedCells(g)
           after == RecalcDirty(h, D)
<1>1. RecalcAll(g) = after
  BY DEF RecalcAll
<1>2. Rebuilt(g, h) /\ D \in SUBSET Axis
  BY RebuildGraphIs DEF OccupiedCells
<1> HIDE DEF h
<1>3. /\ h \in Engines /\ Matches(h) /\ h.cells = g.cells /\ h.sizes = g.sizes
      /\ Unlinked(h) /\ Direct(h) /\ Parsed(h)
  BY <1>2 DEF Rebuilt, Unlinked, Direct, Parsed
<1>4. \A c \in Axis : c \notin D => ~ IsFormula(h.cells[c].raw)
  BY <1>3, PlainRaws DEF OccupiedCells, Occupied
<1> HIDE DEF D
<1>5. \A c \in Axis : c \notin D =>
        /\ Static(h)[c] = {}
        /\ Value(h, h.cells[c].raw) = ParsedValue(h.cells[c].raw)
  <2>1. \A c \in Axis :
          /\ h.cells[c].raw \in RawTexts
          /\ Static(h)[c]
               = References(h.cells[c].raw) \cup Spanned(h.cells[c].raw)
    BY <1>3, EngineIs, StaticIs
  <2>2. ASSUME NEW c \in Axis, c \notin D
        PROVE  /\ References(h.cells[c].raw) = {}
               /\ Spanned(h.cells[c].raw) = {}
               /\ Value(h, h.cells[c].raw) = ParsedValue(h.cells[c].raw)
    BY <1>4, <2>1, <2>2, NoFormula
  <2> QED
    BY <2>1, <2>2
<1>6. Upward(Static(h), D)
  BY <1>5 DEF Upward
<1>7. \A c \in Axis \ D : ExactAt(h, c)
  <2> SUFFICES ASSUME NEW c \in Axis \ D PROVE ExactAt(h, c)
    OBVIOUS
  <2>1. ~ OnCycle(Static(h), c)
    BY <1>3, <1>4, CycleReads
  <2>2. h.cells[c].value = ParsedValue(h.cells[c].raw)
    BY <1>3, <1>4 DEF Parsed
  <2> QED
    BY <1>5, <2>1, <2>2 DEF ExactAt
<1>8. Kept(h, after) /\ Unlinked(after) /\ Exact(after)
  BY <1>2, <1>3, <1>6, <1>7, RecalcDirtyExact
<1> HIDE DEF after
<1>9. after \in Engines /\ Matches(after) /\ Direct(after)
  BY <1>3, <1>8, KeptContents DEF Kept, Direct
<1>10. after.sizes = g.sizes
       /\ \A c \in Axis : /\ after.cells[c].raw = g.cells[c].raw
                          /\ after.cells[c].format = g.cells[c].format
  BY <1>3, <1>8 DEF Kept
<1> QED
  BY <1>1, <1>8, <1>9, <1>10 DEF Right

\* Two right engines with the same contents show the same values.
LEMMA RightAlike ==
  ASSUME NEW g, Right(g), NEW h, Right(h), ContentsOf(h) = ContentsOf(g)
  PROVE  \A c \in Axis : h.cells[c].value = g.cells[c].value
<1> DEFINE next == Static(g)
           R == {c \in Axis : h.cells[c].value # g.cells[c].value}
<1>1. g \in Engines /\ h \in Engines
  BY DEF Right
<1>2. \A c \in Axis : Plain(h.cells[c].raw) = Plain(g.cells[c].raw)
  <2>1. ASSUME NEW k
        PROVE  \A c \in Axis : ContentsOf(k).raws[c] = Plain(k.cells[c].raw)
    <3>1. SheetOf(k).cells = k.cells
      BY DEF SheetOf
    <3> QED
      BY <3>1, ContentsAre DEF ContentsOf
  <2> QED
    BY <2>1
<1>3. /\ Static(h) = next /\ next \in Nexts
      /\ \A c \in Axis :
           next[c] = References(g.cells[c].raw) \cup Spanned(g.cells[c].raw)
  BY <1>1, <1>2, StaticAlike, StaticIs
<1> HIDE DEF next
<1>4. \A c \in Axis : ExactAt(g, c) /\ ExactAt(h, c)
  BY DEF Right, Exact
<1>5. \A c \in R : ~ OnCycle(next, c)
  BY <1>3, <1>4 DEF ExactAt, next
<1>6. ASSUME NEW c \in R PROVE next[c] \cap R # {}
  <2>1. /\ g.cells[c].raw \in RawTexts /\ h.cells[c].raw \in RawTexts
        /\ g.cells[c].raw.kind # "indirect"
    BY <1>1, EngineIs DEF Right, Direct
  <2>2. Value(h, h.cells[c].raw) = Value(h, g.cells[c].raw)
    <3>1. h.cells[c].raw = g.cells[c].raw
          \/ /\ h.cells[c].raw \in {Empty, Absent}
             /\ g.cells[c].raw \in {Empty, Absent}
      BY <1>2 DEF Plain
    <3>2. Value(h, Empty) = Blank /\ Value(h, Absent) = Blank
      BY ValueIs DEF Empty, Absent, Raw
    <3> QED
      BY <3>1, <3>2
  <2>3. Value(h, g.cells[c].raw) # Value(g, g.cells[c].raw)
    BY <1>3, <1>4, <1>5, <2>2 DEF ExactAt, next
  <2>4. PICK d \in References(g.cells[c].raw) \cup Spanned(g.cells[c].raw) :
          h.cells[d].value # g.cells[d].value
    BY <2>1, <2>3, ValueAlike
  <2>5. d \in Axis
    BY <2>1, <2>4, ReadsOfRaw
  <2> QED
    BY <1>3, <2>4, <2>5
<1>7. ASSUME R # {} PROVE FALSE
  <2>1. R \in SUBSET Axis
    OBVIOUS
  <2> HIDE DEF R
  <2>2. \E c \in R : c \in Reached(next, next[c])
    BY <1>3, <1>6, <1>7, <2>1, CycleInside
  <2> QED
    BY <1>5, <2>2 DEF OnCycle
<1> QED
  BY <1>7

\* A right engine stays right when other cells hold the same texts and values.
LEMMA RightStill ==
  ASSUME NEW g, Right(g), NEW h \in Engines, Matches(h), h.dynamic = g.dynamic,
         \A c \in Axis : /\ Plain(h.cells[c].raw) = Plain(g.cells[c].raw)
                         /\ h.cells[c].value = g.cells[c].value
  PROVE  Right(h)
<1>1. g \in Engines /\ Direct(g) /\ Unlinked(g) /\ Exact(g)
  BY DEF Right
<1>2. \A c \in Axis : /\ h.cells[c].raw \in RawTexts
                      /\ g.cells[c].raw \in RawTexts
                      /\ g.cells[c].raw.kind # "indirect"
  BY <1>1, EngineIs DEF Direct
<1>3. \A c \in Axis :
        \/ h.cells[c].raw = g.cells[c].raw
        \/ h.cells[c].raw \in {Empty, Absent}
             /\ g.cells[c].raw \in {Empty, Absent}
  BY DEF Plain
<1>4. Direct(h)
  BY <1>2, <1>3 DEF Direct, Empty, Absent, Raw
<1>5. Unlinked(h)
  BY <1>1 DEF Unlinked
<1>6. Static(h) = Static(g)
  BY <1>1, StaticAlike
<1>7. ASSUME NEW c \in Axis
      PROVE Value(h, h.cells[c].raw) = Value(g, g.cells[c].raw)
  <2>1. References(g.cells[c].raw) \cup Spanned(g.cells[c].raw) \in SUBSET Axis
    BY <1>2, ReadsOfRaw
  <2>2. Value(h, g.cells[c].raw) = Value(g, g.cells[c].raw)
    BY <1>2, <2>1, ValueAlike
  <2>3. /\ Value(h, Empty) = Blank /\ Value(h, Absent) = Blank
        /\ Value(g, Empty) = Blank /\ Value(g, Absent) = Blank
    BY ValueIs DEF Empty, Absent, Raw
  <2> QED
    BY <1>3, <2>2, <2>3
<1>8. Exact(h)
  BY <1>1, <1>6, <1>7 DEF Exact, ExactAt
<1> QED
  BY <1>4, <1>5, <1>8 DEF Right

\* A snapshot with the values that the cells have keeps the engine right.
LEMMA RestoreCellsRight ==
  ASSUME NEW g, Right(g), NEW S \in SUBSET Axis, NEW snapshot \in [S -> Cells],
         \A c \in S : /\ Plain(snapshot[c].raw) = Plain(g.cells[c].raw)
                      /\ snapshot[c].value = g.cells[c].value
  PROVE  Right(RestoreCells(g, snapshot))
<1> DEFINE cells == [c \in Axis |-> IF c \in DOMAIN snapshot THEN snapshot[c]
                                    ELSE g.cells[c]]
           h == RestoreCells(g, snapshot)
<1>1. g \in Engines /\ Matches(g)
  BY DEF Right
<1>2. h \in Engines /\ Matches(h)
  BY <1>1, RestoreCellsIs
<1>3. h = [g EXCEPT !.cells = cells]
  BY DEF RestoreCells
<1>4. \A c \in Axis : /\ Plain(cells[c].raw) = Plain(g.cells[c].raw)
                      /\ cells[c].value = g.cells[c].value
  OBVIOUS
<1> HIDE DEF cells, h
<1>5. h.cells = cells /\ h.dynamic = g.dynamic
  BY <1>1, <1>3 DEF Engines
<1>6. Right(h)
  BY <1>2, <1>4, <1>5, RightStill
<1> QED
  BY <1>6 DEF h

LEMMA RestoreSizesRight ==
  ASSUME NEW g, Right(g), NEW S \in SUBSET Axis, NEW snapshot \in [S -> Nat]
  PROVE  Right(RestoreSizes(g, snapshot))
<1> DEFINE sizes == [i \in Axis |-> IF i \in DOMAIN snapshot THEN snapshot[i]
                                    ELSE g.sizes[i]]
           h == RestoreSizes(g, snapshot)
<1>1. g \in Engines /\ Matches(g)
  BY DEF Right
<1>2. h \in Engines /\ Matches(h)
  BY <1>1, RestoreSizesIs
<1>3. h = [g EXCEPT !.sizes = sizes]
  BY DEF RestoreSizes
<1> HIDE DEF sizes, h
<1>4. h.cells = g.cells /\ h.dynamic = g.dynamic
  BY <1>1, <1>3 DEF Engines
<1>5. Right(h)
  BY <1>2, <1>4, RightStill
<1> QED
  BY <1>5 DEF h

\* A sheet put in place of another is recalculated, whatever values it had.
LEMMA ReplaceSheetRight ==
  ASSUME NEW g, Right(g), NEW sheet \in Sheets, Direct(sheet), Parsed(sheet)
  PROVE  /\ Right(ReplaceSheet(g, sheet))
         /\ ReplaceSheet(g, sheet).sizes = sheet.sizes
         /\ \A c \in Axis :
              /\ ReplaceSheet(g, sheet).cells[c].raw = sheet.cells[c].raw
              /\ ReplaceSheet(g, sheet).cells[c].format = sheet.cells[c].format
<1> DEFINE h == [g EXCEPT !.cells = sheet.cells, !.sizes = sheet.sizes]
<1>1. ReplaceSheet(g, sheet) = RecalcAll(h)
  BY DEF ReplaceSheet
<1>2. sheet.cells \in [Axis -> Cells] /\ sheet.sizes \in [Axis -> Nat]
  BY DEF Sheets
<1>3. g \in Engines /\ Unlinked(g)
  BY DEF Right
<1>4. /\ h \in Engines /\ h.cells = sheet.cells /\ h.sizes = sheet.sizes
      /\ h.dynamic = g.dynamic
  BY <1>2, <1>3 DEF Engines
<1> HIDE DEF h
<1>5. Direct(h) /\ Unlinked(h) /\ Parsed(h)
  BY <1>3, <1>4 DEF Direct, Unlinked, Parsed
<1> QED
  BY <1>1, <1>4, <1>5, RecalcAllRight

\* An engine that knows nothing of its cells: a graph without edges.
LEMMA NewEngineUnlinked ==
  ASSUME NEW cells \in [Axis -> Cells], NEW sizes \in [Axis -> Nat]
  PROVE  Unlinked(NewEngine(cells, sizes))
BY NewEngineIs DEF Unlinked, NoEdges

\* An engine of no cells, whatever the sizes.
LEMMA NothingRight ==
  ASSUME NEW sizes \in [Axis -> Nat]
  PROVE  Right(NewEngine(NoCells, sizes))
<1> DEFINE g == NewEngine(NoCells, sizes)
<1>1. NoCell \in Cells /\ NoCell.raw = Absent /\ NoCell.value = Blank
  <2>1. NoCell.raw = Absent /\ NoCell.value = Blank
    BY DEF NoCell, ParseCell, Absent, Raw
  <2> QED
    BY <2>1, NothingIs, PlainRaws, ParseCellType
<1>2. NoCells \in [Axis -> Cells] /\ \A c \in Axis : NoCells[c] = NoCell
  BY <1>1 DEF NoCells
<1>3. g \in Engines /\ g.cells = NoCells /\ Unlinked(g)
  BY <1>2, NewEngineIs, NewEngineUnlinked
<1>4. /\ g.precedents = NoEdges /\ g.spans = NoEdges /\ g.dependents = NoEdges
  BY DEF NewEngine
<1> HIDE DEF g
<1>5. Matches(g)
  BY <1>1, <1>2, <1>3, <1>4, PlainRaws DEF Matches, NoEdges
<1>6. Direct(g)
  BY <1>1, <1>2, <1>3 DEF Direct, Absent, Raw
<1>7. ASSUME NEW c \in Axis PROVE ExactAt(g, c)
  <2>1. g.cells[c].raw = Absent /\ g.cells[c].value = Blank
    BY <1>1, <1>2, <1>3
  <2>2. ~ IsFormula(Absent)
    BY DEF IsFormula, Absent, Raw
  <2>3. ~ OnCycle(Static(g), c)
    BY <1>3, <2>1, <2>2, CycleReads
  <2>4. Value(g, Absent) = Blank
    BY ValueIs DEF Absent, Raw
  <2> QED
    BY <2>1, <2>3, <2>4 DEF ExactAt
<1>8. Right(g)
  BY <1>3, <1>5, <1>6, <1>7 DEF Right, Exact
<1> QED
  BY <1>8 DEF g

\* The texts and sizes of two engines with related contents.
LEMMA ContentsGive ==
  ASSUME NEW g
  PROVE  /\ ContentsOf(g).sizes = g.sizes
         /\ \A c \in Axis : ContentsOf(g).raws[c] = Plain(g.cells[c].raw)
<1>1. SheetOf(g).cells = g.cells /\ SheetOf(g).sizes = g.sizes
  BY DEF SheetOf
<1> QED
  BY <1>1, ContentsAre DEF ContentsOf

LEMMA SetCellContents ==
  ASSUME NEW g \in Engines, NEW c \in Axis, NEW raw \in RawTexts
  PROVE  /\ SetCell(g, c, raw).sizes = g.sizes
         /\ \A d \in Axis : Plain(SetCell(g, c, raw).cells[d].raw)
                              = IF d = c THEN Plain(raw)
                                ELSE Plain(g.cells[d].raw)
<1> DEFINE after == SetCell(g, c, raw)
           raws == [d \in Axis |-> Plain(g.cells[d].raw)]
<1>1. ContentsOf(after) = WithRaw(ContentsOf(g), c, raw)
  BY SetCellIs
<1> HIDE DEF after
<1>2. ContentsOf(g) = [raws |-> raws, sizes |-> g.sizes]
  BY ContentsOfAre
<1>3. \A d \in Axis : [raws EXCEPT ![c] = Plain(raw)][d]
        = IF d = c THEN Plain(raw) ELSE Plain(g.cells[d].raw)
  OBVIOUS
<1> HIDE DEF raws
<1>4. ContentsOf(after) = [raws |-> [raws EXCEPT ![c] = Plain(raw)],
                           sizes |-> g.sizes]
  BY <1>1, <1>2, WithRawIs
<1> DEFINE now == [raws EXCEPT ![c] = Plain(raw)]
<1> HIDE DEF now
<1>5. /\ after.sizes = g.sizes
      /\ \A d \in Axis : Plain(after.cells[d].raw) = now[d]
  <2>1. ContentsOf(after) = [raws |-> now, sizes |-> g.sizes]
    BY <1>4 DEF now
  <2>2. ContentsOf(after).sizes = g.sizes /\ ContentsOf(after).raws = now
    BY <2>1
  <2> QED
    BY <2>2, ContentsGive
<1> QED
  BY <1>3, <1>5 DEF after, now

\* A file is loaded into a right engine with its texts and sizes.
LEMMA LoadedRight ==
  ASSUME NEW file \in Sheets, Direct(file)
  PROVE  /\ Right(Loaded(file))
         /\ Loaded(file).sizes = file.sizes
         /\ \A c \in Axis :
              Plain(Loaded(file).cells[c].raw) = Plain(file.cells[c].raw)
<1> DEFINE V == {g \in Engines : Right(g)}
<1>1. /\ file.cells \in [Axis -> Cells] /\ file.sizes \in [Axis -> Nat]
      /\ \A c \in Axis : /\ file.cells[c].raw \in RawTexts
                         /\ file.cells[c].raw.kind # "indirect"
  BY DEF Sheets, Cells, Direct
<1>2. NewEngine([c \in Axis |-> NoCell], file.sizes) \in V
  <2>1. Right(NewEngine(NoCells, file.sizes))
    BY <1>1, NothingRight
  <2> QED
    BY <2>1 DEF NoCells, Right
<1>3. ASSUME NEW v \in V, NEW n \in 1 .. Limit
      PROVE  LoadedCell(v, file, n) \in V
  <2>1. n \in Axis /\ v \in Engines /\ Right(v)
    BY DEF Axis
  <2>2. Right(SetCell(v, n, file.cells[n].raw))
    BY <1>1, <2>1, SetCellRight
  <2> QED
    BY <2>1, <2>2 DEF LoadedCell, Right
<1> HIDE DEF V
<1>4. LoadedThrough(file, V)
  BY <1>2, <1>3, LoadedSteps
<1>5. PICK f \in [0 .. Limit -> V] :
        /\ f[0] = NewEngine([c \in Axis |-> NoCell], file.sizes)
        /\ \A n \in 1 .. Limit : f[n] = LoadedCell(f[n - 1], file, n)
        /\ Loaded(file) = f[Limit]
  BY <1>4 DEF LoadedThrough
<1>6. Limit \in Nat
  BY LimitAssumption
<1>7. \A n \in 0 .. Limit : f[n] \in Engines /\ Right(f[n])
  BY <1>5 DEF V
<1> DEFINE Is(g, n) ==
             /\ g.sizes = file.sizes
             /\ \A c \in Axis : Plain(g.cells[c].raw)
                                  = IF c <= n THEN Plain(file.cells[c].raw)
                                    ELSE Absent
           W == {n \in 0 .. Limit : Is(f[n], n)}
<1>8. 0 \in W
  <2>1. /\ f[0].sizes = file.sizes
        /\ \A c \in Axis : f[0].cells[c].raw = Absent
    BY <1>5 DEF NewEngine, NoCell, ParseCell
  <2>2. \A c \in Axis : ~ (c <= 0)
    BY LimitAssumption DEF Axis
  <2>3. Plain(Absent) = Absent
    BY PlainRaws DEF Plain
  <2> QED
    BY <1>6, <2>1, <2>2, <2>3
<1>9. ASSUME NEW n \in 0 .. Limit - 1, n \in W PROVE n + 1 \in W
  <2>1. /\ n \in Nat /\ n \in 0 .. Limit /\ n + 1 \in 1 .. Limit
        /\ n + 1 \in 0 .. Limit /\ (n + 1) - 1 = n /\ n + 1 \in Axis
    BY <1>6 DEF Axis
  <2>2. f[n + 1] = LoadedCell(f[n], file, n + 1)
    BY <1>5, <2>1
  <2>3. f[n] \in Engines /\ Is(f[n], n)
    BY <1>7, <1>9, <2>1
  <2>4. /\ f[n + 1].sizes = f[n].sizes
        /\ \A c \in Axis : Plain(f[n + 1].cells[c].raw)
                             = IF c = n + 1 THEN Plain(file.cells[c].raw)
                               ELSE Plain(f[n].cells[c].raw)
    <3>1. CASE Occupied(file.cells[n + 1])
      <4>1. f[n + 1] = SetCell(f[n], n + 1, file.cells[n + 1].raw)
        BY <2>2, <3>1 DEF LoadedCell
      <4> QED
        BY <1>1, <2>1, <2>3, <4>1, SetCellContents
    <3>2. CASE ~ Occupied(file.cells[n + 1])
      <4>1. f[n + 1] = f[n]
        BY <2>2, <3>2 DEF LoadedCell
      <4>2. Plain(file.cells[n + 1].raw) = Absent
        BY <3>2 DEF Occupied, Plain
      <4>3. Plain(f[n].cells[n + 1].raw) = Absent
        BY <2>1, <2>3
      <4> QED
        BY <4>1, <4>2, <4>3
    <3> QED
      BY <3>1, <3>2
  <2>5. \A c \in Axis : c <= n + 1 <=> c = n + 1 \/ c <= n
    BY <2>1, LimitAssumption DEF Axis
  <2>6. Is(f[n + 1], n + 1)
    BY <2>3, <2>4, <2>5
  <2> QED
    BY <2>1, <2>6
<1>10. \A n \in 0 .. Limit : n \in W
  <2> HIDE DEF W
  <2> QED
    BY <1>6, <1>8, <1>9, UpTo
<1>11. Is(f[Limit], Limit) /\ Right(f[Limit])
  BY <1>6, <1>7, <1>10
<1>12. \A c \in Axis : c <= Limit
  BY <1>6 DEF Axis
<1> QED
  BY <1>5, <1>11, <1>12

\* A file without INDIRECT opens with its texts, sizes and formats, and with
\* the values that its formulas have.
LEMMA OpenRight ==
  ASSUME NEW file \in Sheets, Direct(file)
  PROVE  /\ Right(Open(file))
         /\ Open(file).sizes = file.sizes
         /\ \A c \in Axis :
              /\ Plain(Open(file).cells[c].raw) = Plain(file.cells[c].raw)
              /\ Open(file).cells[c].format = file.cells[c].format
<1> DEFINE loaded == Loaded(file)
           cells == [c \in Axis |->
                       [loaded.cells[c] EXCEPT !.format = file.cells[c].format]]
           formatted == [loaded EXCEPT !.cells = cells]
           model == RecalcAll(formatted)
           fresh == NewEngine(model.cells, model.sizes)
<1>1. Open(file) = RecalcAll(fresh)
  BY DEF Open
<1>2. /\ Right(loaded) /\ loaded.sizes = file.sizes
      /\ \A c \in Axis :
           Plain(loaded.cells[c].raw) = Plain(file.cells[c].raw)
  BY LoadedRight
<1> HIDE DEF loaded
<1>3. /\ loaded \in Engines /\ Direct(loaded) /\ Unlinked(loaded)
      /\ Parsed(loaded)
  BY <1>2, ExactParsed DEF Right
<1>4. /\ cells \in [Axis -> Cells]
      /\ \A c \in Axis : /\ cells[c].raw = loaded.cells[c].raw
                         /\ cells[c].value = loaded.cells[c].value
                         /\ cells[c].format = file.cells[c].format
  <2>1. \A c \in Axis : loaded.cells[c] \in Cells
                          /\ file.cells[c].format \in Nat
    BY <1>3, EngineIs DEF Sheets, Cells
  <2>2. \A x \in Cells, m \in Nat :
          /\ [x EXCEPT !.format = m] \in Cells
          /\ [x EXCEPT !.format = m].raw = x.raw
          /\ [x EXCEPT !.format = m].value = x.value
          /\ [x EXCEPT !.format = m].format = m
    BY DEF Cells
  <2> QED
    BY <2>1, <2>2, ZenonT(30)
<1> HIDE DEF cells
<1>5. /\ formatted \in Engines /\ formatted.cells = cells
      /\ formatted.sizes = loaded.sizes /\ formatted.dynamic = loaded.dynamic
  BY <1>3, <1>4 DEF Engines
<1> HIDE DEF formatted
<1>6. Direct(formatted) /\ Unlinked(formatted) /\ Parsed(formatted)
  BY <1>3, <1>4, <1>5 DEF Direct, Unlinked, Parsed
<1>7. /\ Right(model) /\ model.sizes = formatted.sizes
      /\ \A c \in Axis : /\ model.cells[c].raw = formatted.cells[c].raw
                         /\ model.cells[c].format = formatted.cells[c].format
  BY <1>5, <1>6, RecalcAllRight
<1> HIDE DEF model
<1>8. /\ model \in Engines /\ Direct(model) /\ Parsed(model)
      /\ model.cells \in [Axis -> Cells] /\ model.sizes \in [Axis -> Nat]
  BY <1>7, ExactParsed, EngineIs DEF Right
<1>9. /\ fresh \in Engines /\ fresh.cells = model.cells
      /\ fresh.sizes = model.sizes /\ Unlinked(fresh)
  BY <1>8, NewEngineIs, NewEngineUnlinked
<1> HIDE DEF fresh
<1>10. Direct(fresh) /\ Parsed(fresh)
  BY <1>8, <1>9 DEF Direct, Parsed
<1>11. /\ Right(RecalcAll(fresh)) /\ RecalcAll(fresh).sizes = fresh.sizes
       /\ \A c \in Axis :
            /\ RecalcAll(fresh).cells[c].raw = fresh.cells[c].raw
            /\ RecalcAll(fresh).cells[c].format = fresh.cells[c].format
  BY <1>9, <1>10, RecalcAllRight
<1>12. /\ fresh.sizes = file.sizes
       /\ \A c \in Axis :
            /\ Plain(fresh.cells[c].raw) = Plain(file.cells[c].raw)
            /\ fresh.cells[c].format = file.cells[c].format
  BY <1>2, <1>4, <1>5, <1>7, <1>9
<1> QED
  BY <1>1, <1>11, <1>12

\* Saving and opening gives back texts, sizes, values and formats.
LEMMA ReopenedRight ==
  ASSUME NEW g, Right(g)
  PROVE  /\ Right(Open(Saved(g)))
         /\ ContentsOf(Open(Saved(g))) = ContentsOf(g)
         /\ \A c \in Axis :
              /\ Open(Saved(g)).cells[c].value = g.cells[c].value
              /\ g.cells[c].raw \notin {Empty, Absent} =>
                   Open(Saved(g)).cells[c].format = g.cells[c].format
<1> DEFINE file == Saved(g)
           opened == Open(file)
<1>1. g \in Engines /\ Direct(g) /\ file \in Sheets
  BY SavedType DEF Right
<1>2. /\ file.sizes = g.sizes
      /\ \A c \in Axis :
           file.cells[c] = IF g.cells[c].raw = Empty THEN NoCell ELSE g.cells[c]
  BY DEF Saved
<1>3. NoCell.raw = Absent /\ Absent.kind = "absent" /\ Plain(Absent) = Absent
  BY PlainRaws DEF NoCell, ParseCell, Absent, Raw, Plain
<1> HIDE DEF file
<1>4. \A c \in Axis : Plain(file.cells[c].raw) = Plain(g.cells[c].raw)
  BY <1>2, <1>3 DEF Plain
<1>5. Direct(file)
  BY <1>1, <1>2, <1>3 DEF Direct
<1>6. /\ Right(opened) /\ opened.sizes = file.sizes
      /\ \A c \in Axis : /\ Plain(opened.cells[c].raw)
                              = Plain(file.cells[c].raw)
                         /\ opened.cells[c].format = file.cells[c].format
  BY <1>1, <1>5, OpenRight
<1> HIDE DEF opened
<1>7. ContentsOf(opened) = ContentsOf(g)
  <2>1. SheetOf(opened).sizes = SheetOf(g).sizes
        /\ \A c \in Axis :
             Plain(SheetOf(opened).cells[c].raw)
               = Plain(SheetOf(g).cells[c].raw)
    BY <1>2, <1>4, <1>6 DEF SheetOf
  <2> QED
    BY <2>1, ContentsEqual DEF ContentsOf
<1>8. \A c \in Axis : opened.cells[c].value = g.cells[c].value
  BY <1>6, <1>7, RightAlike
<1>9. \A c \in Axis : g.cells[c].raw \notin {Empty, Absent} =>
        opened.cells[c].format = g.cells[c].format
  BY <1>2, <1>6
<1> QED
  BY <1>6, <1>7, <1>8, <1>9 DEF opened, file

\* An insertion or deletion brings no INDIRECT, and the cells that hold no
\* formula still show what was typed.
LEMMA ShiftedDirect ==
  ASSUME NEW sheet \in Sheets, Direct(sheet), Parsed(sheet), NEW e \in Edits
  PROVE  Direct(Shifted(sheet, e)) /\ Parsed(Shifted(sheet, e))
<1> DEFINE after == Shifted(sheet, e)
<1>1. \A i \in Axis :
        after.cells[i] = IF ShiftedFrom(i, e) = None THEN NoCell
                         ELSE ShiftCell(sheet.cells[ShiftedFrom(i, e)], e)
  BY DEF Shifted
<1> HIDE DEF after
<1>2. /\ NoCell.raw.kind = "absent" /\ NoCell.value = Blank
      /\ ParsedValue(NoCell.raw) = Blank
  BY DEF NoCell, ParseCell, Absent, Raw, ParsedValue
<1>3. ASSUME NEW c \in Axis
      PROVE  /\ ShiftCell(sheet.cells[c], e).raw.kind # "indirect"
             /\ ~ IsFormula(ShiftCell(sheet.cells[c], e).raw) =>
                  ShiftCell(sheet.cells[c], e).value
                    = ParsedValue(ShiftCell(sheet.cells[c], e).raw)
  <2> DEFINE cell == sheet.cells[c]
             raw == RewriteFormula(cell.raw, e)
  <2>1. cell.raw.kind # "indirect" /\ cell.raw \in RawTexts
    BY DEF Sheets, Cells, Direct
  <2>2. CASE IsFormula(cell.raw)
    <3>1. ShiftCell(cell, e).raw = raw
      BY <2>2 DEF ShiftCell, ParseCell
    <3>2. raw.kind \in {cell.raw.kind, "error"}
      <4>1. \/ raw = RefErrorRaw
            \/ cell.raw.kind = "ref"
               /\ raw = [cell.raw EXCEPT !.lo = ShiftIndex(cell.raw.lo, e)]
            \/ cell.raw.kind = "sum"
               /\ \E lo, hi : raw = Raw("sum", lo, hi)
            \/ raw = cell.raw
        BY <2>1 DEF RewriteFormula
      <4>2. [cell.raw EXCEPT !.lo = ShiftIndex(cell.raw.lo, e)].kind
              = cell.raw.kind
        BY <2>1, RawIs
      <4>3. /\ RefErrorRaw.kind = "error"
            /\ \A lo, hi : Raw("sum", lo, hi).kind = "sum"
        BY DEF Raw, RefErrorRaw
      <4> HIDE DEF raw, cell
      <4> QED
        BY <4>1, <4>2, <4>3
    <3> QED
      BY <2>1, <2>2, <3>1, <3>2 DEF IsFormula
  <2>3. CASE ~ IsFormula(cell.raw)
    <3>1. ShiftCell(cell, e) = cell
      BY <2>3 DEF ShiftCell
    <3> QED
      BY <2>1, <2>3, <3>1 DEF Parsed
  <2> QED
    BY <2>2, <2>3
<1>4. \A i \in Axis : ShiftedFrom(i, e) = None \/ ShiftedFrom(i, e) \in Axis
  BY ShiftedFromIs
<1>5. Direct(after)
  BY <1>1, <1>2, <1>3, <1>4 DEF Direct
<1>6. Parsed(after)
  BY <1>1, <1>2, <1>3, <1>4 DEF Parsed
<1> QED
  BY <1>5, <1>6 DEF after

-----------------------------------------------------------------------------
(* Without INDIRECT values are exact: what a snapshot of the history holds *)
(* fits the sheet it will be put back into.                                *)

NoIndirect ==
  /\ \A raw \in Raws : raw.kind # "indirect"
  /\ \A raws \in Starts : \A c \in Axis : raws[c].kind # "indirect"

\* The cells of a snapshot have the values of a right engine of contents k.
Fits(snapshot, k) ==
  \A g \in Engines : Right(g) /\ ContentsOf(g) = k =>
    \A c \in DOMAIN snapshot : snapshot[c].value = g.cells[c].value

\* An entry, done in a right engine, leaves it right: it leads to contents k.
Sound(entry, k) ==
  /\ entry.op = "set" => entry.raw.kind # "indirect"
  /\ entry.op = "cells" => Fits(entry.to, k) /\ Fits(entry.from, k)
  /\ entry.op = "sheet" => /\ Direct(entry.to) /\ Parsed(entry.to)
                           /\ Direct(entry.from) /\ Parsed(entry.from)

AllSound(entries, sheets) ==
  \A i \in 1 .. Len(entries) : Sound(entries[i], Contents(sheets[i]))

ValueInv ==
  /\ Right(engine)
  /\ AllSound(undo, past)
  /\ AllSound(redo, future)

LEMMA PriorDirect ==
  ASSUME NEW g, Right(g), NEW c \in Axis
  PROVE  PriorRaw(g, c).kind # "indirect"
BY DEF Right, Direct, PriorRaw, Empty, Raw

\* An entry that fits leaves the engine right, and its inverse fits too.
LEMMA ApplyRight ==
  ASSUME NEW g, Right(g), NEW entry, NEW m,
         Leads(entry, ContentsOf(g), m), Sound(entry, m)
  PROVE  /\ Right(Apply(g, entry).engine)
         /\ Sound(Apply(g, entry).inverse, ContentsOf(g))
<1> DEFINE k == ContentsOf(g)
<1>0. g \in Engines /\ Matches(g)
  BY DEF Right
<1>1. ASSUME NEW c \in Axis, NEW raw \in RawTexts, entry = SetEntry(c, raw)
      PROVE  /\ Right(Apply(g, entry).engine)
             /\ Sound(Apply(g, entry).inverse, k)
  <2>1. /\ Apply(g, entry).engine = SetCell(g, c, raw)
        /\ Apply(g, entry).inverse = SetEntry(c, PriorRaw(g, c))
    BY <1>1 DEF Apply, SetEntry
  <2>2. raw.kind # "indirect"
    BY <1>1 DEF Sound, SetEntry
  <2>3. Sound(SetEntry(c, PriorRaw(g, c)), k)
    <3>1. PriorRaw(g, c).kind # "indirect"
      BY PriorDirect
    <3> QED
      BY <3>1 DEF Sound, SetEntry
  <2> QED
    BY <2>1, <2>2, <2>3, SetCellRight
<1>2. ASSUME NEW label \in Labels, NEW to \in Snapshots, NEW from \in Snapshots,
             entry = RestoreEntry("cells", label, to, from),
             m = k, Alike(to, k), Alike(from, k)
      PROVE  /\ Right(Apply(g, entry).engine)
             /\ Sound(Apply(g, entry).inverse, k)
  <2>1. /\ Apply(g, entry).engine = RestoreCells(g, to)
        /\ Apply(g, entry).inverse = RestoreEntry("cells", label, from, to)
    BY <1>2 DEF Apply, RestoreEntry
  <2>2. PICK S \in SUBSET Axis : to \in [S -> Cells]
    BY <1>2 DEF Snapshots
  <2>3. Fits(to, k) /\ Fits(from, k)
    <3> HIDE DEF k
    <3> QED
      BY <1>2 DEF Sound, RestoreEntry
  <2>4. \A c \in S : /\ Plain(to[c].raw) = Plain(g.cells[c].raw)
                     /\ to[c].value = g.cells[c].value
    <3>1. \A c \in S : Plain(to[c].raw) = k.raws[c]
      BY <1>2, <2>2 DEF Alike
    <3>2. \A c \in S : k.raws[c] = Plain(g.cells[c].raw)
      BY ContentsGive
    <3>3. \A c \in S : to[c].value = g.cells[c].value
      BY <1>0, <2>2, <2>3 DEF Fits
    <3> QED
      BY <3>1, <3>2, <3>3
  <2>5. Sound(RestoreEntry("cells", label, from, to), k)
    <3> HIDE DEF k
    <3> QED
      BY <2>3 DEF Sound, RestoreEntry
  <2> QED
    BY <2>1, <2>2, <2>4, <2>5, RestoreCellsRight
<1>3. ASSUME NEW label \in Labels, NEW to \in Sheets, NEW from \in Sheets,
             entry = RestoreEntry("sheet", label, to, from)
      PROVE  /\ Right(Apply(g, entry).engine)
             /\ Sound(Apply(g, entry).inverse, k)
  <2>1. /\ Apply(g, entry).engine = ReplaceSheet(g, to)
        /\ Apply(g, entry).inverse = RestoreEntry("sheet", label, from, to)
    BY <1>3 DEF Apply, RestoreEntry
  <2>2. Direct(to) /\ Parsed(to) /\ Direct(from) /\ Parsed(from)
    BY <1>3 DEF Sound, RestoreEntry
  <2>3. Sound(RestoreEntry("sheet", label, from, to), k)
    BY <2>2 DEF Sound, RestoreEntry
  <2> QED
    BY <2>1, <2>2, <2>3, ReplaceSheetRight
<1>4. ASSUME NEW label \in Labels, NEW to \in SizeSnapshots,
             NEW from \in SizeSnapshots,
             entry = RestoreEntry("size", label, to, from)
      PROVE  /\ Right(Apply(g, entry).engine)
             /\ Sound(Apply(g, entry).inverse, k)
  <2>1. /\ Apply(g, entry).engine = RestoreSizes(g, to)
        /\ Apply(g, entry).inverse = RestoreEntry("size", label, from, to)
    BY <1>4 DEF Apply, RestoreEntry
  <2>2. PICK S \in SUBSET Axis : to \in [S -> Nat]
    BY <1>4 DEF SizeSnapshots
  <2>3. Sound(RestoreEntry("size", label, from, to), k)
    BY DEF Sound, RestoreEntry
  <2> QED
    BY <2>1, <2>2, <2>3, RestoreSizesRight
<1> QED
  BY <1>1, <1>2, <1>3, <1>4 DEF Leads

LEMMA SoundNothing ==
  ASSUME NEW sheets
  PROVE  AllSound(<<>>, sheets)
<1>1. Len(<<>>) = 0
  OBVIOUS
<1> QED
  BY <1>1 DEF AllSound

LEMMA SoundOneMore ==
  ASSUME NEW entries \in Seq(Entries), NEW sheets \in Seq(Sheets),
         Len(sheets) = Len(entries), NEW sheet \in Sheets,
         NEW entry \in Entries, AllSound(entries, sheets),
         Sound(entry, Contents(sheet))
  PROVE  AllSound(Append(entries, entry), Append(sheets, sheet))
<1> DEFINE n == Len(entries)
           E == Append(entries, entry)
           T == Append(sheets, sheet)
<1>1. /\ n \in Nat /\ E \in Seq(Entries) /\ Len(E) = n + 1 /\ E[n + 1] = entry
      /\ \A i \in 1 .. n : E[i] = entries[i]
  BY AppendProperties, LenProperties
<1>2. /\ T \in Seq(Sheets) /\ T[n + 1] = sheet
      /\ \A i \in 1 .. n : T[i] = sheets[i]
  <2>1. /\ T \in Seq(Sheets) /\ T[Len(sheets) + 1] = sheet
        /\ \A i \in 1 .. Len(sheets) : T[i] = sheets[i]
    BY AppendProperties
  <2> QED
    BY <2>1
<1>3. \A i \in 1 .. n : Sound(entries[i], Contents(sheets[i]))
  BY DEF AllSound
<1> HIDE DEF n, E, T
<1>4. ASSUME NEW i \in 1 .. n + 1 PROVE Sound(E[i], Contents(T[i]))
  <2>1. i = n + 1 \/ i \in 1 .. n
    BY <1>1
  <2> QED
    BY <1>1, <1>2, <1>3, <2>1
<1>5. AllSound(E, T)
  BY <1>1, <1>4 DEF AllSound
<1> QED
  BY <1>5 DEF E, T

LEMMA SoundOneLess ==
  ASSUME NEW entries \in Seq(Entries), NEW sheets \in Seq(Sheets),
         Len(sheets) = Len(entries), entries # <<>>, AllSound(entries, sheets)
  PROVE  /\ Sound(Last(entries), Contents(Last(sheets)))
         /\ AllSound(Front(entries), Front(sheets))
<1> DEFINE n == Len(entries)
           E == Front(entries)
           T == Front(sheets)
<1>1. n \in Nat /\ n # 0
  BY LenProperties, EmptySeq
<1>2. sheets # <<>>
  <2>1. Len(<<>>) = 0
    OBVIOUS
  <2> QED
    BY <1>1, <2>1
<1>3. Len(E) = n - 1 /\ \A i \in 1 .. n - 1 : E[i] = entries[i]
  BY FrontIs
<1>4. \A i \in 1 .. n - 1 : T[i] = sheets[i]
  BY <1>2, FrontIs
<1>5. Last(entries) = entries[n] /\ Last(sheets) = sheets[n]
  BY DEF Last
<1>6. \A i \in 1 .. n : Sound(entries[i], Contents(sheets[i]))
  BY DEF AllSound
<1> HIDE DEF n, E, T
<1>7. Sound(entries[n], Contents(sheets[n]))
  BY <1>1, <1>6
<1>8. ASSUME NEW i \in 1 .. n - 1 PROVE Sound(E[i], Contents(T[i]))
  <2>1. i \in 1 .. n
    BY <1>1
  <2> QED
    BY <1>3, <1>4, <1>6, <2>1
<1>9. AllSound(E, T)
  BY <1>3, <1>8 DEF AllSound
<1> QED
  BY <1>5, <1>7, <1>9 DEF E, T

LEMMA ExecRight ==
  ASSUME IInv, ValueInv, NEW kind, NEW after, Right(after),
         NEW inverse \in Entries, Sound(inverse, ContentsOf(engine)),
         Exec(kind, after, inverse)
  PROVE  ValueInv'
<1>1. /\ engine' = after
      /\ undo' = Append(undo, inverse) /\ redo' = <<>>
      /\ past' = Append(past, SheetOf(engine)) /\ future' = <<>>
  BY DEF Exec
<1>2. /\ undo \in Seq(Entries) /\ past \in Seq(Sheets) /\ Len(past) = Len(undo)
      /\ SheetOf(engine) \in Sheets /\ AllSound(undo, past)
      /\ Sound(inverse, Contents(SheetOf(engine)))
  BY SheetOfType
     DEF IInv, TypeOK, HistoryLeads, Links, ContentsOf, ValueInv
<1>3. AllSound(undo', past')
  BY <1>1, <1>2, SoundOneMore
<1>4. AllSound(redo', future')
  BY <1>1, SoundNothing
<1>5. Right(engine')
  BY <1>1
<1> QED
  BY <1>3, <1>4, <1>5 DEF ValueInv

LEMMA StartOverRight ==
  ASSUME NEW with, Right(with), StartOver(with)
  PROVE  ValueInv'
<1>1. /\ engine' = with /\ undo' = <<>> /\ redo' = <<>>
  BY DEF StartOver
<1>2. AllSound(undo', past') /\ AllSound(redo', future')
  BY <1>1, SoundNothing
<1>3. Right(engine')
  BY <1>1
<1> QED
  BY <1>2, <1>3 DEF ValueInv

LEMMA InitRight ==
  ASSUME Init, NoIndirect
  PROVE  ValueInv
<1>1. PICK raws \in Starts : engine = Open(Typed(raws))
  BY DEF Init
<1>2. Direct(Typed(raws))
  <2>1. \A c \in Axis : Typed(raws).cells[c].raw = raws[c]
    BY DEF Typed, ParseCell
  <2> QED
    BY <2>1 DEF Direct, NoIndirect
<1>3. Right(engine)
  BY <1>1, <1>2, TypedType, OpenRight
<1>4. undo = <<>> /\ redo = <<>>
  BY DEF Init
<1> QED
  BY <1>3, <1>4, SoundNothing DEF ValueInv

LEMMA SetCellSound ==
  ASSUME IInv, ValueInv, NoIndirect, NEW c \in Axis, NEW raw \in Raws,
         SetCellCommand(c, raw)
  PROVE  ValueInv'
<1> DEFINE after == SetCell(engine, c, raw)
           prior == PriorRaw(engine, c)
<1>1. engine \in Engines /\ raw \in RawTexts /\ raw.kind # "indirect"
  BY SheetConstants DEF IInv, TypeOK, NoIndirect
<1>2. Right(after)
  BY <1>1, SetCellRight DEF ValueInv
<1>3. prior \in RawTexts /\ prior.kind # "indirect"
  BY <1>1, PriorRawIs, PriorDirect DEF ValueInv
<1>4. Exec("set", after, SetEntry(c, prior))
  BY DEF SetCellCommand
<1> HIDE DEF after, prior
<1>5. SetEntry(c, prior) \in Entries
        /\ Sound(SetEntry(c, prior), ContentsOf(engine))
  <2>1. SetEntry(c, prior) \in Entries
    BY <1>3 DEF Entries
  <2>2. SetEntry(c, prior).op = "set" /\ SetEntry(c, prior).raw = prior
    BY DEF SetEntry
  <2> QED
    BY <1>3, <2>1, <2>2 DEF Sound
<1> QED
  BY <1>2, <1>4, <1>5, ExecRight

\* A format changes no value.
LEMMA FormattedValue ==
  ASSUME NEW cell, ~ IsFormula(cell.raw) => cell.value = ParsedValue(cell.raw),
         NEW format \in Nat, cell \in Cells
  PROVE  Formatted(cell, format).value = cell.value
<1>1. CASE Occupied(cell)
  BY <1>1 DEF Formatted, Cells
<1>2. CASE ~ Occupied(cell) /\ format = 0
  BY <1>2 DEF Formatted
<1>3. CASE ~ Occupied(cell) /\ format # 0
  <2>1. Formatted(cell, format) = ParseCell(Empty, format) /\ cell.raw = Absent
    BY <1>3 DEF Formatted, Occupied
  <2>2. cell.value = Blank
    BY <2>1 DEF IsFormula, ParsedValue, Absent, Raw
  <2>3. ParseCell(Empty, format).value = Blank
    BY DEF ParseCell, Empty, Raw
  <2> QED
    BY <2>1, <2>2, <2>3
<1> QED
  BY <1>1, <1>2, <1>3

LEMMA SetFormatSound ==
  ASSUME IInv, ValueInv, NEW lo \in Axis, NEW hi \in Axis,
         NEW format \in {0, 1},
         SetFormatCommand(lo, hi, format)
  PROVE  ValueInv'
<1> DEFINE S == lo .. hi
           before == [c \in S |-> engine.cells[c]]
           snapshot == [c \in S |-> Formatted(engine.cells[c], format)]
           after == RestoreCells(engine, snapshot)
           k == ContentsOf(engine)
           inverse == RestoreEntry("cells", NoEdit, before, snapshot)
<1>1. engine \in Engines /\ Right(engine) /\ Parsed(engine)
  BY ExactParsed DEF IInv, TypeOK, ValueInv, Right
<1>2. S \in SUBSET Axis
  BY LimitAssumption DEF Axis
<1>3. Exec("format", after, inverse)
  BY DEF SetFormatCommand
<1> HIDE DEF S
<1>4. \A c \in S : /\ engine.cells[c] \in Cells
                   /\ Formatted(engine.cells[c], format) \in Cells
                   /\ Plain(Formatted(engine.cells[c], format).raw)
                        = Plain(engine.cells[c].raw)
                   /\ Formatted(engine.cells[c], format).value
                        = engine.cells[c].value
  <2>1. format \in Nat
    OBVIOUS
  <2>2. \A c \in S : engine.cells[c] \in Cells
    BY <1>1, <1>2, EngineIs
  <2>3. \A c \in S : Formatted(engine.cells[c], format).value
                       = engine.cells[c].value
    BY <1>1, <1>2, <2>1, <2>2, FormattedValue DEF Parsed
  <2> QED
    BY <2>1, <2>2, <2>3, FormattedIs
<1>5. /\ before \in [S -> Cells] /\ snapshot \in [S -> Cells]
      /\ \A c \in S : /\ before[c].value = engine.cells[c].value
                      /\ snapshot[c].value = engine.cells[c].value
                      /\ Plain(snapshot[c].raw) = Plain(engine.cells[c].raw)
  BY <1>4
<1> HIDE DEF before, snapshot, after, k
<1>6. Right(after)
  BY <1>1, <1>2, <1>5, RestoreCellsRight DEF after
<1>7. Fits(before, k) /\ Fits(snapshot, k)
  <2>1. ASSUME NEW g \in Engines, Right(g), ContentsOf(g) = k
        PROVE  \A c \in Axis : engine.cells[c].value = g.cells[c].value
    BY <1>1, <2>1, RightAlike DEF k
  <2>2. DOMAIN before = S /\ DOMAIN snapshot = S
    BY <1>5
  <2> QED
    BY <1>2, <1>5, <2>1, <2>2 DEF Fits
<1>8. inverse \in Entries
  <2>1. before \in Snapshots /\ snapshot \in Snapshots
    BY <1>2, <1>5 DEF Snapshots
  <2> QED
    BY <2>1 DEF Entries, Labels
<1>9. Sound(inverse, k)
  BY <1>7 DEF Sound, RestoreEntry
<1> HIDE DEF inverse
<1> QED
  BY <1>3, <1>6, <1>8, <1>9, ExecRight DEF k

LEMMA ResizeSound ==
  ASSUME IInv, ValueInv, NEW i \in Axis, NEW size \in {0, 1},
         ResizeCommand(i, size)
  PROVE  ValueInv'
<1> DEFINE before == [j \in {i} |-> engine.sizes[i]]
           snapshot == [j \in {i} |-> size]
           after == RestoreSizes(engine, snapshot)
           inverse == RestoreEntry("size", NoEdit, before, snapshot)
<1>1. engine.sizes \in [Axis -> Nat]
  BY EngineIs DEF IInv, TypeOK
<1>2. Exec("resize", after, inverse)
  BY DEF ResizeCommand
<1>3. /\ before \in [{i} -> Nat] /\ snapshot \in [{i} -> Nat]
      /\ {i} \in SUBSET Axis
  BY <1>1
<1> HIDE DEF before, snapshot, after
<1>4. before \in SizeSnapshots /\ snapshot \in SizeSnapshots
  BY <1>3 DEF SizeSnapshots
<1>5. inverse \in Entries
  BY <1>4 DEF Entries, Labels
<1>6. Sound(inverse, ContentsOf(engine))
  BY DEF Sound, RestoreEntry
<1> HIDE DEF inverse
<1>7. Right(after)
  BY <1>3, RestoreSizesRight DEF ValueInv, after
<1> QED
  BY <1>2, <1>5, <1>6, <1>7, ExecRight

LEMMA StructuralEditSound ==
  ASSUME IInv, ValueInv, NEW e \in Edits, StructuralEditCommand(e)
  PROVE  ValueInv'
<1> DEFINE shifted == Shifted(SheetOf(engine), e)
           after == ReplaceSheet(engine, shifted)
           inverse == RestoreEntry("sheet", e, SheetOf(engine), SheetOf(after))
<1>1. /\ engine \in Engines /\ Right(engine) /\ SheetOf(engine) \in Sheets
      /\ InBounds(e)
  BY SheetOfType DEF IInv, TypeOK, ValueInv, StructuralEditCommand
<1>2. Exec("edit", after, inverse)
  BY DEF StructuralEditCommand
<1>3. ASSUME NEW g, Right(g)
      PROVE  Direct(SheetOf(g)) /\ Parsed(SheetOf(g))
  <2>1. SheetOf(g).cells = g.cells
    BY DEF SheetOf
  <2>2. Direct(g) /\ Parsed(g)
    BY <1>3, ExactParsed DEF Right
  <2> QED
    BY <2>1, <2>2 DEF Direct, Parsed
<1>4. shifted \in Sheets /\ Direct(shifted) /\ Parsed(shifted)
  BY <1>1, <1>3, ShiftedType, ShiftedDirect
<1> HIDE DEF shifted
<1>5. Right(after)
  BY <1>1, <1>4, ReplaceSheetRight
<1> HIDE DEF after
<1>6. SheetOf(after) \in Sheets
  BY <1>5, SheetOfType DEF Right
<1>7. inverse \in Entries
  BY <1>1, <1>6 DEF Entries, Labels
<1>8. Sound(inverse, ContentsOf(engine))
  BY <1>1, <1>3, <1>5 DEF Sound, RestoreEntry
<1> HIDE DEF inverse
<1> QED
  BY <1>2, <1>5, <1>7, <1>8, ExecRight

LEMMA UndoSound ==
  ASSUME IInv, ValueInv, Undo
  PROVE  ValueInv'
<1> DEFINE k == ContentsOf(engine)
           m == Contents(Last(past))
           applied == Apply(engine, Last(undo))
<1>1. /\ undo \in Seq(Entries) /\ redo \in Seq(Entries)
      /\ past \in Seq(Sheets) /\ future \in Seq(Sheets)
      /\ Links(undo, past, k) /\ Len(past) = Len(undo)
      /\ Len(future) = Len(redo) /\ SheetOf(engine) \in Sheets
  BY SheetOfType DEF IInv, TypeOK, HistoryLeads, Links
<1>2. /\ undo # <<>> /\ engine' = applied.engine
      /\ redo' = Append(redo, applied.inverse)
      /\ undo' = Front(undo) /\ past' = Front(past)
      /\ future' = Append(future, SheetOf(engine))
  BY DEF Undo
<1>3. Leads(Last(undo), k, m)
  BY <1>1, <1>2, LinksOneLess
<1>4. Sound(Last(undo), m) /\ AllSound(undo', past')
  BY <1>1, <1>2, SoundOneLess DEF ValueInv
<1> HIDE DEF k, m
<1>5. /\ Right(applied.engine) /\ Sound(applied.inverse, k)
      /\ applied.inverse \in Entries
  <2>1. engine \in Engines /\ Matches(engine) /\ Right(engine)
    BY DEF IInv, TypeOK, ValueInv
  <2> QED
    BY <1>3, <1>4, <2>1, ApplyRight, ApplyIs, LeadsType DEF k
<1> HIDE DEF applied
<1>6. AllSound(redo', future')
  BY <1>1, <1>2, <1>5, SoundOneMore DEF ValueInv, k, ContentsOf
<1>7. Right(engine')
  BY <1>2, <1>5
<1> QED
  BY <1>4, <1>6, <1>7 DEF ValueInv

LEMMA RedoSound ==
  ASSUME IInv, ValueInv, Redo
  PROVE  ValueInv'
<1> DEFINE k == ContentsOf(engine)
           m == Contents(Last(future))
           applied == Apply(engine, Last(redo))
<1>1. /\ undo \in Seq(Entries) /\ redo \in Seq(Entries)
      /\ past \in Seq(Sheets) /\ future \in Seq(Sheets)
      /\ Links(redo, future, k) /\ Len(past) = Len(undo)
      /\ Len(future) = Len(redo) /\ SheetOf(engine) \in Sheets
  BY SheetOfType DEF IInv, TypeOK, HistoryLeads, Links
<1>2. /\ redo # <<>> /\ engine' = applied.engine
      /\ undo' = Append(undo, applied.inverse)
      /\ redo' = Front(redo) /\ future' = Front(future)
      /\ past' = Append(past, SheetOf(engine))
  BY DEF Redo
<1>3. Leads(Last(redo), k, m)
  BY <1>1, <1>2, LinksOneLess
<1>4. Sound(Last(redo), m) /\ AllSound(redo', future')
  BY <1>1, <1>2, SoundOneLess DEF ValueInv
<1> HIDE DEF k, m
<1>5. /\ Right(applied.engine) /\ Sound(applied.inverse, k)
      /\ applied.inverse \in Entries
  <2>1. engine \in Engines /\ Matches(engine) /\ Right(engine)
    BY DEF IInv, TypeOK, ValueInv
  <2> QED
    BY <1>3, <1>4, <2>1, ApplyRight, ApplyIs, LeadsType DEF k
<1> HIDE DEF applied
<1>6. AllSound(undo', past')
  BY <1>1, <1>2, <1>5, SoundOneMore DEF ValueInv, k, ContentsOf
<1>7. Right(engine')
  BY <1>2, <1>5
<1> QED
  BY <1>4, <1>6, <1>7 DEF ValueInv

LEMMA StepRight ==
  ASSUME IInv, ValueInv, NoIndirect, [Next]_vars
  PROVE  ValueInv'
<1>1. ASSUME NEW c \in Axis, NEW raw \in Raws, SetCellCommand(c, raw)
      PROVE  ValueInv'
  BY <1>1, SetCellSound
<1>2. ASSUME NEW lo \in Axis, NEW hi \in Axis, NEW format \in {0, 1},
             SetFormatCommand(lo, hi, format)
      PROVE  ValueInv'
  BY <1>2, SetFormatSound
<1>3. ASSUME NEW i \in Axis, NEW size \in {0, 1}, ResizeCommand(i, size)
      PROVE  ValueInv'
  BY <1>3, ResizeSound
<1>4. ASSUME NEW e \in Edits, StructuralEditCommand(e)
      PROVE  ValueInv'
  BY <1>4, StructuralEditSound
<1>5. CASE Undo
  BY <1>5, UndoSound
<1>6. CASE Redo
  BY <1>6, RedoSound
<1>7. CASE Reopen
  <2>1. Right(Open(Saved(engine)))
    BY ReopenedRight DEF ValueInv
  <2> QED
    BY <1>7, <2>1, StartOverRight DEF Reopen
<1>8. CASE NewWorkbook
  <2>1. Right(NewEngine(NoCells, NoSizes))
    BY NothingIs, NothingRight
  <2> QED
    BY <1>8, <2>1, StartOverRight DEF NewWorkbook
<1>9. CASE UNCHANGED vars
  BY <1>9 DEF ValueInv, vars
<1> QED
  BY <1>1, <1>2, <1>3, <1>4, <1>5, <1>6, <1>7, <1>8, <1>9 DEF Next

\* Values, and the snapshots of the history that carry some, stay right.
THEOREM ValueInvHolds ==
  ASSUME NoIndirect
  PROVE  Spec => []ValueInv
<1>1. Init => ValueInv
  BY InitRight
<1>2. IInv /\ ValueInv /\ [Next]_vars => ValueInv'
  BY StepRight
<1> QED
  BY <1>1, <1>2, InvHolds, PTL DEF Spec

\* SPEC.md 3.5: after every command, undo or redo included, a cell on a cycle
\* is #CIRC! and every other formula has the value that it gives over the values
\* now in the sheet, in sheets of any size into which no INDIRECT is typed:
\* recomputing the dirty cells alone, in the order of Kahn's queue, is enough,
\* and a snapshot put back without a recalculation fits the sheet around it.
THEOREM ValuesRight ==
  ASSUME NoIndirect
  PROVE  Spec => []ValuesExact
<1>1. ValueInv => ValuesExact
  BY DEF ValueInv, Right, Exact, ExactAt, OnCycle, ValuesExact
<1> QED
  BY <1>1, ValueInvHolds, PTL

\* SPEC.md 3.8: a workbook without INDIRECT that is saved and opened again, cell
\* by cell and in an engine of its own, has the same raws, sizes and values, and
\* the formats of the cells that hold something.
THEOREM RoundTripRight ==
  ASSUME NoIndirect
  PROVE  Spec => []RoundTrip
<1>1. ValueInv => RoundTrip
  BY ReopenedRight DEF ValueInv, RoundTrip, ContentsOf
<1> QED
  BY <1>1, ValueInvHolds, PTL

-----------------------------------------------------------------------------
(* Insertions and deletions carry formulas and values along.               *)

\* What a position contributes to a sum.
Share(values, n) ==
  IF n \in DOMAIN values /\ values[n] # Blank THEN values[n] ELSE 0

\* The sums up to each position.
Sums(values, f) ==
  /\ f \in [0 .. Limit -> Nat] /\ f[0] = 0
  /\ \A n \in 1 .. Limit : f[n] = f[n - 1] + Share(values, n)
  /\ Total(values) = f[Limit]

LEMMA SumsExist ==
  ASSUME NEW S \in SUBSET Axis, NEW values \in [S -> Nat \cup {Blank}]
  PROVE  /\ \E f : Sums(values, f)
         /\ \A n \in 1 .. Limit : Share(values, n) \in Nat
<1>1. \A n \in 1 .. Limit : Share(values, n) \in Nat
  BY DEF Share
<1>2. ASSUME NEW v \in Nat, NEW n \in 1 .. Limit
      PROVE  (IF n \in DOMAIN values /\ values[n] # Blank THEN v + values[n]
              ELSE v) \in Nat
  <2>1. n \in S /\ values[n] # Blank => values[n] \in Nat
    OBVIOUS
  <2> QED
    BY <2>1
<1>3. PICK f \in [0 .. Limit -> Nat] :
        /\ f[0] = 0
        /\ \A n \in 1 .. Limit :
             f[n] = (IF n \in DOMAIN values /\ values[n] # Blank
                       THEN f[n - 1] + values[n] ELSE f[n - 1])
        /\ Total(values) = f[Limit]
  BY <1>2, TotalSteps
<1>4. ASSUME NEW n \in 1 .. Limit PROVE f[n] = f[n - 1] + Share(values, n)
  <2>1. n - 1 \in 0 .. Limit /\ f[n - 1] \in Nat
    BY LimitAssumption
  <2> QED
    BY <1>3, <2>1 DEF Share
<1>5. Sums(values, f)
  BY <1>3, <1>4 DEF Sums
<1> QED
  BY <1>1, <1>5

\* w is v with count positions that contribute nothing put in at at.
Widened(v, w, at, count) ==
  /\ \A n \in 1 .. Limit : n < at => Share(w, n) = Share(v, n)
  /\ \A n \in 1 .. Limit : at <= n /\ n < at + count => Share(w, n) = 0
  /\ \A n \in 1 .. Limit : at <= n =>
       IF n + count <= Limit THEN Share(w, n + count) = Share(v, n)
       ELSE Share(v, n) = 0

LEMMA TotalWidened ==
  ASSUME NEW S \in SUBSET Axis, NEW v \in [S -> Nat \cup {Blank}],
         NEW T \in SUBSET Axis, NEW w \in [T -> Nat \cup {Blank}],
         NEW at \in Axis, NEW count \in Axis, at + count - 1 <= Limit,
         Widened(v, w, at, count)
  PROVE  Total(w) = Total(v)
<1>1. PICK f : Sums(v, f)
  BY SumsExist
<1>2. PICK k : Sums(w, k)
  BY SumsExist
<1>3. /\ \A n \in 1 .. Limit : Share(v, n) \in Nat /\ Share(w, n) \in Nat
      /\ \A n \in 0 .. Limit : f[n] \in Nat /\ k[n] \in Nat
      /\ f[0] = 0 /\ k[0] = 0
      /\ \A n \in 1 .. Limit : f[n] = f[n - 1] + Share(v, n)
      /\ \A n \in 1 .. Limit : k[n] = k[n - 1] + Share(w, n)
      /\ Total(v) = f[Limit] /\ Total(w) = k[Limit]
  BY <1>1, <1>2, SumsExist DEF Sums
<1>4. Limit \in Nat /\ at \in 1 .. Limit /\ count \in 1 .. Limit
  BY LimitAssumption DEF Axis
<1> DEFINE Before1 == {n \in 0 .. at - 1 : k[n] = f[n]}
<1>5. \A n \in 0 .. at - 1 : n \in Before1
  <2>1. 0 \in Before1
    BY <1>3, <1>4
  <2>2. ASSUME NEW n \in 0 .. (at - 1) - 1, n \in Before1
        PROVE n + 1 \in Before1
    <3>1. n + 1 \in 1 .. Limit /\ n + 1 < at /\ (n + 1) - 1 = n
          /\ n + 1 \in 0 .. at - 1
      BY <1>4
    <3>2. Share(w, n + 1) = Share(v, n + 1)
      BY <3>1 DEF Widened
    <3>3. f[n + 1] = f[n] + Share(v, n + 1) /\ k[n + 1] = k[n] + Share(w, n + 1)
      BY <1>3, <3>1
    <3> QED
      BY <2>2, <3>1, <3>2, <3>3
  <2>3. at - 1 \in Nat
    BY <1>4
  <2> HIDE DEF Before1
  <2> QED
    BY <2>1, <2>2, <2>3, UpTo
<1> DEFINE Inside == {m \in 0 .. count : k[at - 1 + m] = f[at - 1]}
<1>6. \A m \in 0 .. count : m \in Inside
  <2>1. 0 \in Inside
    <3>1. at - 1 \in 0 .. at - 1 /\ at - 1 + 0 = at - 1 /\ 0 \in 0 .. count
      BY <1>4
    <3> QED
      BY <1>5, <3>1
  <2>2. ASSUME NEW m \in 0 .. count - 1, m \in Inside PROVE m + 1 \in Inside
    <3>1. /\ at + m \in 1 .. Limit /\ at <= at + m /\ at + m < at + count
          /\ (at + m) - 1 = at - 1 + m /\ at - 1 + (m + 1) = at + m
          /\ at - 1 + m \in 0 .. Limit /\ m + 1 \in 0 .. count
      BY <1>4
    <3>2. Share(w, at + m) = 0
      BY <3>1 DEF Widened
    <3>3. k[at + m] = k[at - 1 + m] + 0 /\ k[at - 1 + m] \in Nat
      BY <1>3, <3>1, <3>2
    <3> QED
      BY <2>2, <3>1, <3>3
  <2>3. count \in Nat
    BY <1>4
  <2> HIDE DEF Inside
  <2> QED
    BY <2>1, <2>2, <2>3, UpTo
<1> DEFINE Capped(n) == IF n <= Limit THEN n ELSE Limit
           After == {m \in 0 .. Limit - (at - 1) :
                       k[Capped(at - 1 + m + count)] = f[at - 1 + m]}
<1>7. \A m \in 0 .. Limit - (at - 1) : m \in After
  <2>1. 0 \in After
    <3>1. /\ count \in 0 .. count /\ at - 1 + count <= Limit
          /\ 0 \in 0 .. Limit - (at - 1)
          /\ at - 1 + 0 + count = at - 1 + count /\ at - 1 + 0 = at - 1
      BY <1>4
    <3>2. k[at - 1 + count] = f[at - 1]
      BY <1>6, <3>1
    <3> QED
      BY <3>1, <3>2
  <2>2. ASSUME NEW m \in 0 .. (Limit - (at - 1)) - 1, m \in After
        PROVE  m + 1 \in After
    <3> DEFINE n == at + m
    <3>1. /\ n \in 1 .. Limit /\ at <= n /\ n - 1 = at - 1 + m
          /\ at - 1 + (m + 1) = n /\ m + 1 \in 0 .. Limit - (at - 1)
          /\ (n - 1) + count = at - 1 + m + count
          /\ at - 1 + (m + 1) + count = n + count
          /\ n - 1 \in 0 .. Limit
      BY <1>4
    <3>2. k[Capped((n - 1) + count)] = f[n - 1]
      BY <2>2, <3>1
    <3> HIDE DEF n
    <3>3. f[n] = f[n - 1] + Share(v, n) /\ f[n - 1] \in Nat
      BY <1>3, <3>1
    <3>4. k[Capped(n + count)] = f[n]
      <4>1. CASE n + count <= Limit
        <5>1. /\ Capped(n + count) = n + count
              /\ Capped((n - 1) + count) = (n - 1) + count
              /\ n + count \in 1 .. Limit /\ (n + count) - 1 = (n - 1) + count
          BY <1>4, <3>1, <4>1
        <5>2. Share(w, n + count) = Share(v, n)
          BY <3>1, <4>1 DEF Widened
        <5>3. k[n + count] = k[(n - 1) + count] + Share(w, n + count)
          BY <1>3, <5>1
        <5> QED
          BY <3>2, <3>3, <5>1, <5>2, <5>3
      <4>2. CASE ~ (n + count <= Limit)
        <5>1. Capped(n + count) = Limit /\ Capped((n - 1) + count) = Limit
          BY <1>4, <3>1, <4>2
        <5>2. Share(v, n) = 0
          BY <3>1, <4>2 DEF Widened
        <5> QED
          BY <3>2, <3>3, <5>1, <5>2
      <4> QED
        BY <4>1, <4>2
    <3> QED
      BY <3>1, <3>4
  <2>3. Limit - (at - 1) \in Nat
    BY <1>4
  <2> HIDE DEF After
  <2> QED
    BY <2>1, <2>2, <2>3, UpTo
<1>8. k[Limit] = f[Limit]
  <2>1. /\ Limit - (at - 1) \in 0 .. Limit - (at - 1)
        /\ at - 1 + (Limit - (at - 1)) = Limit
        /\ Capped(at - 1 + (Limit - (at - 1)) + count) = Limit
    BY <1>4
  <2>2. k[Capped(at - 1 + (Limit - (at - 1)) + count)]
          = f[at - 1 + (Limit - (at - 1))]
    BY <1>7, <2>1
  <2> QED
    BY <2>1, <2>2
<1> QED
  BY <1>3, <1>8

\* Nothing is moved onto a position that is inserted.
LEMMA ShiftIndexFree ==
  ASSUME NEW e \in Edits, NEW i \in Axis, ShiftIndex(i, e) # None
  PROVE  ShiftIndex(i, e) \notin New(e) /\ ShiftIndex(i, e) \in Axis
BY LimitAssumption
   DEF ShiftIndex, CheckedAdd, DeleteEnd, Edits, Axis, None, New

LEMMA ShiftIndexOne ==
  ASSUME NEW e \in Edits, NEW i \in Axis, NEW j \in Axis,
         ShiftIndex(i, e) = ShiftIndex(j, e), ShiftIndex(i, e) # None
  PROVE  i = j
<1>1. ~ (i < j)
  <2>1. i < j => /\ ShiftIndex(i, e) < ShiftIndex(j, e)
                 /\ ShiftIndex(i, e) \in Axis
    BY ShiftIndexOrdered, ShiftIndexFree
  <2> QED
    BY <2>1 DEF Axis
<1>2. ~ (j < i)
  <2>1. j < i => /\ ShiftIndex(j, e) < ShiftIndex(i, e)
                 /\ ShiftIndex(i, e) \in Axis
    BY ShiftIndexOrdered, ShiftIndexFree
  <2> QED
    BY <2>1 DEF Axis
<1> QED
  BY <1>1, <1>2 DEF Axis

\* What is at the new place of a position comes from there.
LEMMA ShiftedFromBack ==
  ASSUME NEW e \in Edits, NEW c \in Axis, ShiftIndex(c, e) # None
  PROVE  ShiftedFrom(ShiftIndex(c, e), e) = c
<1>1. ShiftIndex(c, e) \in Axis
  BY ShiftIndexFree
<1>2. /\ ShiftedFrom(ShiftIndex(c, e), e) \in Axis
      /\ ShiftIndex(ShiftedFrom(ShiftIndex(c, e), e), e) = ShiftIndex(c, e)
  BY <1>1, ShiftedFromIs
<1> QED
  BY <1>2, ShiftIndexOne

\* The cells at which the cells of S are after e.
Moved(S, e) == {ShiftIndex(d, e) : d \in S}

Gone(e) == {c \in Axis : ShiftIndex(c, e) = None}

ReadsOf(raw) == References(raw) \cup Spanned(raw)

\* A rewritten formula refers to what it referred to, without what is gone and
\* apart from what is new, or is #REF! because of something that is gone.
LEMMA RewriteCarries ==
  ASSUME NEW raw \in RawTexts, NEW e \in Edits, InBounds(e)
  PROVE  \/ ReadsOf(RewriteFormula(raw, e)) \ New(e)
              = Moved(ReadsOf(raw) \ Gone(e), e)
         \/ /\ RewriteFormula(raw, e) = RefErrorRaw
            /\ ReadsOf(raw) \cap Gone(e) # {}
<1> DEFINE to == RewriteFormula(raw, e)
           span == RewriteSpan(raw.lo, raw.hi, e)
<1>1. CASE raw.kind \in {"ref", "indirect"}
  <2>1. raw.lo \in Axis /\ ReadsOf(raw) = {raw.lo}
    BY <1>1, RawIs DEF ReadsOf, References, Spanned
  <2>2. CASE ShiftIndex(raw.lo, e) = None
    <3>1. to = RefErrorRaw
      BY <1>1, <2>2 DEF RewriteFormula
    <3>2. raw.lo \in ReadsOf(raw) \cap Gone(e)
      BY <2>1, <2>2 DEF Gone
    <3> QED
      BY <3>1, <3>2
  <2>3. CASE ShiftIndex(raw.lo, e) # None
    <3>1. to = [raw EXCEPT !.lo = ShiftIndex(raw.lo, e)]
      BY <1>1, <2>3 DEF RewriteFormula
    <3>2. to.kind = raw.kind /\ to.lo = ShiftIndex(raw.lo, e)
      BY <3>1, RawIs
    <3>3. ReadsOf(to) = {ShiftIndex(raw.lo, e)}
      BY <1>1, <3>2 DEF ReadsOf, References, Spanned
    <3>4. ReadsOf(to) \ New(e) = {ShiftIndex(raw.lo, e)}
      BY <2>1, <2>3, <3>3, ShiftIndexFree
    <3>5. ReadsOf(raw) \ Gone(e) = {raw.lo}
      BY <2>1, <2>3 DEF Gone
    <3>6. Moved(ReadsOf(raw) \ Gone(e), e) = {ShiftIndex(raw.lo, e)}
      BY <3>5 DEF Moved
    <3> QED
      BY <3>4, <3>6
  <2> QED
    BY <2>2, <2>3
<1>2. CASE raw.kind = "sum"
  <2>1. /\ raw.lo \in Axis /\ raw.hi \in Axis /\ raw.lo <= raw.hi
        /\ ReadsOf(raw) = raw.lo .. raw.hi
    BY <1>2, RawIs DEF ReadsOf, References, Spanned
  <2>2. ReadsOf(raw) \in SUBSET Axis
    BY ReadsOfRaw DEF ReadsOf
  <2>3. CASE span = NoSpan
    <3>1. to = RefErrorRaw
      BY <1>2, <2>3 DEF RewriteFormula
    <3>2. raw.lo \in raw.lo .. raw.hi /\ raw.hi \in raw.lo .. raw.hi
      BY <2>1 DEF Axis
    <3>3. ShiftIndex(raw.lo, e) = None \/ ShiftIndex(raw.hi, e) = None
      BY <2>1, <2>3, <3>2, RewriteSpanGone
    <3> QED
      BY <2>1, <3>1, <3>2, <3>3 DEF Gone
  <2>4. CASE span # NoSpan
    <3>1. to = Raw("sum", span.lo, span.hi)
      BY <1>2, <2>4 DEF RewriteFormula
    <3>2. ReadsOf(to) = span.lo .. span.hi
      BY <3>1 DEF Raw, ReadsOf, References, Spanned
    <3>3. ASSUME NEW k \in ReadsOf(to) \ New(e)
          PROVE  k \in Moved(ReadsOf(raw) \ Gone(e), e)
      <4>1. PICK i \in raw.lo .. raw.hi : ShiftIndex(i, e) = k
        BY <2>1, <2>4, <3>2, RewriteSpanExact
      <4>2. span.lo \in Axis /\ k \in span.lo .. span.hi
        BY <2>1, <2>4, <3>2, RewriteSpanType
      <4>3. k # None
        BY <4>2 DEF Axis, None
      <4>4. i \in ReadsOf(raw) \ Gone(e)
        BY <2>1, <4>1, <4>3 DEF Gone
      <4> QED
        BY <4>1, <4>4 DEF Moved
    <3>4. ASSUME NEW k \in Moved(ReadsOf(raw) \ Gone(e), e)
          PROVE  k \in ReadsOf(to) \ New(e)
      <4>1. PICK i \in ReadsOf(raw) \ Gone(e) : ShiftIndex(i, e) = k
        BY DEF Moved
      <4>2. i \in raw.lo .. raw.hi /\ i \in Axis /\ ShiftIndex(i, e) # None
        BY <2>1, <2>2, <4>1 DEF Gone
      <4>3. k \in span.lo .. span.hi
        BY <2>1, <2>4, <4>1, <4>2, RewriteSpanFollows
      <4> QED
        BY <3>2, <4>1, <4>2, <4>3, ShiftIndexFree
    <3> HIDE DEF to
    <3>5. ReadsOf(to) \ New(e) = Moved(ReadsOf(raw) \ Gone(e), e)
      BY <3>3, <3>4
    <3> QED
      BY <3>5 DEF to
  <2> QED
    BY <2>3, <2>4
<1>3. CASE raw.kind \notin {"ref", "indirect", "sum"}
  <2>1. to = raw
    BY <1>3 DEF RewriteFormula
  <2>2. ReadsOf(raw) = {}
    BY <1>3 DEF ReadsOf, References, Spanned
  <2> QED
    BY <2>1, <2>2 DEF Moved
<1> QED
  BY <1>1, <1>2, <1>3

\* A sum over cells that stay adds up the same, wherever they are.
LEMMA SumCarries ==
  ASSUME NEW g \in Engines, NEW h \in Engines, NEW e \in Edits, InBounds(e),
         NEW S \in SUBSET Axis, NEW T \in SUBSET Axis,
         S \cap Gone(e) = {}, T \ New(e) = Moved(S, e),
         \A d \in S : /\ h.cells[ShiftIndex(d, e)].value = g.cells[d].value
                      /\ ~ IsError(g.cells[d].value),
         \A k \in T : ~ IsError(h.cells[k].value),
         \A k \in New(e) : h.cells[k].value = Blank
  PROVE  Total([k \in T |-> h.cells[k].value])
           = Total([d \in S |-> g.cells[d].value])
<1> DEFINE v == [d \in S |-> g.cells[d].value]
           w == [k \in T |-> h.cells[k].value]
<1>1. v \in [S -> Nat \cup {Blank}] /\ w \in [T -> Nat \cup {Blank}]
  <2>1. \A x \in Values : ~ IsError(x) => x \in Nat \cup {Blank}
    BY DEF Values, IsError
  <2>2. \A d \in S : g.cells[d].value \in Values
    BY EngineIs
  <2>3. \A k \in T : h.cells[k].value \in Values
    BY EngineIs
  <2> QED
    BY <2>1, <2>2, <2>3
<1>2. e.at \in Axis /\ e.count \in Axis /\ e.at + e.count - 1 <= Limit
  BY DEF Edits, InBounds
<1>3. ASSUME NEW d \in Axis, NEW k \in Axis, ShiftIndex(d, e) = k
      PROVE  Share(w, k) = Share(v, d)
  <2>1. k # None
    BY DEF Axis, None
  <2>2. CASE d \in S
    <3>1. k \in Moved(S, e)
      BY <1>3, <2>2 DEF Moved
    <3>2. k \in T
      BY <3>1
    <3>3. w[k] = v[d]
      BY <1>3, <2>2, <3>2
    <3> QED
      BY <2>2, <3>2, <3>3 DEF Share
  <2>3. CASE d \notin S
    <3>1. k \notin New(e)
      BY <1>3, <2>1, ShiftIndexFree
    <3>2. ASSUME k \in T PROVE FALSE
      <4>1. PICK x \in S : ShiftIndex(x, e) = k
        BY <3>1, <3>2 DEF Moved
      <4>2. x = d
        BY <1>3, <2>1, <4>1, ShiftIndexOne
      <4> QED
        BY <2>3, <4>1, <4>2
    <3> QED
      BY <2>3, <3>2 DEF Share
  <2> QED
    BY <2>2, <2>3
<1>4. ASSUME NEW d \in Axis, ShiftIndex(d, e) = None
      PROVE  Share(v, d) = 0
  BY <1>4 DEF Share, Gone
<1>5. ASSUME NEW k \in Axis, \A d \in Axis : ShiftIndex(d, e) # k
      PROVE  Share(w, k) = 0
  <2>1. CASE k \in New(e)
    BY <2>1 DEF Share
  <2>2. CASE k \notin New(e)
    <3>1. k \notin T
      BY <1>5, <2>2 DEF Moved
    <3> QED
      BY <3>1 DEF Share
  <2> QED
    BY <2>1, <2>2
<1> HIDE DEF v, w
<1>6. CASE e.kind = "insert"
  <2>1. ASSUME NEW n \in 1 .. Limit, n < e.at
        PROVE  Share(w, n) = Share(v, n)
    <3>1. n \in Axis /\ ShiftIndex(n, e) = n
      BY <2>1 DEF Axis, ShiftIndex
    <3> QED
      BY <1>3, <3>1
  <2>2. ASSUME NEW n \in 1 .. Limit, e.at <= n, n < e.at + e.count
        PROVE  Share(w, n) = 0
    <3>1. n \in Axis /\ n \in New(e) /\ n # None
      BY <1>2, <1>6, <2>2 DEF Axis, New, DeleteEnd, None
    <3>2. \A d \in Axis : ShiftIndex(d, e) # n
      BY <3>1, ShiftIndexFree
    <3> QED
      BY <1>5, <3>1, <3>2
  <2>3. ASSUME NEW n \in 1 .. Limit, e.at <= n
        PROVE  IF n + e.count <= Limit THEN Share(w, n + e.count) = Share(v, n)
               ELSE Share(v, n) = 0
    <3>1. CASE n + e.count <= Limit
      <4>1. n \in Axis /\ n + e.count \in Axis /\ ShiftIndex(n, e) = n + e.count
        BY <1>2, <1>6, <2>3, <3>1 DEF Axis, ShiftIndex, CheckedAdd
      <4> QED
        BY <1>3, <3>1, <4>1
    <3>2. CASE ~ (n + e.count <= Limit)
      <4>1. n \in Axis /\ ShiftIndex(n, e) = None
        BY <1>2, <1>6, <2>3, <3>2 DEF Axis, ShiftIndex, CheckedAdd
      <4> QED
        BY <1>4, <3>2, <4>1
    <3> QED
      BY <3>1, <3>2
  <2>4. Widened(v, w, e.at, e.count)
    BY <2>1, <2>2, <2>3 DEF Widened
  <2>5. Total(w) = Total(v)
    BY <1>1, <1>2, <2>4, TotalWidened
  <2> QED
    BY <2>5 DEF v, w
<1>7. CASE e.kind = "delete"
  <2>1. ASSUME NEW n \in 1 .. Limit, n < e.at
        PROVE  Share(v, n) = Share(w, n)
    <3>1. n \in Axis /\ ShiftIndex(n, e) = n
      BY <2>1 DEF Axis, ShiftIndex
    <3> QED
      BY <1>3, <3>1
  <2>2. ASSUME NEW n \in 1 .. Limit, e.at <= n, n < e.at + e.count
        PROVE  Share(v, n) = 0
    <3>1. n \in Axis /\ ShiftIndex(n, e) = None
      BY <1>2, <1>7, <2>2 DEF Axis, ShiftIndex, DeleteEnd
    <3> QED
      BY <1>4, <3>1
  <2>3. ASSUME NEW n \in 1 .. Limit, e.at <= n
        PROVE  IF n + e.count <= Limit THEN Share(v, n + e.count) = Share(w, n)
               ELSE Share(w, n) = 0
    <3>1. CASE n + e.count <= Limit
      <4>1. n \in Axis /\ n + e.count \in Axis /\ ShiftIndex(n + e.count, e) = n
        BY <1>2, <1>7, <2>3, <3>1 DEF Axis, ShiftIndex, DeleteEnd
      <4> QED
        BY <1>3, <3>1, <4>1
    <3>2. CASE ~ (n + e.count <= Limit)
      <4>1. n \in Axis /\ \A d \in Axis : ShiftIndex(d, e) # n
        BY <1>2, <1>7, <2>3, <3>2, LimitAssumption
           DEF Axis, ShiftIndex, DeleteEnd, None
      <4> QED
        BY <1>5, <3>2, <4>1
    <3> QED
      BY <3>1, <3>2
  <2>4. Widened(w, v, e.at, e.count)
    BY <2>1, <2>2, <2>3 DEF Widened
  <2>5. Total(v) = Total(w)
    BY <1>1, <1>2, <2>4, TotalWidened
  <2> QED
    BY <2>5 DEF v, w
<1> QED
  BY <1>6, <1>7 DEF Edits

\* What a cell that stays holds after e.
CarriedRaw(raw, e) == IF IsFormula(raw) THEN RewriteFormula(raw, e) ELSE raw

\* h is g after e: the texts are where e moves them, and nothing is in the new
\* positions.
Carried(g, h, e) ==
  /\ Right(g) /\ Right(h)
  /\ \A c \in Axis \ Gone(e) :
       h.cells[ShiftIndex(c, e)].raw = CarriedRaw(g.cells[c].raw, e)
  /\ \A k \in New(e) : h.cells[k].raw = Absent

LEMMA NewType ==
  ASSUME NEW e \in Edits, InBounds(e)
  PROVE  New(e) \in SUBSET Axis
BY LimitAssumption DEF New, InBounds, DeleteEnd, Edits, Axis

LEMMA CarriedReads ==
  ASSUME NEW raw \in RawTexts, NEW e \in Edits, InBounds(e)
  PROVE  \/ ReadsOf(CarriedRaw(raw, e)) \ New(e)
              = Moved(ReadsOf(raw) \ Gone(e), e)
         \/ CarriedRaw(raw, e) = RefErrorRaw /\ ReadsOf(raw) \cap Gone(e) # {}
<1>1. CASE IsFormula(raw)
  <2>1. CarriedRaw(raw, e) = RewriteFormula(raw, e)
    BY <1>1 DEF CarriedRaw
  <2> QED
    BY <2>1, RewriteCarries
<1>2. CASE ~ IsFormula(raw)
  <2>1. CarriedRaw(raw, e) = raw
    BY <1>2 DEF CarriedRaw
  <2>2. ReadsOf(raw) = {}
    BY <1>2, NoFormula DEF ReadsOf
  <2> QED
    BY <2>1, <2>2 DEF Moved
<1> QED
  BY <1>1, <1>2

\* A formula gives the same value after e, if what it reads does.
LEMMA ValueCarries ==
  ASSUME NEW g \in Engines, NEW h \in Engines, NEW e \in Edits, InBounds(e),
         NEW raw \in RawTexts, raw.kind # "indirect",
         ReadsOf(raw) \cap Gone(e) = {},
         \A d \in ReadsOf(raw) :
           h.cells[ShiftIndex(d, e)].value = g.cells[d].value,
         \A k \in New(e) : h.cells[k].value = Blank
  PROVE  Value(h, CarriedRaw(raw, e)) = Value(g, raw)
<1> DEFINE to == CarriedRaw(raw, e)
<1>1. CASE raw.kind = "ref"
  <2>1. raw.lo \in Axis /\ raw.lo \in ReadsOf(raw)
    BY <1>1, RawIs DEF ReadsOf, References
  <2>2. ShiftIndex(raw.lo, e) # None
    BY <2>1 DEF Gone
  <2>3. to = [raw EXCEPT !.lo = ShiftIndex(raw.lo, e)]
    BY <1>1, <2>2 DEF CarriedRaw, IsFormula, RewriteFormula
  <2>4. to.kind = "ref" /\ to.lo = ShiftIndex(raw.lo, e)
    BY <1>1, <2>3, RawIs
  <2> HIDE DEF to
  <2>5. Value(h, to) = h.cells[ShiftIndex(raw.lo, e)].value
    BY <2>4, ValueIs
  <2>6. Value(g, raw) = g.cells[raw.lo].value
    BY <1>1, ValueIs
  <2> QED
    BY <2>1, <2>5, <2>6 DEF to
<1>2. CASE raw.kind = "sum"
  <2> DEFINE S == Spanned(raw)
             T == Spanned(to)
             span == RewriteSpan(raw.lo, raw.hi, e)
  <2>1. /\ raw.lo \in Axis /\ raw.hi \in Axis /\ raw.lo <= raw.hi
        /\ S = raw.lo .. raw.hi /\ ReadsOf(raw) = S
    BY <1>2, RawIs DEF ReadsOf, References, Spanned
  <2>2. span # NoSpan
    <3>1. raw.lo \in S /\ raw.hi \in S
      BY <2>1 DEF Axis
    <3>2. ShiftIndex(raw.lo, e) # None /\ ShiftIndex(raw.hi, e) # None
      BY <2>1, <3>1 DEF Gone
    <3> QED
      BY <2>1, <3>1, <3>2, RewriteSpanGone
  <2>3. to = Raw("sum", span.lo, span.hi)
    BY <1>2, <2>2 DEF CarriedRaw, IsFormula, RewriteFormula
  <2>4. to.kind = "sum" /\ ReadsOf(to) = T /\ to # RefErrorRaw
    BY <2>3 DEF Raw, RefErrorRaw, ReadsOf, References
  <2>5. to \in RawTexts
    <3>1. to = RewriteFormula(raw, e)
      BY <1>2 DEF CarriedRaw, IsFormula
    <3> QED
      BY <3>1, RewriteFormulaType
  <2>6. S \in SUBSET Axis /\ T \in SUBSET Axis
    BY <2>5, ReadsOfRaw
  <2>7. S \cap Gone(e) = {} /\ T \ New(e) = Moved(S, e)
    <3>1. ReadsOf(to) \ New(e) = Moved(ReadsOf(raw) \ Gone(e), e)
      BY <2>4, CarriedReads
    <3>2. S \ Gone(e) = S
      BY <2>1
    <3> QED
      BY <2>1, <2>4, <3>1, <3>2
  <2>8. \A d \in S : /\ ShiftIndex(d, e) \in T
                     /\ h.cells[ShiftIndex(d, e)].value = g.cells[d].value
    BY <2>1, <2>7 DEF Moved
  <2>9. \A k \in T : \/ h.cells[k].value = Blank
                     \/ \E d \in S : ShiftIndex(d, e) = k
    BY <2>7 DEF Moved
  <2>10. ~ IsError(Blank)
    BY DEF IsError, Blank, Circular, RefError
  <2> HIDE DEF S, T, to
  <2>11. \A k \in T : IsError(h.cells[k].value) =>
           \E d \in S : ShiftIndex(d, e) = k /\ IsError(g.cells[d].value)
    BY <2>8, <2>9, <2>10
  <2>12. Value(h, to) = ValueOfSum(h, to) /\ Value(g, raw) = ValueOfSum(g, raw)
    BY <1>2, <2>4, ValueIs
  <2>13. /\ SpanErrors(g, raw) = {d \in S : IsError(g.cells[d].value)}
         /\ SpanErrors(h, to) = {k \in T : IsError(h.cells[k].value)}
    BY DEF SpanErrors, S, T
  <2>14. CASE SpanErrors(g, raw) = {}
    <3>1. \A d \in S : ~ IsError(g.cells[d].value)
      BY <2>13, <2>14
    <3>2. SpanErrors(h, to) = {} /\ \A k \in T : ~ IsError(h.cells[k].value)
      BY <2>11, <2>13, <3>1
    <3>3. Total([k \in T |-> h.cells[k].value])
            = Total([d \in S |-> g.cells[d].value])
      BY <2>6, <2>7, <2>8, <3>1, <3>2, SumCarries
    <3> QED
      BY <2>12, <2>14, <3>2, <3>3 DEF ValueOfSum, S, T, to
  <2>15. CASE SpanErrors(g, raw) # {}
    <3> DEFINE d == FirstOf(SpanErrors(g, raw))
               k == FirstOf(SpanErrors(h, to))
    <3>1. /\ d \in S /\ IsError(g.cells[d].value)
          /\ \A x \in S : IsError(g.cells[x].value) => d <= x
      <4>1. SpanErrors(g, raw) \in SUBSET Axis
        BY <2>6, <2>13
      <4>2. d \in SpanErrors(g, raw) /\ \A x \in SpanErrors(g, raw) : d <= x
        BY <2>15, <4>1, FirstOfIs
      <4> HIDE DEF d
      <4> QED
        BY <2>13, <4>2
    <3> HIDE DEF d
    <3>2. ShiftIndex(d, e) \in SpanErrors(h, to)
      BY <2>8, <2>13, <3>1
    <3>3. /\ k \in T /\ IsError(h.cells[k].value)
          /\ k <= ShiftIndex(d, e)
      <4>1. SpanErrors(h, to) \in SUBSET Axis /\ SpanErrors(h, to) # {}
        BY <2>6, <2>13, <3>2
      <4>2. k \in SpanErrors(h, to) /\ \A x \in SpanErrors(h, to) : k <= x
        BY <4>1, FirstOfIs
      <4> HIDE DEF k
      <4> QED
        BY <2>13, <3>2, <4>2
    <3> HIDE DEF k
    <3>4. PICK x \in S : ShiftIndex(x, e) = k /\ IsError(g.cells[x].value)
      BY <2>11, <3>3
    <3>5. d <= x /\ d \in Axis /\ x \in Axis
      BY <2>6, <3>1, <3>4
    <3>6. ShiftIndex(d, e) # None /\ ShiftIndex(x, e) # None
      BY <2>7, <3>1, <3>4, <3>5 DEF Gone
    <3>7. d = x
      <4>1. d < x => ShiftIndex(d, e) < ShiftIndex(x, e)
        BY <3>5, <3>6, ShiftIndexOrdered
      <4>2. ShiftIndex(d, e) \in Axis /\ ShiftIndex(x, e) \in Axis
        BY <3>5, <3>6, ShiftIndexFree
      <4>3. ~ (d < x)
        BY <3>3, <3>4, <4>1, <4>2 DEF Axis
      <4> QED
        BY <3>5, <4>3 DEF Axis
    <3>8. h.cells[k].value = g.cells[d].value
      BY <2>8, <3>4, <3>7
    <3>9. SpanErrors(h, to) # {}
      BY <3>2
    <3> QED
      BY <2>12, <2>15, <3>8, <3>9 DEF ValueOfSum, d, k, to
  <2> QED
    BY <2>14, <2>15
<1>3. CASE raw.kind \notin {"ref", "sum"}
  <2>1. to = raw
    BY <1>3 DEF CarriedRaw, RewriteFormula
  <2> HIDE DEF to
  <2> QED
    BY <1>3, <2>1, RawIs, ValueIs DEF to
<1> QED
  BY <1>1, <1>2, <1>3

\* The cells that read nothing that is gone, however far.
Safe(g, e) ==
  {c \in Axis : Reached(Static(g), {c}) \cap Gone(e) = {}}

LEMMA SafeIs ==
  ASSUME NEW g \in Engines, NEW e, NEW c \in Safe(g, e)
  PROVE  c \in Axis \ Gone(e) /\ Static(g)[c] \subseteq Safe(g, e)
<1> DEFINE next == Static(g)
<1>1. c \in Axis /\ Reached(next, {c}) \cap Gone(e) = {} /\ next \in Nexts
  BY StaticIs DEF Safe
<1> HIDE DEF next
<1>2. /\ c \in Reached(next, {c}) /\ Reached(next, {c}) \in SUBSET Axis
      /\ Closed(next, Reached(next, {c}))
  BY <1>1, ReachedClosed
<1>3. ASSUME NEW d \in next[c] PROVE d \in Safe(g, e)
  <2>1. d \in Reached(next, {c}) /\ d \in Axis
    BY <1>1, <1>2 DEF Closed, Nexts
  <2>2. Reached(next, {d}) \subseteq Reached(next, {c})
    BY <1>1, <1>2, <2>1, ReachedLeast
  <2> QED
    BY <1>1, <2>1, <2>2 DEF Safe, next
<1> QED
  BY <1>1, <1>2, <1>3 DEF next

\* What the formulas refer to in the two engines.
LEMMA CarriedStatic ==
  ASSUME NEW g, NEW h, NEW e \in Edits, InBounds(e), Carried(g, h, e)
  PROVE  /\ g \in Engines /\ h \in Engines
         /\ Static(g) \in Nexts /\ Static(h) \in Nexts
         /\ \A c \in Axis \ Gone(e) :
              /\ ShiftIndex(c, e) \in Axis \ New(e)
              /\ \/ Static(h)[ShiftIndex(c, e)] \ New(e)
                      = Moved(Static(g)[c] \ Gone(e), e)
                 \/ /\ h.cells[ShiftIndex(c, e)].raw = RefErrorRaw
                    /\ Static(g)[c] \cap Gone(e) # {}
         /\ \A k \in New(e) : Static(h)[k] = {} /\ h.cells[k].value = Blank
<1>1. g \in Engines /\ h \in Engines /\ Parsed(h)
  BY ExactParsed DEF Carried, Right
<1>2. /\ Static(g) \in Nexts /\ Static(h) \in Nexts
      /\ \A c \in Axis : /\ Static(g)[c] = ReadsOf(g.cells[c].raw)
                         /\ Static(h)[c] = ReadsOf(h.cells[c].raw)
                         /\ g.cells[c].raw \in RawTexts
  BY <1>1, StaticIs, EngineIs DEF ReadsOf
<1>3. ASSUME NEW c \in Axis \ Gone(e)
      PROVE  /\ ShiftIndex(c, e) \in Axis \ New(e)
             /\ \/ Static(h)[ShiftIndex(c, e)] \ New(e)
                     = Moved(Static(g)[c] \ Gone(e), e)
                \/ /\ h.cells[ShiftIndex(c, e)].raw = RefErrorRaw
                   /\ Static(g)[c] \cap Gone(e) # {}
  <2>1. ShiftIndex(c, e) \in Axis \ New(e)
    BY ShiftIndexFree DEF Gone
  <2>2. h.cells[ShiftIndex(c, e)].raw = CarriedRaw(g.cells[c].raw, e)
    BY DEF Carried
  <2>3. /\ Static(g)[c] = ReadsOf(g.cells[c].raw)
        /\ Static(h)[ShiftIndex(c, e)] = ReadsOf(CarriedRaw(g.cells[c].raw, e))
        /\ g.cells[c].raw \in RawTexts
    BY <1>2, <2>1, <2>2
  <2> QED
    BY <2>1, <2>2, <2>3, CarriedReads
<1>4. ASSUME NEW k \in New(e)
      PROVE  Static(h)[k] = {} /\ h.cells[k].value = Blank
  <2>1. k \in Axis /\ h.cells[k].raw = Absent
    BY NewType DEF Carried
  <2>2. /\ ReadsOf(Absent) = {} /\ ~ IsFormula(Absent)
        /\ ParsedValue(Absent) = Blank
    BY PlainRaws DEF ReadsOf, ParsedValue, Absent, Raw
  <2> QED
    BY <1>1, <1>2, <2>1, <2>2 DEF Parsed
<1> QED
  BY <1>1, <1>2, <1>3, <1>4

\* A safe cell is on a cycle after e if it was on one before.
LEMMA CycleCarries ==
  ASSUME NEW g, NEW h, NEW e \in Edits, InBounds(e), Carried(g, h, e),
         NEW c \in Safe(g, e)
  PROVE  OnCycle(Static(h), ShiftIndex(c, e)) <=> OnCycle(Static(g), c)
<1> DEFINE was == Static(g)
           now == Static(h)
           S == Safe(g, e)
           to == ShiftIndex(c, e)
           From == Reached(was, was[c])
           To == Reached(now, now[to])
<1>1. /\ g \in Engines /\ h \in Engines /\ was \in Nexts /\ now \in Nexts
      /\ \A k \in New(e) : now[k] = {}
  BY CarriedStatic
<1>2. ASSUME NEW d \in S
      PROVE  /\ d \in Axis \ Gone(e) /\ was[d] \subseteq S
             /\ ShiftIndex(d, e) \in Axis \ New(e)
             /\ now[ShiftIndex(d, e)] \ New(e) = Moved(was[d], e)
  <2>1. d \in Axis \ Gone(e) /\ was[d] \subseteq S
    BY <1>1, SafeIs
  <2>2. was[d] \cap Gone(e) = {}
    BY <1>1, <2>1, SafeIs
  <2>3. was[d] \ Gone(e) = was[d]
    BY <2>2
  <2>4. /\ ShiftIndex(d, e) \in Axis \ New(e)
        /\ \/ now[ShiftIndex(d, e)] \ New(e) = Moved(was[d] \ Gone(e), e)
           \/ was[d] \cap Gone(e) # {}
    BY <2>1, CarriedStatic, SMTT(30)
  <2> HIDE DEF S, was, now
  <2> QED
    BY <2>1, <2>2, <2>3, <2>4
<1>3. S \in SUBSET Axis /\ c \in S
  BY DEF Safe
<1> HIDE DEF S, was, now
<1>4. was[c] \in SUBSET Axis /\ now[to] \in SUBSET Axis
  BY <1>1, <1>2, <1>3 DEF Nexts
<1>5. /\ From \in SUBSET Axis /\ was[c] \subseteq From /\ Closed(was, From)
      /\ To \in SUBSET Axis /\ now[to] \subseteq To /\ Closed(now, To)
  BY <1>1, <1>4, ReachedClosed
<1>6. From \subseteq S
  <2>1. Closed(was, S) /\ was[c] \subseteq S
    BY <1>2, <1>3 DEF Closed
  <2> QED
    BY <1>1, <1>4, <2>1, ReachedLeast
<1>7. To \subseteq Moved(From, e) \cup New(e)
  <2> DEFINE X == Moved(From, e) \cup New(e)
  <2>1. now[to] \subseteq X
    BY <1>2, <1>3, <1>5 DEF Moved
  <2>2. ASSUME NEW k \in X PROVE now[k] \subseteq X
    <3>1. CASE k \in New(e)
      BY <1>1, <3>1
    <3>2. CASE k \notin New(e)
      <4>1. PICK d \in From : ShiftIndex(d, e) = k
        BY <3>2 DEF Moved
      <4>2. was[d] \subseteq From /\ d \in S
        BY <1>5, <1>6, <4>1 DEF Closed
      <4>3. now[k] \ New(e) = Moved(was[d], e)
        BY <1>2, <4>1, <4>2
      <4>4. Moved(was[d], e) \subseteq Moved(From, e)
        BY <4>2 DEF Moved
      <4> QED
        BY <4>3, <4>4
    <3> QED
      BY <3>1, <3>2
  <2>3. Closed(now, X)
    <3> HIDE DEF X
    <3> QED
      BY <2>2 DEF Closed
  <2> QED
    BY <1>1, <1>4, <2>1, <2>3, ReachedLeast
<1>8. ASSUME to \in To PROVE c \in From
  <2>1. to \notin New(e)
    BY <1>2, <1>3
  <2>2. PICK d \in From : ShiftIndex(d, e) = to
    BY <1>7, <1>8, <2>1 DEF Moved
  <2>3. d \in Axis /\ c \in Axis /\ to # None
    BY <1>2, <1>3, <1>5, <2>2 DEF Gone
  <2>4. d = c
    BY <2>2, <2>3, ShiftIndexOne
  <2> QED
    BY <2>2, <2>4
<1>9. ASSUME c \in From PROVE to \in To
  <2> DEFINE Z == {d \in S : ShiftIndex(d, e) \in To}
  <2>1. was[c] \subseteq Z
    <3>1. Moved(was[c], e) \subseteq now[to]
      BY <1>2, <1>3
    <3> QED
      BY <1>2, <1>3, <1>5, <3>1 DEF Moved
  <2>2. ASSUME NEW d \in Z PROVE was[d] \subseteq Z
    <3>1. d \in S /\ ShiftIndex(d, e) \in To
      OBVIOUS
    <3>2. was[d] \subseteq S /\ Moved(was[d], e) \subseteq now[ShiftIndex(d, e)]
      BY <1>2, <3>1
    <3>3. now[ShiftIndex(d, e)] \subseteq To
      BY <1>5, <3>1 DEF Closed
    <3> QED
      BY <3>2, <3>3 DEF Moved
  <2>3. Closed(was, Z)
    <3> HIDE DEF Z
    <3> QED
      BY <2>2 DEF Closed
  <2>4. From \subseteq Z
    BY <1>1, <1>4, <2>1, <2>3, ReachedLeast
  <2> QED
    BY <1>9, <2>4
<1> QED
  BY <1>8, <1>9 DEF OnCycle, was, now

\* A safe cell shows after e what it showed before.
LEMMA ValuesCarry ==
  ASSUME NEW g, NEW h, NEW e \in Edits, InBounds(e), Carried(g, h, e)
  PROVE  \A c \in Safe(g, e) :
           h.cells[ShiftIndex(c, e)].value = g.cells[c].value
<1> DEFINE next == Static(g)
           S == Safe(g, e)
           R == {c \in S : h.cells[ShiftIndex(c, e)].value # g.cells[c].value}
<1>1. /\ g \in Engines /\ h \in Engines /\ next \in Nexts
      /\ \A k \in New(e) : h.cells[k].value = Blank
      /\ Direct(g) /\ Exact(g) /\ Exact(h)
  BY CarriedStatic DEF Carried, Right
<1>2. ASSUME NEW c \in S
      PROVE  /\ c \in Axis \ Gone(e) /\ ShiftIndex(c, e) \in Axis
             /\ next[c] \subseteq S /\ next[c] = ReadsOf(g.cells[c].raw)
             /\ g.cells[c].raw \in RawTexts /\ g.cells[c].raw.kind # "indirect"
             /\ h.cells[ShiftIndex(c, e)].raw = CarriedRaw(g.cells[c].raw, e)
  <2>1. c \in Axis \ Gone(e) /\ next[c] \subseteq S
    BY <1>1, SafeIs
  <2>2. ShiftIndex(c, e) \in Axis
    BY <2>1, CarriedStatic
  <2>3. next[c] = ReadsOf(g.cells[c].raw) /\ g.cells[c].raw \in RawTexts
    BY <1>1, <2>1, StaticIs, EngineIs DEF ReadsOf
  <2>4. g.cells[c].raw.kind # "indirect"
    BY <1>1, <2>1 DEF Direct
  <2>5. h.cells[ShiftIndex(c, e)].raw = CarriedRaw(g.cells[c].raw, e)
    BY <2>1 DEF Carried
  <2> QED
    BY <2>1, <2>2, <2>3, <2>4, <2>5
<1>3. ASSUME NEW c \in S
      PROVE OnCycle(Static(h), ShiftIndex(c, e)) <=> OnCycle(next, c)
  BY CycleCarries
<1>4. \A c \in S : /\ ExactAt(g, c) /\ ExactAt(h, ShiftIndex(c, e))
  BY <1>1, <1>2 DEF Exact
<1> HIDE DEF S, next
<1>5. \A c \in R : ~ OnCycle(next, c)
  BY <1>3, <1>4 DEF ExactAt, next
<1>6. ASSUME NEW c \in R PROVE next[c] \cap R # {}
  <2>1. c \in S /\ ~ OnCycle(next, c) /\ ~ OnCycle(Static(h), ShiftIndex(c, e))
    BY <1>3, <1>5
  <2>2. Value(h, CarriedRaw(g.cells[c].raw, e)) # Value(g, g.cells[c].raw)
    <3>1. g.cells[c].value = Value(g, g.cells[c].raw)
      BY <1>4, <2>1 DEF ExactAt, next
    <3>2. h.cells[ShiftIndex(c, e)].value
            = Value(h, CarriedRaw(g.cells[c].raw, e))
      BY <1>2, <1>4, <2>1 DEF ExactAt
    <3>3. h.cells[ShiftIndex(c, e)].value # g.cells[c].value
      OBVIOUS
    <3> QED
      BY <3>1, <3>2, <3>3
  <2>3. ReadsOf(g.cells[c].raw) \subseteq S /\ ReadsOf(g.cells[c].raw) = next[c]
    BY <1>2, <2>1
  <2>4. ReadsOf(g.cells[c].raw) \cap Gone(e) = {}
    BY <1>2, <2>3
  <2>5. ~ \A d \in ReadsOf(g.cells[c].raw) :
            h.cells[ShiftIndex(d, e)].value = g.cells[d].value
    BY <1>1, <1>2, <2>1, <2>2, <2>4, ValueCarries
  <2>6. PICK d \in ReadsOf(g.cells[c].raw) :
          h.cells[ShiftIndex(d, e)].value # g.cells[d].value
    BY <2>5
  <2>7. d \in R
    BY <2>3, <2>6
  <2> QED
    BY <2>3, <2>6, <2>7
<1>7. ASSUME R # {} PROVE FALSE
  <2>1. R \in SUBSET Axis
    BY <1>2
  <2> HIDE DEF R
  <2>2. \E c \in R : c \in Reached(next, next[c])
    BY <1>1, <1>6, <1>7, <2>1, CycleInside
  <2> QED
    BY <1>5, <2>2 DEF OnCycle
<1> QED
  BY <1>7 DEF S

\* What StructuralEditsCarry says of the engine before and after e.
CarriesOver(g, h, e) ==
  \A c \in Axis \ Gone(e) :
    /\ \/ Static(h)[ShiftIndex(c, e)] \ New(e)
            = {ShiftIndex(d, e) : d \in Static(g)[c] \ Gone(e)}
       \/ /\ h.cells[ShiftIndex(c, e)].raw = RefErrorRaw
          /\ Static(g)[c] \cap Gone(e) # {}
    /\ Reached(Static(g), {c}) \cap Gone(e) = {} =>
         h.cells[ShiftIndex(c, e)].value = g.cells[c].value

LEMMA CarriedCarries ==
  ASSUME NEW g, NEW h, NEW e \in Edits, InBounds(e), Carried(g, h, e)
  PROVE  CarriesOver(g, h, e)
<1>1. ASSUME NEW c \in Axis \ Gone(e)
      PROVE  \/ Static(h)[ShiftIndex(c, e)] \ New(e)
                  = {ShiftIndex(d, e) : d \in Static(g)[c] \ Gone(e)}
             \/ /\ h.cells[ShiftIndex(c, e)].raw = RefErrorRaw
                /\ Static(g)[c] \cap Gone(e) # {}
  BY CarriedStatic DEF Moved
<1>2. ASSUME NEW c \in Axis \ Gone(e), Reached(Static(g), {c}) \cap Gone(e) = {}
      PROVE  h.cells[ShiftIndex(c, e)].value = g.cells[c].value
  <2>1. c \in Safe(g, e)
    BY <1>2 DEF Safe
  <2> QED
    BY <2>1, ValuesCarry
<1> QED
  BY <1>1, <1>2 DEF CarriesOver

\* The sheet that apply_structural_edit makes is carried, once recalculated.
LEMMA ShiftedCarried ==
  ASSUME NEW g, Right(g), NEW e \in Edits, InBounds(e)
  PROVE  Carried(g, ReplaceSheet(g, Shifted(SheetOf(g), e)), e)
<1> DEFINE shifted == Shifted(SheetOf(g), e)
           h == ReplaceSheet(g, shifted)
<1>1. /\ g \in Engines /\ SheetOf(g) \in Sheets
      /\ Direct(SheetOf(g)) /\ Parsed(SheetOf(g))
  <2>1. g \in Engines /\ Direct(g) /\ Parsed(g)
    BY ExactParsed DEF Right
  <2>2. SheetOf(g).cells = g.cells
    BY DEF SheetOf
  <2> QED
    BY <2>1, <2>2, SheetOfType DEF Direct, Parsed
<1>2. shifted \in Sheets /\ Direct(shifted) /\ Parsed(shifted)
  BY <1>1, ShiftedType, ShiftedDirect
<1>3. \A i \in Axis :
        shifted.cells[i] = IF ShiftedFrom(i, e) = None THEN NoCell
                           ELSE ShiftCell(g.cells[ShiftedFrom(i, e)], e)
  BY DEF Shifted, SheetOf
<1> HIDE DEF shifted
<1>4. Right(h) /\ \A i \in Axis : h.cells[i].raw = shifted.cells[i].raw
  BY <1>2, ReplaceSheetRight
<1> HIDE DEF h
<1>5. ASSUME NEW c \in Axis \ Gone(e)
      PROVE  h.cells[ShiftIndex(c, e)].raw = CarriedRaw(g.cells[c].raw, e)
  <2>1. ShiftIndex(c, e) # None /\ c # None
    BY DEF Gone, Axis, None
  <2>2. ShiftIndex(c, e) \in Axis /\ ShiftedFrom(ShiftIndex(c, e), e) = c
    BY <2>1, ShiftIndexFree, ShiftedFromBack
  <2>3. h.cells[ShiftIndex(c, e)].raw = ShiftCell(g.cells[c], e).raw
    BY <1>3, <1>4, <2>1, <2>2
  <2> QED
    BY <2>3 DEF ShiftCell, CarriedRaw, ParseCell
<1>6. ASSUME NEW k \in New(e) PROVE h.cells[k].raw = Absent
  <2>1. k \in Axis /\ k # None
    BY NewType DEF Axis, None
  <2>2. \A d \in Axis : ShiftIndex(d, e) # k
    BY <2>1, ShiftIndexFree
  <2>3. ShiftedFrom(k, e) = None
    BY <2>1, <2>2, ShiftedFromIs
  <2> QED
    BY <1>3, <1>4, <2>1, <2>3 DEF NoCell, ParseCell
<1>7. Carried(g, h, e)
  BY <1>4, <1>5, <1>6 DEF Carried
<1> QED
  BY <1>7 DEF h, shifted

\* The structural edit that the last entry of a history belongs to, if any.
LastEdit(entries) ==
  IF Last(entries).op = "sheet" THEN Last(entries).label ELSE NoEdit

LEMMA ExecLast ==
  ASSUME IInv, NEW kind, NEW after, NEW inverse \in Entries,
         Exec(kind, after, inverse)
  PROVE  engine' = after /\ Last(undo') = inverse
<1>1. undo \in Seq(Entries) /\ undo' = Append(undo, inverse) /\ engine' = after
  BY DEF IInv, TypeOK, Exec
<1>2. /\ Len(undo') = Len(undo) + 1 /\ undo'[Len(undo) + 1] = inverse
  BY <1>1, AppendProperties
<1> QED
  BY <1>1, <1>2 DEF Last

LEMMA StepCarries ==
  ASSUME IInv, ValueInv, [Next]_vars, budget' # budget, undo' # <<>>,
         LastEdit(undo') # NoEdit
  PROVE  CarriesOver(engine, engine', LastEdit(undo'))
<1>0. engine \in Engines /\ Right(engine)
  BY DEF IInv, TypeOK, ValueInv
<1>1. ASSUME NEW c \in Axis, NEW raw \in Raws, SetCellCommand(c, raw)
      PROVE  FALSE
  <2>1. SetEntry(c, PriorRaw(engine, c)) \in Entries
    BY <1>0, PriorRawIs DEF Entries
  <2>2. Last(undo') = SetEntry(c, PriorRaw(engine, c))
    BY <1>1, <2>1, ExecLast DEF SetCellCommand
  <2> QED
    BY <2>2 DEF LastEdit, SetEntry
<1>2. ASSUME NEW lo \in Axis, NEW hi \in Axis, NEW format \in {0, 1},
             SetFormatCommand(lo, hi, format)
      PROVE  FALSE
  <2> DEFINE S == lo .. hi
             before == [c \in S |-> engine.cells[c]]
             snapshot == [c \in S |-> Formatted(engine.cells[c], format)]
             inverse == RestoreEntry("cells", NoEdit, before, snapshot)
  <2>1. Exec("format", RestoreCells(engine, snapshot), inverse)
    BY <1>2 DEF SetFormatCommand
  <2>2. S \in SUBSET Axis
    BY LimitAssumption DEF Axis
  <2> HIDE DEF S
  <2>3. before \in [S -> Cells] /\ snapshot \in [S -> Cells]
    <3>1. format \in Nat
      OBVIOUS
    <3> QED
      BY <1>0, <2>2, <3>1, EngineIs, FormattedIs
  <2> HIDE DEF before, snapshot
  <2>4. before \in Snapshots /\ snapshot \in Snapshots
    BY <2>2, <2>3 DEF Snapshots
  <2>5. inverse \in Entries /\ inverse.op = "cells"
    BY <2>4 DEF Entries, Labels, RestoreEntry
  <2> HIDE DEF inverse
  <2>6. Last(undo') = inverse
    BY <2>1, <2>5, ExecLast
  <2> QED
    BY <2>5, <2>6 DEF LastEdit
<1>3. ASSUME NEW i \in Axis, NEW size \in {0, 1}, ResizeCommand(i, size)
      PROVE  FALSE
  <2> DEFINE before == [j \in {i} |-> engine.sizes[i]]
             snapshot == [j \in {i} |-> size]
             inverse == RestoreEntry("size", NoEdit, before, snapshot)
  <2>1. Exec("resize", RestoreSizes(engine, snapshot), inverse)
    BY <1>3 DEF ResizeCommand
  <2>2. before \in [{i} -> Nat] /\ snapshot \in [{i} -> Nat]
    BY <1>0, EngineIs
  <2> HIDE DEF before, snapshot
  <2>3. before \in SizeSnapshots /\ snapshot \in SizeSnapshots
    BY <2>2 DEF SizeSnapshots
  <2>4. inverse \in Entries /\ inverse.op = "size"
    BY <2>3 DEF Entries, Labels, RestoreEntry
  <2> HIDE DEF inverse
  <2>5. Last(undo') = inverse
    BY <2>1, <2>4, ExecLast
  <2> QED
    BY <2>4, <2>5 DEF LastEdit
<1>4. ASSUME NEW e \in Edits, StructuralEditCommand(e)
      PROVE  CarriesOver(engine, engine', LastEdit(undo'))
  <2> DEFINE after == ReplaceSheet(engine, Shifted(SheetOf(engine), e))
             inverse == RestoreEntry("sheet", e, SheetOf(engine),
                                     SheetOf(after))
  <2>1. InBounds(e) /\ Exec("edit", after, inverse)
    BY <1>4 DEF StructuralEditCommand
  <2>2. Carried(engine, after, e)
    BY <1>0, <2>1, ShiftedCarried
  <2> HIDE DEF after
  <2>3. SheetOf(engine) \in Sheets /\ SheetOf(after) \in Sheets
    BY <1>0, <2>2, SheetOfType DEF Carried, Right
  <2>4. inverse \in Entries /\ inverse.op = "sheet" /\ inverse.label = e
    BY <2>3 DEF Entries, Labels, RestoreEntry
  <2> HIDE DEF inverse
  <2>5. engine' = after /\ Last(undo') = inverse
    BY <2>1, <2>4, ExecLast
  <2>6. LastEdit(undo') = e
    BY <2>4, <2>5 DEF LastEdit
  <2> QED
    BY <2>1, <2>2, <2>5, <2>6, CarriedCarries
<1>5. ~ Undo /\ ~ Redo /\ ~ Reopen /\ ~ NewWorkbook /\ ~ UNCHANGED vars
  BY DEF Undo, Redo, Reopen, NewWorkbook, StartOver, vars
<1> QED
  BY <1>1, <1>2, <1>3, <1>4, <1>5 DEF Next

\* Insertions and deletions carry formulas and values along, in grids of any
\* size: references and ranges follow the cells they name, and a cell that reads
\* nothing that is gone keeps its value, on a cycle or not.
THEOREM EditsCarry ==
  ASSUME NoIndirect
  PROVE  Spec => StructuralEditsCarry
<1> DEFINE A ==
      budget' # budget /\ undo' # <<>> =>
       LET e == IF Last(undo').op = "sheet" THEN Last(undo').label ELSE NoEdit
           gone == {c \in Axis : ShiftIndex(c, e) = None}
           new == IF e.kind = "insert" THEN e.at .. DeleteEnd(e) ELSE {}
           was(c) == engine.cells[c]
           now(c) == engine'.cells[ShiftIndex(c, e)]
           reads == Static(engine)
           readsNow == Static(engine')
       IN  e # NoEdit =>
             \A c \in Axis \ gone :
               /\ \/ readsNow[ShiftIndex(c, e)] \ new
                       = {ShiftIndex(d, e) : d \in reads[c] \ gone}
                  \/ now(c).raw = RefErrorRaw /\ reads[c] \cap gone # {}
               /\ Reached(reads, {c}) \cap gone = {} =>
                    now(c).value = was(c).value
<1>1. ASSUME IInv, ValueInv, [Next]_vars
      PROVE  A
  BY <1>1, StepCarries DEF CarriesOver, LastEdit, Gone, New
<1>2. IInv /\ ValueInv /\ [Next]_vars => [A]_vars
  BY <1>1
<1> QED
  BY <1>2, InvHolds, ValueInvHolds, PTL DEF Spec, StructuralEditsCarry

==============================================================================
