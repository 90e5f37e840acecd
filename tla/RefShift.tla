------------------------------ MODULE RefShift ------------------------------
(***************************************************************************)
(* Where positions and references go when rows or columns are inserted or  *)
(* deleted (xlite-core/src/history/structural.rs and refshift.rs), along   *)
(* one axis of the grid: positions 1 .. Limit, None for no position.       *)
(***************************************************************************)
EXTENDS Integers

CONSTANT Limit   \* axis_limit: rows or columns of the grid

ASSUME LimitAssumption == Limit \in Nat \ {0}

Axis == 1 .. Limit
None == 0
Edits == [kind : {"insert", "delete"}, at : Axis, count : Axis]

\* validate_static
InBounds(e) == e.at + e.count - 1 <= Limit

DeleteEnd(e) == e.at + e.count - 1

\* checked_axis_add
CheckedAdd(i, n) == IF i + n <= Limit THEN i + n ELSE None

\* shift_index, for cells and sizes; rewrite_single_axis, for references, is
\* the same function.
ShiftIndex(i, e) ==
  IF i < e.at THEN i
  ELSE IF e.kind = "insert" THEN CheckedAdd(i, e.count)
  ELSE IF i <= DeleteEnd(e) THEN None
  ELSE i - e.count

Span(lo, hi) == [lo |-> lo, hi |-> hi]
NoSpan == Span(None, None)

SpanInsert(lo, hi, e) ==
  LET newHi == CheckedAdd(hi, e.count)
  IN  IF hi < e.at THEN Span(lo, hi)
      ELSE IF newHi = None THEN NoSpan
      ELSE Span(IF e.at <= lo THEN lo + e.count ELSE lo, newHi)

\* Faulty variant: counts one deleted position too few.
SpanDeleteLong(lo, hi, e) ==
  LET first == IF e.at > lo THEN e.at ELSE lo
      last == IF DeleteEnd(e) < hi THEN DeleteEnd(e) ELSE hi
      remaining == hi - lo + 1 - (last - first)
      newLo == IF lo < e.at THEN lo ELSE e.at
  IN  IF DeleteEnd(e) < lo THEN Span(lo - e.count, hi - e.count)
      ELSE IF e.at > hi THEN Span(lo, hi)
      ELSE IF remaining = 0 THEN NoSpan
      ELSE Span(newLo, newLo + remaining - 1)

SpanDelete(lo, hi, e) ==
  LET first == IF e.at > lo THEN e.at ELSE lo
      last == IF DeleteEnd(e) < hi THEN DeleteEnd(e) ELSE hi
      remaining == hi - lo + 1 - (last - first + 1)
      newLo == IF lo < e.at THEN lo ELSE e.at
  IN  IF DeleteEnd(e) < lo THEN Span(lo - e.count, hi - e.count)
      ELSE IF e.at > hi THEN Span(lo, hi)
      ELSE IF remaining = 0 THEN NoSpan
      ELSE Span(newLo, newLo + remaining - 1)

\* rewrite_range_axis
RewriteSpan(lo, hi, e) ==
  IF e.kind = "insert" THEN SpanInsert(lo, hi, e) ELSE SpanDelete(lo, hi, e)
=============================================================================
