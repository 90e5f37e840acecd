---------------------------- MODULE Conditionals ----------------------------
(***************************************************************************)
(* COUNTIF, SUMIF, AVERAGEIF and their like with several criteria, MAXIFS  *)
(* and MINIFS (xlite-core/src/functions/stats and math).  A range is a     *)
(* sequence of cells; a pair is a range and the criteria for it.           *)
(***************************************************************************)
EXTENDS Lookups

DivZero == Error("#DIV/0!")

Pair(range, criteria) == [range |-> range, criteria |-> criteria]

\* The cells one criterion selects: the loop of COUNTIF, SUMIF and AVERAGEIF.
Matching(range, criteria) ==
  {i \in DOMAIN range : MatchesCriteria(range[i], criteria)}

\* The cells all pairs agree on: the loop of the functions of several criteria.
Selected(pairs) ==
  {i \in DOMAIN pairs[1].range :
     \A k \in DOMAIN pairs :
       MatchesCriteria(pairs[k].range[i], pairs[k].criteria)}

Arguments(pairs) ==
  FlattenSeq([k \in DOMAIN pairs |->
                Append(pairs[k].range, pairs[k].criteria)])

\* The functions of several criteria want ranges of one shape.
Alike(range, pairs, result) ==
  Propagated(range \o Arguments(pairs),
    IF \E k \in DOMAIN pairs : Len(pairs[k].range) # Len(range)
    THEN BadValue ELSE result)

COUNTIF(range, criteria) ==
  Propagated(Append(range, criteria),
             Number(Cardinality(Matching(range, criteria))))

COUNTIFS(pairs) ==
  Alike(pairs[1].range, pairs, Number(Cardinality(Selected(pairs))))

------------------------------------------------------------------------------
(* Sums.  TRUE counts as one, text and blanks as nothing.                  *)

SumNumber(v) ==
  CASE Is("number", v) -> v.number
    [] Is("boolean", v) -> IF v.boolean THEN 1 ELSE 0
    [] OTHER -> 0

Total(range, chosen) == MapThenSumSet(LAMBDA i : SumNumber(range[i]), chosen)

\* The sum range is read cell by cell beside the criteria range.
SUMIF(range, criteria, sums) ==
  LET chosen == Matching(range, criteria)
  IN  Propagated(range \o <<criteria>> \o sums,
        IF chosen \subseteq DOMAIN sums THEN Number(Total(sums, chosen))
        ELSE BadRef)

SUMIFS(sums, pairs) == Alike(sums, pairs, Number(Total(sums, Selected(pairs))))

------------------------------------------------------------------------------
(* Averages, as a total and a count.                                       *)

Average(total, count) ==
  IF count = 0 THEN DivZero ELSE [total |-> total, count |-> count]

\* AVERAGEIF passes booleans over; AVERAGEIFS counts them as one and zero.
NumbersIn(range, chosen) == {i \in chosen : Is("number", range[i])}
NumbersOrBooleansIn(range, chosen) ==
  {i \in chosen : Is("number", range[i]) \/ Is("boolean", range[i])}

AVERAGEIF(range, criteria, averaged) ==
  LET chosen == Matching(range, criteria)
      numbers == NumbersIn(averaged, chosen)
  IN  Propagated(range \o <<criteria>> \o averaged,
        IF chosen \subseteq DOMAIN averaged
        THEN Average(Total(averaged, numbers), Cardinality(numbers))
        ELSE BadRef)

AVERAGEIFS(averaged, pairs) ==
  LET numbers == NumbersOrBooleansIn(averaged, Selected(pairs))
  IN  Alike(averaged, pairs,
            Average(Total(averaged, numbers), Cardinality(numbers)))

------------------------------------------------------------------------------
(* The largest and the smallest number, zero when there is none.           *)

NumbersOf(range, chosen) == {range[i].number : i \in NumbersIn(range, chosen)}

MAXIFS(range, pairs) ==
  LET numbers == NumbersOf(range, Selected(pairs))
  IN  Alike(range, pairs, Number(IF numbers = {} THEN 0 ELSE Max(numbers)))

MINIFS(range, pairs) ==
  LET numbers == NumbersOf(range, Selected(pairs))
  IN  Alike(range, pairs, Number(IF numbers = {} THEN 0 ELSE Min(numbers)))
=============================================================================
