------------------------------ MODULE Lookups ------------------------------
(***************************************************************************)
(* MATCH, VLOOKUP, HLOOKUP, LOOKUP, INDEX and CHOOSE                       *)
(* (xlite-core/src/functions/lookup).  A table is a sequence of rows.      *)
(***************************************************************************)
EXTENDS CellValues

CONSTANT LowerCase  \* char::to_lowercase: what a character is folded to

\* In ASCII it folds the letters; elsewhere one character may become several, or
\* become ASCII.
ASSUME LowerCaseFolds ==
  /\ LowerCase \in [Characters -> Seq(Characters)]
  /\ \A c \in 0 .. 127 : LowerCase[c] = <<LowerAscii(c)>>

NA == Error("#N/A")
BadValue == Error("#VALUE!")
BadRef == Error("#REF!")

Rows(table) == Len(table)
Columns(table) == Len(table[1])
Column(table, c) == [r \in DOMAIN table |-> table[r][c]]
Transposed(table) ==
  [c \in 1 .. Columns(table) |-> [r \in 1 .. Rows(table) |-> table[r][c]]]

\* A table's cells in the order a range is read.
Cells(table) == FlattenSeq(table)

\* What is looked up is never shown as blank.
Shown(v) == IF Is("blank", v) THEN Number(0) ELSE v

------------------------------------------------------------------------------
(* Keys.                                                                   *)

SameKind(a, b) == DOMAIN a = DOMAIN b

\* lower_char of each character, and lower_text.
Folded(s) == [i \in DOMAIN s |-> LowerCase[s[i]]]
LowerText(s) == FlattenSeq(Folded(s))

\* MATCH, HLOOKUP and LOOKUP fold all of Unicode, VLOOKUP only ASCII.
FoldedAs(folding, s) ==
  CASE folding = "unicode" -> LowerText(s) [] folding = "ascii" -> Lower(s)

\* compare_same_type and compare_lookup_key: keys of other kinds are not compared.
KeyOrder(folding, key, v) ==
  CASE Is("blank", v) -> 0
    [] Is("text", v) ->
         TextOrder(FoldedAs(folding, key.text), FoldedAs(folding, v.text))
    [] OTHER -> SameKindOrder(key, v)

\* A pattern of MATCH and HLOOKUP: ~ takes the meaning of a wildcard away.
\* The state is the tokens so far and whether a ~ is open.
Tokens(pattern) ==
  LET step(done, c) ==
        CASE done.open /\ c \in {Question, Star, Tilde} ->
               [tokens |-> Append(done.tokens, LowerCase[c]), open |-> FALSE]
          [] done.open /\ c \notin {Question, Star, Tilde} ->
               [tokens |-> done.tokens \o <<LowerCase[Tilde], LowerCase[c]>>,
                open |-> FALSE]
          [] ~done.open /\ c = Tilde -> [done EXCEPT !.open = TRUE]
          [] ~done.open /\ c = Question ->
               [done EXCEPT !.tokens = Append(@, AnyChar)]
          [] ~done.open /\ c = Star ->
               [done EXCEPT !.tokens = Append(@, AnyChars)]
          [] OTHER -> [done EXCEPT !.tokens = Append(@, LowerCase[c])]
      end == FoldLeft(step, [tokens |-> <<>>, open |-> FALSE], pattern)
  IN  IF end.open THEN Append(end.tokens, LowerCase[Tilde]) ELSE end.tokens

PatternMatch(pattern, s) == TokensMatch(Tokens(pattern), Folded(s))

\* exact_matches of MATCH and HLOOKUP.
MatchesKey(v, key) ==
  /\ SameKind(v, key)
  /\ IF Is("text", v) THEN PatternMatch(v.text, key.text) ELSE v = key

\* exact_matches of VLOOKUP, which knows no wildcards and folds only ASCII.
EqualsKey(v, key) ==
  /\ SameKind(v, key)
  /\ IF Is("text", v) THEN Lower(v.text) = Lower(key.text) ELSE v = key

------------------------------------------------------------------------------
(* The searches.  A position is 0 when there is none.                      *)

ExactPosition(v, keys) == SelectInSeq(keys, LAMBDA key : MatchesKey(v, key))
ExactRow(v, keys) == SelectInSeq(keys, LAMBDA key : EqualsKey(v, key))
ExactColumn(v, keys) == SelectInSeq(keys, LAMBDA key : MatchesKey(v, key))

\* Faulty variant: the search stops at a key that equals the value.
SearchStopsAtEqual(folding, v, keys, past) ==
  LET alike == {i \in DOMAIN keys : SameKind(keys[i], v)}
      beyond == {i \in alike : KeyOrder(folding, keys[i], v) \in {0, past}}
      before == {i \in alike : \A j \in beyond : i < j}
  IN  IF before = {} THEN 0 ELSE Max(before)

\* The last key before the first that lies beyond the value; keys of other
\* kinds are passed over.
Search(folding, v, keys, past) ==
  LET alike == {i \in DOMAIN keys : SameKind(keys[i], v)}
      beyond == {i \in alike : KeyOrder(folding, keys[i], v) = past}
      before == {i \in alike : \A j \in beyond : i < j}
  IN  IF before = {} THEN 0 ELSE Max(before)

\* Each function has a search of its own.
MatchPosition(v, keys, ascending) ==
  Search("unicode", v, keys, IF ascending THEN 1 ELSE -1)
LookupPosition(v, keys) == Search("unicode", v, keys, 1)
ApproximateRow(v, keys) == Search("ascii", v, keys, 1)
ApproximateColumn(v, keys) == Search("unicode", v, keys, 1)

------------------------------------------------------------------------------
(* The functions.                                                          *)

MATCH(v, keys, type) ==
  LET position == CASE type = 0 -> ExactPosition(v, keys)
                    [] type = 1 -> MatchPosition(v, keys, TRUE)
                    [] type = -1 -> MatchPosition(v, keys, FALSE)
                    [] OTHER -> 0
      result == IF type \notin -1 .. 1 THEN BadValue
                ELSE IF position = 0 THEN NA ELSE Number(position)
  IN  Propagated(<<v>> \o keys, result)

\* return_column_index and return_row_index.
Chosen(index, size, result) ==
  IF index < 1 THEN BadValue ELSE IF index > size THEN BadRef ELSE result

VLOOKUP(v, table, index, approximate) ==
  LET keys == Column(table, 1)
      row == IF approximate THEN ApproximateRow(v, keys) ELSE ExactRow(v, keys)
  IN  Propagated(<<v>> \o Cells(table),
        Chosen(index, Columns(table),
               IF row = 0 THEN NA ELSE Shown(table[row][index])))

HLOOKUP(v, table, index, approximate) ==
  LET keys == table[1]
      column == IF approximate THEN ApproximateColumn(v, keys)
                ELSE ExactColumn(v, keys)
  IN  Propagated(<<v>> \o Cells(table),
        Chosen(index, Rows(table),
               IF column = 0 THEN NA ELSE Shown(table[index][column])))

\* LOOKUP with a vector of results.
LOOKUP(v, keys, results) ==
  LET position == LookupPosition(v, keys)
  IN  Propagated(<<v>> \o keys \o results,
        IF Len(keys) # Len(results) THEN BadValue
        ELSE IF position = 0 THEN NA ELSE Shown(results[position]))

\* LOOKUP in a table: along its longer side, the answer from the far end.
LookupInTable(v, table) ==
  IF Rows(table) = 1 THEN LOOKUP(v, table[1], table[1])
  ELSE IF Columns(table) = 1
  THEN LOOKUP(v, Column(table, 1), Column(table, 1))
  ELSE IF Columns(table) > Rows(table)
  THEN Propagated(Cells(table), LOOKUP(v, table[1], table[Rows(table)]))
  ELSE Propagated(Cells(table),
         LOOKUP(v, Column(table, 1), Column(table, Columns(table))))

\* one_based_offset
Offset(index, size, result) ==
  IF index = 0 THEN BadValue
  ELSE IF index \notin 1 .. size THEN BadRef ELSE result

INDEX(table, row, column) ==
  Propagated(Cells(table),
    IF row \notin 1 .. Rows(table) THEN Offset(row, Rows(table), Blank)
    ELSE Offset(column, Columns(table), table[row][column]))

\* Without a column the index counts along a table of one row or column.
IndexInVector(table, index) ==
  Propagated(Cells(table),
    IF Columns(table) = 1 THEN Offset(index, Rows(table), table[index][1])
    ELSE IF Rows(table) = 1
    THEN Offset(index, Columns(table), table[1][index])
    ELSE Offset(index, Rows(table), BadValue))

\* CHOOSE looks at its index only: errors not chosen do not matter.
CHOOSEValue(index, values) ==
  LET n == ToNumber(index)
  IN  IF Is("error", n) THEN n
      ELSE IF n.number \notin DOMAIN values THEN BadValue ELSE values[n.number]
=============================================================================
