----------------------------- MODULE SheetFunctions -----------------------------
(***************************************************************************)
(* A sheet of records, or one of dates, and what the functions of          *)
(* excel-lite make of it.  Cells are typed one by one, in any order; every *)
(* function is worth what its cells say at that moment (the evaluation     *)
(* itself is Sheet).                                                       *)
(***************************************************************************)
EXTENDS Conditionals, Calendar

CONSTANTS
  Sheets,      \* the sheets a run looks at: "records", "dates"
  MaxRows,     \* bound: the records
  Keys,        \* what is typed into the first column of the records
  AmountLists, \* what the second column of the workbook holds
  Wanted,      \* the values looked up
  Operands,    \* what criteria compare with, without wildcards
  Patterns,    \* and with
  Starts,      \* the serials typed as a start
  Counts,      \* the months and days counted from there
  DaysOff      \* the sets of holidays

\* More rows than columns, so LOOKUP takes the table by its rows.
ASSUME RecordsAreRows == MaxRows \in Nat /\ MaxRows > 2

\* What is typed and looked up are values; no function is asked for an error.
ASSUME CellsAreValues ==
  /\ Keys \subseteq Values
  /\ AmountLists \subseteq [1 .. MaxRows -> Values]
  /\ \A v \in Wanted : v \in Values /\ ~Is("error", v)

\* What f64's parser reads, a sign, digits, a fraction, an exponent, inf, infinity
\* and nan, is written with these and nothing else.
FloatCharacters ==
  Digits \cup {43, 45, 46}
    \cup UNION {{c, c - 32} : c \in {97, 101, 102, 105, 110, 116, 121}}

\* Operands are texts that take nothing from the operator before them, and those
\* that are read as numbers are integers: neither fractions nor "nan", which is
\* neither below nor above anything.
ASSUME OperandsAreTexts ==
  /\ Operands \cup Patterns \subseteq Seq(Characters)
  /\ \A s \in Operands :
       /\ ~UsesWildcards(s)
       /\ \/ Trim(s) = <<>>
          \/ Is("number", Parse(s))
          \/ \E i \in DOMAIN Trim(s) : Trim(s)[i] \notin FloatCharacters
  /\ \A s \in Operands \cup Patterns :
       s = <<>> \/ Head(s) \notin {Codes["="][1], Codes[">"][1]}

VARIABLES
  sheet,     \* the sheet that is open
  records,   \* rows of a key and an amount
  dates      \* the start, the count and the holidays

vars == <<sheet, records, dates>>

\* A workbook is opened.
Init ==
  /\ sheet \in Sheets
  /\ \E amounts \in IF sheet = "records" THEN AmountLists ELSE {<<>>} :
       records = [r \in DOMAIN amounts |-> <<Blank, amounts[r]>>]
  /\ dates = [start |-> 1, count |-> 0, holidays |-> {}]

\* set_value on a cell of the open sheet.
TypeKey(row, v) ==
  /\ sheet = "records"
  /\ records' = [records EXCEPT ![row][1] = v]
  /\ UNCHANGED <<sheet, dates>>

TypeStart(serial) ==
  /\ sheet = "dates"
  /\ dates' = [dates EXCEPT !.start = serial]
  /\ UNCHANGED <<sheet, records>>

TypeCount(n) ==
  /\ sheet = "dates"
  /\ dates' = [dates EXCEPT !.count = n]
  /\ UNCHANGED <<sheet, records>>

TypeHolidays(off) ==
  /\ sheet = "dates"
  /\ dates' = [dates EXCEPT !.holidays = off]
  /\ UNCHANGED <<sheet, records>>

Next ==
  \/ \E row \in 1 .. MaxRows, v \in Keys : TypeKey(row, v)
  \/ \E serial \in Starts : TypeStart(serial)
  \/ \E n \in Counts : TypeCount(n)
  \/ \E off \in DaysOff : TypeHolidays(off)

Spec == Init /\ [][Next]_vars

------------------------------------------------------------------------------
(* What lookups should find.                                               *)

KeyColumn == Column(records, 1)
AmountColumn == Column(records, 2)
Across == Transposed(records)
Broken == {c \in DOMAIN Cells(records) : Is("error", Cells(records)[c])}

\* A pattern matches if the text can be cut into pieces, one per token.  Texts are
\* compared character by character, each folded for itself.
CutsInto(tokens, s) ==
  \E cut \in [0 .. Len(tokens) -> 0 .. Len(s)] :
    /\ cut[0] = 0 /\ cut[Len(tokens)] = Len(s)
    /\ \A i \in DOMAIN tokens :
         IF tokens[i] = AnyChars THEN cut[i] >= cut[i - 1]
         ELSE /\ cut[i] = cut[i - 1] + 1
              /\ tokens[i] \in {AnyChar, s[cut[i]]}

Equal(v, key) ==
  /\ SameKind(v, key)
  /\ IF Is("text", v) THEN CutsInto(Tokens(v.text), Folded(key.text)) ELSE v = key

\* The case of a letter is one bit of its code, in ASCII.
SameLetter(a, b) ==
  a = b \/ (a \in 65 .. 90 /\ b = a + 32) \/ (b \in 65 .. 90 /\ a = b + 32)

EqualInAscii(v, key) ==
  /\ SameKind(v, key)
  /\ IF Is("text", v)
     THEN /\ Len(v.text) = Len(key.text)
          /\ \A i \in DOMAIN v.text : SameLetter(v.text[i], key.text[i])
     ELSE v = key

AtMost(folding, a, b) == SameKind(a, b) /\ KeyOrder(folding, a, b) # 1

Ordered(folding, v, keys) ==
  \A i, j \in {k \in DOMAIN keys : SameKind(keys[k], v)} :
    i < j => AtMost(folding, keys[i], keys[j])

Lowest(S) == {i \in S : \A j \in S : i <= j}
Highest(S) == {i \in S : \A j \in S : j <= i}

Position(found) == IF found = {} THEN NA ELSE Number(CHOOSE i \in found : TRUE)
AmountAt(found) ==
  IF found = {} THEN NA ELSE Shown(AmountColumn[CHOOSE i \in found : TRUE])

HasWildcards(v) ==
  Is("text", v) /\ \E i \in DOMAIN v.text : v.text[i] \in {Star, Question, Tilde}

IsAscii(v) ==
  Is("text", v) => \A i \in DOMAIN v.text : v.text[i] \in 0 .. 127

AllAscii(v) == IsAscii(v) /\ \A i \in DOMAIN KeyColumn : IsAscii(KeyColumn[i])

\* Lookups by equality find the first equal key.  VLOOKUP takes no wildcards and
\* misses a key that differs in the case of a letter beyond ASCII, so it finds
\* nothing that MATCH does not find.
FindsFirst(v) ==
  LET equal == {i \in DOMAIN KeyColumn : Equal(v, KeyColumn[i])}
      same == {i \in DOMAIN KeyColumn : EqualInAscii(v, KeyColumn[i])}
  IN  /\ MATCH(v, KeyColumn, 0) = Position(Lowest(equal))
      /\ HLOOKUP(v, Across, 2, FALSE) = AmountAt(Lowest(equal))
      /\ VLOOKUP(v, records, 2, FALSE) = AmountAt(Lowest(same))
      /\ ~HasWildcards(v) => same \subseteq equal

\* Lookups by order, among keys ordered as they fold them, find the last that is
\* not beyond.
FindsLast(v) ==
  LET found == Highest({i \in DOMAIN KeyColumn : AtMost("unicode", KeyColumn[i], v)})
      back == Reverse(KeyColumn)
      above == Highest({i \in DOMAIN back : AtMost("unicode", v, back[i])})
  IN  /\ MATCH(v, KeyColumn, 1) = Position(found)
      /\ MATCH(v, back, -1) = Position(above)
      /\ HLOOKUP(v, Across, 2, TRUE) = AmountAt(found)
      /\ LOOKUP(v, KeyColumn, AmountColumn) = AmountAt(found)
      /\ LookupInTable(v, records) = AmountAt(found)
      /\ LookupInTable(v, Across) = AmountAt(found)

FindsLastRow(v) ==
  VLOOKUP(v, records, 2, TRUE)
    = AmountAt(Highest({i \in DOMAIN KeyColumn : AtMost("ascii", KeyColumn[i], v)}))

\* In ASCII VLOOKUP down the rows is HLOOKUP across the columns, in keys of any
\* order.
SameInAscii(v) ==
  AllAscii(v) =>
    /\ VLOOKUP(v, records, 2, TRUE) = HLOOKUP(v, Across, 2, TRUE)
    /\ ~HasWildcards(v) =>
         VLOOKUP(v, records, 2, FALSE) = HLOOKUP(v, Across, 2, FALSE)

\* INDEX and CHOOSE of what MATCH finds are what HLOOKUP shows, in keys of any
\* order.
IndexOfMatch(v) ==
  LET position == MATCH(v, KeyColumn, 1)
      found == INDEX(records, position.number, 2)
  IN  Is("number", position) =>
        /\ Shown(found) = HLOOKUP(v, Across, 2, TRUE)
        /\ found = CHOOSEValue(position, AmountColumn)
        /\ found = IndexInVector(<<AmountColumn>>, position.number)
        /\ found = IndexInVector(Transposed(<<AmountColumn>>), position.number)

\* Of six lookup functions, four with a search and a comparison of their own,
\* those that fold all of Unicode agree on what is found, in mixed and unordered
\* keys, down the rows and across the columns; VLOOKUP, which folds only ASCII,
\* finds what its own comparison says, never a key the others miss, and in ASCII
\* exactly what they find.  An error anywhere in the table is the answer, even in
\* a row nobody asked for.
LookupsAgree ==
  sheet = "records" =>
    \A v \in Wanted :
      IF Broken = {}
      THEN /\ FindsFirst(v) /\ IndexOfMatch(v) /\ SameInAscii(v)
           /\ Ordered("unicode", v, KeyColumn) => FindsLast(v)
           /\ Ordered("ascii", v, KeyColumn) => FindsLastRow(v)
      ELSE \A approximate \in BOOLEAN :
             /\ VLOOKUP(v, records, 2, approximate) = Cells(records)[Min(Broken)]
             /\ Is("error", HLOOKUP(v, Across, 2, approximate))

------------------------------------------------------------------------------
(* What criteria should select.                                            *)

Criteria(op, operand) == Text(Codes[op] \o operand)
Counted(op, operand) == COUNTIF(KeyColumn, Criteria(op, operand)).number
Summed(op, operand) ==
  SUMIF(KeyColumn, Criteria(op, operand), AmountColumn).number

\* Every cell is below, equal to or above an operand, whatever it holds.
Trichotomy(operand) ==
  /\ Counted("<", operand) + Counted("=", operand) + Counted(">", operand) = MaxRows
  /\ Counted("<=", operand) = Counted("<", operand) + Counted("=", operand)
  /\ Counted(">=", operand) = Counted(">", operand) + Counted("=", operand)
  /\ Summed("<=", operand) + Summed(">", operand) = Total(AmountColumn, 1 .. MaxRows)

Complement(operand) == Counted("=", operand) + Counted("<>", operand) = MaxRows

\* The functions of one criterion and of several, and the averages and extremes,
\* speak of the same cells.
OneSelection(op, operand) ==
  LET c == Criteria(op, operand)
      pairs == <<Pair(KeyColumn, c)>>
      count == COUNTIFS(pairs).number
      average == AVERAGEIF(KeyColumn, c, AmountColumn)
      plain == \A i \in 1 .. MaxRows : ~Is("boolean", AmountColumn[i])
  IN  /\ COUNTIF(KeyColumn, c) = Number(count)
      /\ SUMIF(KeyColumn, c, AmountColumn) = SUMIFS(AmountColumn, pairs)
      /\ plain => AVERAGEIFS(AmountColumn, pairs) = average
      /\ Is("total", average) =>
           /\ average.total >= MINIFS(AmountColumn, pairs).number * average.count
           /\ average.total <= MAXIFS(AmountColumn, pairs).number * average.count
           /\ plain => average.total = SUMIFS(AmountColumn, pairs).number

\* COUNTIF, SUMIF, AVERAGEIF, their forms with several criteria, MINIFS and
\* MAXIFS, each with its own loop, split any mix of cells without counting one
\* twice or leaving one out.
CriteriaAgree ==
  sheet = "records" /\ Broken = {} =>
    /\ \A operand \in Operands : Trichotomy(operand)
    /\ \A operand \in Operands \cup Patterns :
         /\ Complement(operand)
         /\ \A op \in DOMAIN Codes : OneSelection(op, operand)

------------------------------------------------------------------------------
(* What dates should be.                                                   *)

Serial(v) == v.number

\* A date is what its parts say, and the next day is the next date.
Successive(s) ==
  /\ DATE(Year(s), Month(s), Day(s)) = Number(s)
  /\ IF Day(s) = DaysInMonth(Year(s), Month(s))
     THEN Supported(s + 1) = DATE(Year(s), Month(s) + 1, 1)
     ELSE DATE(Year(s), Month(s), Day(s) + 1) = Number(s + 1)

\* EDATE, EOMONTH and DATE reach the same months from either side, and DATEDIF
\* counts them back.
MonthsAgree(s, n) ==
  LET end == EOMONTH(s, n)
      target == EDATE(s, n)
  IN  /\ end = DATE(Year(s), Month(s) + n + 1, 0)
      /\ Is("number", target) =>
           /\ target = DATE(Year(s), Month(s) + n,
                            Min({Day(s), Day(Serial(end))}))
           /\ n >= 0 =>
                LET months == IF Day(Serial(target)) < Day(s) THEN n - 1 ELSE n
                IN  /\ DATEDIF(s, Serial(target), "M") = Number(months)
                    /\ DATEDIF(s, Serial(target), "Y") = Number(months \div 12)

\* Week numbers go up on the first day of the week and start again with the
\* year; the ISO week is that of its Thursday, except in 1900, where the day
\* that never was is counted as a day but not as a day of the week.
WeeksAgree(s) ==
  /\ \A type \in WeekTypes :
       Month(s + 1) # 1 \/ Day(s + 1) # 1 =>
         Serial(WEEKNUM(s + 1, type)) - Serial(WEEKNUM(s, type))
           = Truth(Serial(WEEKDAY(s + 1, type)) = 1)
  /\ s > 366 =>
       LET thursday == s + 4 - Serial(WEEKDAY(s, 2))
       IN  Serial(WEEKNUM(s, 21))
             = (thursday - Serial(DATE(Year(thursday), 1, 1))) \div 7 + 1

\* NETWORKDAYS counts the working days one by one and WORKDAY finds the day at
\* which so many have been counted, on either side of the start.
WorkdaysInvert(s, n, off) ==
  LET goal == WORKDAY(s, n, off)
      between(a, b) == Cardinality({d \in a .. b : IsWorkday(d) /\ d \notin off})
  IN  /\ n >= 0 /\ Supported(s + n) = Number(s + n) =>
           NETWORKDAYS(s, s + n, off) = Number(between(s, s + n))
      /\ n # 0 /\ Is("number", goal) =>
           /\ IsWorkday(Serial(goal)) /\ Serial(goal) \notin off
           /\ IF n > 0 THEN NETWORKDAYS(s + 1, Serial(goal), off) = Number(n)
              ELSE NETWORKDAYS(Serial(goal), s - 1, off) = Number(-n)

\* Five functions that step through the calendar in different ways agree at ends
\* of months, in leap years, across the day that never was, around weekends and
\* holidays and at both ends of the supported years.
DatesAgree ==
  sheet = "dates" =>
    /\ Successive(dates.start)
    /\ MonthsAgree(dates.start, dates.count)
    /\ dates.start < MaxSerial - 7 => WeeksAgree(dates.start)
    /\ WorkdaysInvert(dates.start, dates.count, dates.holidays)
=============================================================================
