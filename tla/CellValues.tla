----------------------------- MODULE CellValues -----------------------------
(***************************************************************************)
(* The values of excel-lite's cells and how its functions convert, compare *)
(* and match them (xlite-core/src/eval.rs).                                *)
(*                                                                         *)
(* Text is a sequence of code points, so that folding, digits, wildcards   *)
(* and the order of texts are those of the code; numbers are integers.     *)
(***************************************************************************)
EXTENDS Integers, Sequences, FiniteSets, SequencesExt

CONSTANT Characters  \* what texts are written with, as code points

\* All of ASCII, and any part of the rest of Unicode.
ASSUME CharactersAreCodePoints ==
  0 .. 127 \subseteq Characters /\ Characters \subseteq Nat

Blank == [blank |-> TRUE]
Number(n) == [number |-> n]
Text(s) == [text |-> s]
Boolean(b) == [boolean |-> b]
Error(e) == [error |-> e]

Is(kind, v) == kind \in DOMAIN v

Values ==
  {Blank} \cup [number : Int] \cup [text : Seq(Characters)]
    \cup [boolean : BOOLEAN] \cup [error : STRING]

\* Result of a function that may fail: the first error among its arguments is
\* its value, whatever the function does (eval_result).
FirstError(values) == SelectInSeq(values, LAMBDA v : Is("error", v))
Propagated(values, result) ==
  IF FirstError(values) = 0 THEN result ELSE values[FirstError(values)]

------------------------------------------------------------------------------
(* Text.                                                                   *)

\* char::is_whitespace
WhiteSpace ==
  9 .. 13 \cup {32, 133, 160, 5760} \cup 8192 .. 8202
    \cup {8232, 8233, 8239, 8287, 12288}

Star == 42
Minus == 45
Question == 63
Tilde == 126
Digits == 48 .. 57

\* to_ascii_lowercase: letters beyond ASCII are left as they are.
LowerAscii(c) == IF c \in 65 .. 90 THEN c + 32 ELSE c
Lower(s) == [i \in DOMAIN s |-> LowerAscii(s[i])]

\* The order of texts: the first difference decides, or the length.
TextLess(a, b) ==
  \E i \in 0 .. Len(a) :
    /\ IsPrefix(SubSeq(a, 1, i), b)
    /\ IF i = Len(a) THEN i < Len(b) ELSE i < Len(b) /\ a[i + 1] < b[i + 1]

Trim(s) ==
  LET ink == {i \in DOMAIN s : s[i] \notin WhiteSpace}
  IN  IF ink = {} THEN <<>> ELSE SubSeq(s, Min(ink), Max(ink))

IsNumeral(s) == s # <<>> /\ \A i \in DOMAIN s : s[i] \in Digits
Magnitude(s) == FoldLeft(LAMBDA n, c : 10 * n + c - 48, 0, s)

\* str::parse of a trimmed text: an optional sign and digits.
Parse(s) ==
  LET t == Trim(s)
  IN  IF IsNumeral(t) THEN Number(Magnitude(t))
      ELSE IF t # <<>> /\ Head(t) = Minus /\ IsNumeral(Tail(t))
      THEN Number(-Magnitude(Tail(t)))
      ELSE Error("#VALUE!")

\* A number as it is written.
Written(n) ==
  LET numeral[k \in Nat] ==
        IF k < 10 THEN <<48 + k>> ELSE numeral[k \div 10] \o <<48 + (k % 10)>>
  IN  IF n < 0 THEN <<Minus>> \o numeral[-n] ELSE numeral[n]

True == <<84, 82, 85, 69>>
False == <<70, 65, 76, 83, 69>>

------------------------------------------------------------------------------
(* Coercion.                                                               *)

ToNumber(v) ==
  CASE Is("number", v) \/ Is("error", v) -> v
    [] Is("boolean", v) -> Number(IF v.boolean THEN 1 ELSE 0)
    [] Is("blank", v) -> Number(0)
    [] Is("text", v) -> Parse(v.text)

ToText(v) ==
  CASE Is("text", v) -> v.text
    [] Is("number", v) -> Written(v.number)
    [] Is("boolean", v) -> IF v.boolean THEN True ELSE False
    [] Is("blank", v) -> <<>>

------------------------------------------------------------------------------
(* Comparison.                                                             *)

\* A blank is the empty text beside a text, and zero beside anything else.
Beside(v, other) ==
  IF ~Is("blank", v) THEN v
  ELSE IF Is("text", other) THEN Text(<<>>) ELSE Number(0)

KindRank(v) ==
  CASE Is("number", v) -> 0 [] Is("text", v) -> 1 [] Is("boolean", v) -> 2

Sign(a, b) == IF a < b THEN -1 ELSE IF a > b THEN 1 ELSE 0
TextOrder(a, b) ==
  IF TextLess(a, b) THEN -1 ELSE IF TextLess(b, a) THEN 1 ELSE 0
Truth(b) == IF b THEN 1 ELSE 0

SameKindOrder(a, b) ==
  CASE Is("number", a) -> Sign(a.number, b.number)
    [] Is("text", a) -> TextOrder(Lower(a.text), Lower(b.text))
    [] Is("boolean", a) -> Sign(Truth(a.boolean), Truth(b.boolean))

\* Numbers come before texts and texts before booleans.
CompareOrder(lhs, rhs) ==
  LET a == Beside(lhs, rhs)
      b == Beside(rhs, lhs)
  IN  IF KindRank(a) = KindRank(b) THEN SameKindOrder(a, b)
      ELSE Sign(KindRank(a), KindRank(b))

Holds(op, order) ==
  CASE op = "=" -> order = 0
    [] op = "<>" -> order # 0
    [] op = "<" -> order = -1
    [] op = ">" -> order = 1
    [] op = "<=" -> order # 1
    [] op = ">=" -> order # -1

------------------------------------------------------------------------------
(* Criteria, as COUNTIF and its like take them.                            *)

Codes == [op \in {"=", "<>", "<", ">", "<=", ">="} |->
            CASE op = "=" -> <<61>> [] op = "<>" -> <<60, 62>>
              [] op = "<" -> <<60>> [] op = ">" -> <<62>>
              [] op = "<=" -> <<60, 61>> [] op = ">=" -> <<62, 61>>]

\* Faulty variant: an operator of two characters is read as its first.
OperatorsShortFirst == <<">", "<", "=", ">=", "<=", "<>">>

\* The operators in the order they are tried.
Operators == <<">=", "<=", "<>", ">", "<", "=">>

Criterion(s) ==
  LET k == SelectInSeq(Operators, LAMBDA op : IsPrefix(Codes[op], s))
  IN  IF k = 0 THEN [op |-> "=", operand |-> s]
      ELSE [op |-> Operators[k],
            operand |-> SubSeq(s, Len(Codes[Operators[k]]) + 1, Len(s))]

UsesWildcards(s) == \E i \in DOMAIN s : s[i] \in {Star, Question}

\* wildcard_match: whether the first i tokens match the first j characters.
\* A token is AnyChar or AnyChars or, like the characters of s, what a character
\* is folded to, which may be several.
AnyChar == <<-1>>
AnyChars == <<-2>>

TokensMatch(tokens, s) ==
  LET matched[c \in (0 .. Len(tokens)) \X (0 .. Len(s))] ==
        LET i == c[1]
            j == c[2]
        IN  IF i = 0 THEN j = 0
            ELSE IF tokens[i] = AnyChars
            THEN matched[<<i - 1, j>>] \/ (j > 0 /\ matched[<<i, j - 1>>])
            ELSE /\ j > 0
                 /\ tokens[i] \in {AnyChar, s[j]}
                 /\ matched[<<i - 1, j - 1>>]
  IN  matched[<<Len(tokens), Len(s)>>]

\* In criteria every * and ? is a wildcard, and only ASCII is folded.
Singly(s) == [i \in DOMAIN s |-> <<LowerAscii(s[i])>>]

WildcardMatch(pattern, s) ==
  TokensMatch([i \in DOMAIN pattern |->
                 CASE pattern[i] = Star -> AnyChars
                   [] pattern[i] = Question -> AnyChar
                   [] OTHER -> Singly(pattern)[i]], Singly(s))

\* An operand reads as a number, except beside a text.
OperandValue(cell, operand) ==
  LET t == Trim(operand)
  IN  IF Lower(t) = Lower(True) THEN Boolean(TRUE)
      ELSE IF Lower(t) = Lower(False) THEN Boolean(FALSE)
      ELSE IF ~Is("text", cell) /\ Is("number", Parse(t)) THEN Parse(t)
      ELSE Text(operand)

MatchesCriteria(cell, criteria) ==
  /\ ~Is("error", cell) /\ ~Is("error", criteria)
  /\ IF ~Is("text", criteria) THEN CompareOrder(cell, criteria) = 0
     ELSE LET c == Criterion(criteria.text)
          IN  IF UsesWildcards(c.operand) /\ c.op \in {"=", "<>"}
              THEN WildcardMatch(c.operand, ToText(cell)) = (c.op = "=")
              ELSE Holds(c.op, CompareOrder(cell, OperandValue(cell, c.operand)))
=============================================================================
