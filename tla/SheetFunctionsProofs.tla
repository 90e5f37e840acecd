------------------------ MODULE SheetFunctionsProofs ------------------------
(***************************************************************************)
(* SheetFunctions for every number of rows, every set of keys, amounts and *)
(* looked up values, and every operand and pattern, in any characters and  *)
(* whatever the lower case of those beyond ASCII: that lookups find what   *)
(* their own comparison says (LookupsAlwaysAgree), and that criteria split *)
(* the cells and the functions that take them speak of the same ones       *)
(* (CriteriaAlwaysAgree).                                                  *)
(*                                                                         *)
(* The inductive invariant is only that the records stay a table of values *)
(* (RecordsInv); what is hard lies in the functions.  Those defined by     *)
(* recursion are taken apart first: the smallest of a set, sequences put   *)
(* together, tokens, the table of wildcard_match, numerals and sums.       *)
(***************************************************************************)
EXTENDS SheetFunctions, FiniteSetTheorems, SequenceTheorems,
        WellFoundedInduction, TLAPS

------------------------------------------------------------------------------
(* Induction and recursion.                                                *)

\* A set of numbers that is not empty has a smallest.
LEMMA Smallest ==
  ASSUME NEW S \in SUBSET Nat, S # {}
  PROVE  \E n \in S : \A k \in S : n <= k
<1>1. PICK n \in S : \A k \in S : ~ (<<k, n>> \in OpToRel(<, Nat))
  BY WFMin, NatLessThanWellFounded
<1>2. \A k \in S : k < n => <<k, n>> \in OpToRel(<, Nat)
  BY DEF OpToRel
<1>3. \A k \in S : ~ (k < n)
  BY <1>1, <1>2
<1> QED
  BY <1>3

\* Induction up to a bound, with a set of numbers in place of a predicate.
LEMMA UpTo ==
  ASSUME NEW k \in Nat, NEW S, 0 \in S,
         \A n \in 0 .. k - 1 : n \in S => n + 1 \in S
  PROVE  \A n \in 0 .. k : n \in S
<1> DEFINE Bad == {n \in 0 .. k : n \notin S}
<1>1. SUFFICES ASSUME Bad # {} PROVE FALSE
  OBVIOUS
<1>2. PICK n \in Bad : \A i \in Bad : n <= i
  <2>1. Bad \in SUBSET Nat
    OBVIOUS
  <2> HIDE DEF Bad
  <2> QED
    BY <1>1, <2>1, Smallest
<1>3. n \in 0 .. k /\ n \notin S /\ n # 0
  BY <1>2
<1>4. n - 1 \in 0 .. k - 1 /\ n - 1 \notin Bad
  BY <1>2, <1>3
<1>5. n - 1 \in S
  BY <1>4
<1> QED
  BY <1>3, <1>4, <1>5

\* f starts with b and each of its values comes from the one before by F.
Iterates(f, b, F, k) ==
  f = [n \in 0 .. k |-> IF n = 0 THEN b ELSE F[<<f[n - 1], n>>]]

\* A function defined by what it is at 0 and by steps exists.
LEMMA Recursion ==
  ASSUME NEW V, NEW b \in V, NEW F \in [V \X Nat -> V], NEW k \in Nat
  PROVE  \E f \in [0 .. k -> V] : Iterates(f, b, F, k)
<1> DEFINE S == {n \in Nat : \E f \in [0 .. n -> V] : Iterates(f, b, F, n)}
<1>1. 0 \in S
  <2> DEFINE f == [n \in 0 .. 0 |-> b]
  <2>1. f \in [0 .. 0 -> V]
    OBVIOUS
  <2>2. f = [n \in 0 .. 0 |-> IF n = 0 THEN b ELSE F[<<f[n - 1], n>>]]
    OBVIOUS
  <2> QED
    BY <2>1, <2>2 DEF Iterates
<1>2. ASSUME NEW n \in 0 .. k - 1, n \in S
      PROVE  n + 1 \in S
  <2>1. PICK g \in [0 .. n -> V] : Iterates(g, b, F, n)
    BY <1>2
  <2> DEFINE f == [i \in 0 .. n + 1 |->
                     IF i = n + 1 THEN F[<<g[n], n + 1>>] ELSE g[i]]
  <2>2. f \in [0 .. n + 1 -> V]
    OBVIOUS
  <2>3. \A i \in 0 .. n : g[i] = IF i = 0 THEN b ELSE F[<<g[i - 1], i>>]
    BY <2>1 DEF Iterates
  <2>4. ASSUME NEW i \in 0 .. n + 1
        PROVE  f[i] = IF i = 0 THEN b ELSE F[<<f[i - 1], i>>]
    <3>1. CASE i = n + 1
      <4>1. f[i] = F[<<g[n], n + 1>>] /\ f[i - 1] = g[n] /\ i # 0
        BY <3>1
      <4> QED
        BY <3>1, <4>1
    <3>2. CASE i # n + 1
      <4>1. i \in 0 .. n /\ f[i] = g[i]
        BY <3>2
      <4>2. i # 0 => f[i - 1] = g[i - 1]
        BY <4>1
      <4> QED
        BY <2>3, <4>1, <4>2
    <3> QED
      BY <3>1, <3>2
  <2>5. f = [i \in 0 .. n + 1 |-> IF i = 0 THEN b ELSE F[<<f[i - 1], i>>]]
    <3>1. f = [i \in 0 .. n + 1 |-> f[i]]
      OBVIOUS
    <3> HIDE DEF f
    <3> QED
      BY <2>4, <3>1
  <2>6. Iterates(f, b, F, n + 1)
    BY <2>5 DEF Iterates
  <2> HIDE DEF f
  <2> QED
    BY <2>2, <2>6
<1> HIDE DEF S
<1>3. k \in S
  BY <1>1, <1>2, UpTo
<1> QED
  BY <1>3 DEF S

\* A fold over the subsets of a finite set D, which takes c[s] from s first.
Chooses(c, D) ==
  c \in [(SUBSET D) \ {{}} -> D] /\ \A s \in (SUBSET D) \ {{}} : c[s] \in s

FoldsBy(g, D, b, c, F) ==
  \A s \in SUBSET D :
    g[s] = IF s = {} THEN b ELSE F[<<c[s], g[s \ {c[s]}]>>]

\* A function on the subsets of a finite set, defined by taking one element
\* away at a time, exists.
LEMMA SetRecursion ==
  ASSUME NEW D, IsFiniteSet(D), NEW V, NEW b \in V, NEW c, Chooses(c, D),
         NEW F \in [D \X V -> V]
  PROVE  \E g \in [SUBSET D -> V] : FoldsBy(g, D, b, c, F)
<1> DEFINE W == [SUBSET D -> V]
           Layer(h) == [s \in SUBSET D |->
                          IF s = {} THEN b ELSE F[<<c[s], h[s \ {c[s]}]>>]]
           G == [x \in W \X Nat |-> Layer(x[1])]
           first == [s \in SUBSET D |-> b]
<1>0. /\ c \in [(SUBSET D) \ {{}} -> D]
      /\ \A s \in (SUBSET D) \ {{}} : c[s] \in s
  BY DEF Chooses
<1>1. \A h \in W : Layer(h) \in W
  <2> SUFFICES ASSUME NEW h \in W, NEW s \in SUBSET D, s # {}
               PROVE  F[<<c[s], h[s \ {c[s]}]>>] \in V
    OBVIOUS
  <2>1. c[s] \in D /\ s \ {c[s]} \in SUBSET D
    BY <1>0
  <2>2. h[s \ {c[s]}] \in V
    BY <2>1
  <2> QED
    BY <2>1, <2>2
<1>2. G \in [W \X Nat -> W]
  <2> HIDE DEF W, Layer
  <2> QED
    BY <1>1
<1>3. first \in W
  OBVIOUS
<1>4. \A h \in W, n \in Nat : G[<<h, n>>] = Layer(h)
  <2> HIDE DEF W, Layer
  <2> QED
    OBVIOUS
<1> DEFINE N == Cardinality(D)
<1>5. N \in Nat /\ \A s \in SUBSET D : IsFiniteSet(s) /\ Cardinality(s) \in 0 .. N
  BY FS_Subset, FS_CardinalityType
<1>6. PICK h \in [0 .. N -> W] : Iterates(h, first, G, N)
  <2> HIDE DEF W, G, first, N
  <2> QED
    BY <1>2, <1>3, <1>5, Recursion
<1>7. \A n \in 0 .. N : n # 0 => h[n] = Layer(h[n - 1])
  <2> HIDE DEF W, Layer, G, N, first
  <2> SUFFICES ASSUME NEW n \in 0 .. N, n # 0 PROVE h[n] = Layer(h[n - 1])
    OBVIOUS
  <2>1. n - 1 \in 0 .. N /\ n \in Nat
    BY <1>5
  <2>2. h[n] = G[<<h[n - 1], n>>]
    BY <1>6 DEF Iterates
  <2> QED
    BY <1>4, <2>1, <2>2
<1>8. h[0] = first
  <2> HIDE DEF W, G, N, first
  <2> QED
    BY <1>5, <1>6 DEF Iterates
<1> DEFINE g == [s \in SUBSET D |-> h[Cardinality(s)][s]]
<1>9. g \in W
  <2> HIDE DEF N
  <2> QED
    BY <1>5
<1>10. ASSUME NEW s \in SUBSET D
       PROVE  g[s] = IF s = {} THEN b ELSE F[<<c[s], g[s \ {c[s]}]>>]
  <2>1. CASE s = {}
    <3>1. Cardinality(s) = 0
      BY <2>1, FS_EmptySet
    <3> QED
      BY <1>8, <2>1, <3>1
  <2>2. CASE s # {}
    <3>1. c[s] \in s /\ s \ {c[s]} \in SUBSET D
      BY <1>0, <2>2
    <3>2. /\ Cardinality(s) \in 0 .. N /\ Cardinality(s) # 0
          /\ Cardinality(s \ {c[s]}) = Cardinality(s) - 1
      <4> HIDE DEF N
      <4>1. IsFiniteSet(s) /\ Cardinality(s) \in 0 .. N
        BY <1>5
      <4>2. Cardinality(s) # 0
        BY <2>2, <4>1, FS_EmptySet
      <4>3. Cardinality(s \ {c[s]}) = Cardinality(s) - 1
        <5> DEFINE x == c[s]
        <5>1. x \in s
          BY <3>1
        <5> HIDE DEF x
        <5>2. Cardinality(s \ {x}) = Cardinality(s) - 1
          BY ONLY <4>1, <5>1, FS_RemoveElement
        <5> QED
          BY <5>2 DEF x
      <4> QED
        BY <4>1, <4>2, <4>3
    <3>3. h[Cardinality(s)] = Layer(h[Cardinality(s) - 1])
      <4> HIDE DEF N, Layer
      <4> QED
        BY <1>7, <3>2
    <3>4. Layer(h[Cardinality(s) - 1])[s]
            = F[<<c[s], h[Cardinality(s) - 1][s \ {c[s]}]>>]
      BY <2>2
    <3> QED
      BY <2>2, <3>1, <3>2, <3>3, <3>4
  <2> QED
    BY <2>1, <2>2
<1> HIDE DEF g
<1> QED
  BY <1>9, <1>10 DEF FoldsBy

------------------------------------------------------------------------------
(* Values.                                                                 *)

\* What the records that stand for values are made of.
LEMMA NumberIs ==
  ASSUME NEW v \in [number : Int]
  PROVE  DOMAIN v = {"number"} /\ v = Number(v.number) /\ v.number \in Int
BY DEF Number

LEMMA TextIs ==
  ASSUME NEW v \in [text : Seq(Characters)]
  PROVE  DOMAIN v = {"text"} /\ v = Text(v.text) /\ v.text \in Seq(Characters)
BY DEF Text

LEMMA BooleanIs ==
  ASSUME NEW v \in [boolean : BOOLEAN]
  PROVE  DOMAIN v = {"boolean"} /\ v = Boolean(v.boolean) /\ v.boolean \in BOOLEAN
BY DEF Boolean

LEMMA ErrorIs ==
  ASSUME NEW v \in [error : STRING]
  PROVE  DOMAIN v = {"error"} /\ v = Error(v.error)
BY DEF Error

\* The domains of values made, and their contents.
LEMMA Made ==
  /\ \A n : DOMAIN Number(n) = {"number"} /\ Number(n).number = n
  /\ \A n : DOMAIN Text(n) = {"text"} /\ Text(n).text = n
  /\ \A n : DOMAIN Boolean(n) = {"boolean"} /\ Boolean(n).boolean = n
  /\ \A n : DOMAIN Error(n) = {"error"}
  /\ DOMAIN Blank = {"blank"}
BY DEF Blank, Number, Text, Boolean, Error

KindNames == {"number", "text", "boolean", "error", "blank"}

\* A value is of one kind.
LEMMA Kinds ==
  ASSUME NEW v \in Values
  PROVE  /\ \E k \in KindNames : DOMAIN v = {k}
         /\ Is("number", v) => v = Number(v.number) /\ v.number \in Int
         /\ Is("text", v) => v = Text(v.text) /\ v.text \in Seq(Characters)
         /\ Is("boolean", v) => v = Boolean(v.boolean) /\ v.boolean \in BOOLEAN
         /\ Is("blank", v) => v = Blank
         /\ \A k : Is(k, v) <=> DOMAIN v = {k}
<1>1. CASE v \in [number : Int]
  <2>1. DOMAIN v = {"number"} /\ v = Number(v.number) /\ v.number \in Int
    BY <1>1, NumberIs
  <2> QED
    BY <2>1 DEF Is, KindNames
<1>2. CASE v \in [text : Seq(Characters)]
  <2>1. DOMAIN v = {"text"} /\ v = Text(v.text) /\ v.text \in Seq(Characters)
    BY <1>2, TextIs
  <2> QED
    BY <2>1 DEF Is, KindNames
<1>3. CASE v \in [boolean : BOOLEAN]
  <2>1. /\ DOMAIN v = {"boolean"} /\ v = Boolean(v.boolean)
        /\ v.boolean \in BOOLEAN
    BY <1>3, BooleanIs
  <2> QED
    BY <2>1 DEF Is, KindNames
<1>4. CASE v \in [error : STRING]
  <2>1. DOMAIN v = {"error"}
    BY <1>4, ErrorIs
  <2> QED
    BY <2>1 DEF Is, KindNames
<1>5. CASE v = Blank
  <2>1. DOMAIN v = {"blank"}
    BY <1>5, Made
  <2> QED
    BY <1>5, <2>1 DEF Is, KindNames
<1> QED
  BY <1>1, <1>2, <1>3, <1>4, <1>5 DEF Values

------------------------------------------------------------------------------
(* Sequences of values.                                                    *)

\* The least and the greatest of a set of positions.
LEMMA Least ==
  ASSUME NEW S \in SUBSET Nat, S # {}
  PROVE  Min(S) \in S /\ \A k \in S : Min(S) <= k
<1>1. \E n \in S : \A k \in S : n <= k
  BY Smallest
<1> QED
  BY <1>1 DEF Min

LEMMA Greatest ==
  ASSUME NEW n \in Nat, NEW S \in SUBSET (0 .. n), S # {}
  PROVE  Max(S) \in S /\ \A k \in S : k <= Max(S)
<1> DEFINE T == {i \in 0 .. n : n - i \in S}
<1>1. T \in SUBSET Nat /\ T # {}
  <2>1. PICK k \in S : TRUE
    OBVIOUS
  <2>2. n - k \in 0 .. n /\ n - (n - k) = k
    OBVIOUS
  <2>3. n - k \in T
    BY <2>2
  <2>4. T \in SUBSET Nat
    OBVIOUS
  <2> HIDE DEF T
  <2> QED
    BY <2>3, <2>4
<1>2. PICK m \in T : \A k \in T : m <= k
  <2> HIDE DEF T
  <2> QED
    BY <1>1, Smallest
<1>3. n - m \in S /\ \A k \in S : n - k \in T
  BY <1>2
<1>4. \A k \in S : k <= n - m
  BY <1>2, <1>3
<1>5. \E x \in S : \A y \in S : x >= y
  BY <1>3, <1>4
<1> QED
  BY <1>5 DEF Max

\* FlattenSeq puts one sequence after the other.
LEMMA FlattenedInTurn ==
  ASSUME NEW V, NEW t \in Seq(Seq(V)), t # <<>>
  PROVE  \E f : /\ FlattenSeq(t) = f[Len(t)]
                /\ \A i \in 1 .. Len(t) :
                     f[i] = IF i = 1 THEN t[i] ELSE f[i - 1] \o t[i]
<1> DEFINE n == Len(t)
           F == [c \in Seq(V) \X Nat |->
                   IF c[2] + 1 \in 1 .. n THEN c[1] \o t[c[2] + 1] ELSE c[1]]
           Joins(f) == f = [i \in 1 .. n |-> IF i = 1 THEN t[i] ELSE f[i - 1] \o t[i]]
<1>1. n \in Nat /\ n >= 1 /\ DOMAIN t = 1 .. n /\ \A r \in 1 .. n : t[r] \in Seq(V)
  OBVIOUS
<1>2. F \in [Seq(V) \X Nat -> Seq(V)]
  <2> SUFFICES ASSUME NEW s \in Seq(V), NEW i \in Nat, i + 1 \in 1 .. n
               PROVE  s \o t[i + 1] \in Seq(V)
    OBVIOUS
  <2> HIDE DEF n
  <2> QED
    BY <1>1
<1>3. \A s \in Seq(V), i \in Nat : i + 1 \in 1 .. n => F[<<s, i>>] = s \o t[i + 1]
  OBVIOUS
<1>4. PICK h \in [0 .. n - 1 -> Seq(V)] : Iterates(h, t[1], F, n - 1)
  <2>1. n - 1 \in Nat /\ t[1] \in Seq(V)
    BY <1>1
  <2> HIDE DEF F, n
  <2> QED
    BY <1>2, <2>1, Recursion
<1> DEFINE g == [i \in 1 .. n |-> h[i - 1]]
<1>5. \A i \in 1 .. n : g[i] = IF i = 1 THEN t[i] ELSE g[i - 1] \o t[i]
  <2> SUFFICES ASSUME NEW i \in 1 .. n
               PROVE  h[i - 1] = IF i = 1 THEN t[i] ELSE h[i - 2] \o t[i]
    BY <1>1
  <2>1. i - 1 \in 0 .. n - 1 /\ i - 1 \in Nat
    BY <1>1
  <2>2. h[i - 1] = IF i - 1 = 0 THEN t[1] ELSE F[<<h[i - 1 - 1], i - 1>>]
    <3> HIDE DEF n, F
    <3> QED
      BY <1>4, <2>1 DEF Iterates
  <2>3. CASE i = 1
    BY <2>2, <2>3
  <2>4. CASE i # 1
    <3>1. i - 1 - 1 = i - 2 /\ i - 2 \in 0 .. n - 1 /\ i - 1 + 1 = i /\ i - 1 # 0
      BY <1>1, <2>4
    <3>2. h[i - 2] \in Seq(V)
      BY <3>1
    <3> HIDE DEF F, n
    <3> QED
      BY <1>3, <2>1, <2>2, <2>4, <3>1, <3>2
  <2> QED
    BY <2>3, <2>4
<1>6. Joins(g)
  <2>1. g = [i \in 1 .. n |-> g[i]]
    OBVIOUS
  <2> HIDE DEF g, n
  <2> QED
    BY <1>5, <2>1
<1> HIDE DEF g
<1> DEFINE f == CHOOSE f : Joins(f)
<1>7. Joins(f)
  BY <1>6
<1>8. FlattenSeq(t) = f[n]
  <2>1. Len(t) # 0
    BY <1>1
  <2> QED
    BY Zenon, <2>1 DEF FlattenSeq
<1> HIDE DEF f
<1>9. \A i \in 1 .. n : f[i] = IF i = 1 THEN t[i] ELSE f[i - 1] \o t[i]
  BY <1>7
<1> QED
  BY <1>8, <1>9

\* Sequences of one element each make the sequence of their elements.
LEMMA FlattenedSingly ==
  ASSUME NEW V, NEW t \in Seq(Seq(V)), NEW s \in Seq(V), Len(t) = Len(s),
         \A i \in 1 .. Len(s) : t[i] = <<s[i]>>
  PROVE  FlattenSeq(t) = s
<1> DEFINE n == Len(s)
<1>1. n \in Nat /\ Len(t) = n /\ \A i \in 1 .. n : s[i] \in V
  OBVIOUS
<1>2. CASE t = <<>>
  <2>1. FlattenSeq(t) = t /\ s = <<>>
    BY <1>2 DEF FlattenSeq
  <2> QED
    BY <1>2, <2>1
<1>3. CASE t # <<>>
  <2>0. n >= 1
    BY <1>1, <1>3
  <2>1. PICK f : /\ FlattenSeq(t) = f[n]
                 /\ \A i \in 1 .. n :
                      f[i] = IF i = 1 THEN t[i] ELSE f[i - 1] \o t[i]
    BY <1>1, <1>3, FlattenedInTurn
  <2> DEFINE Good(i) == /\ f[i] \in Seq(V) /\ Len(f[i]) = i
                        /\ \A k \in 1 .. i : f[i][k] = s[k]
             Goods == {i \in Nat : i + 1 \in 1 .. n => Good(i + 1)}
  <2>2. 0 \in Goods
    <3>1. 1 \in 1 .. n /\ 0 + 1 = 1
      BY <1>1, <2>0
    <3>2. f[1] = t[1] /\ t[1] = <<s[1]>> /\ s[1] \in V
      BY <1>1, <2>1, <3>1
    <3>3. f[1] = <<s[1]>>
      BY <3>2
    <3>4. <<s[1]>> \in Seq(V) /\ Len(<<s[1]>>) = 1 /\ <<s[1]>>[1] = s[1]
      BY <3>2
    <3>5. \A k \in 1 .. 1 : k = 1
      OBVIOUS
    <3> HIDE DEF n
    <3>6. Good(1)
      BY <3>3, <3>4, <3>5
    <3> HIDE DEF Good
    <3> QED
      BY <3>1, <3>6
  <2>3. ASSUME NEW i \in 0 .. n - 1 - 1, i \in Goods PROVE i + 1 \in Goods
    <3> HIDE DEF n
    <3>1. i + 1 \in 1 .. n /\ i + 2 \in 1 .. n /\ i + 1 + 1 = i + 2 /\ i + 1 \in Nat
      BY <1>1
    <3>2. Good(i + 1)
      BY <2>3, <3>1
    <3>3. f[i + 2] = f[i + 1] \o <<s[i + 2]>>
      <4>1. i + 2 - 1 = i + 1 /\ i + 2 # 1 /\ t[i + 2] = <<s[i + 2]>>
        BY <3>1 DEF n
      <4>2. f[i + 2] = IF i + 2 = 1 THEN t[i + 2] ELSE f[i + 2 - 1] \o t[i + 2]
        BY <2>1, <3>1
      <4> QED
        BY <4>1, <4>2
    <3>4. s[i + 2] \in V
      BY <1>1, <3>1
    <3>5. Good(i + 2)
      <4> DEFINE a == f[i + 1]
                 e == s[i + 2]
      <4>1. /\ a \in Seq(V) /\ Len(a) = i + 1 /\ e \in V
            /\ \A k \in 1 .. i + 1 : a[k] = s[k]
        BY <3>2, <3>4
      <4> HIDE DEF a
      <4>2. /\ a \o <<e>> \in Seq(V) /\ Len(a \o <<e>>) = i + 2
            /\ \A k \in 1 .. i + 1 : (a \o <<e>>)[k] = a[k]
            /\ (a \o <<e>>)[i + 2] = e
        BY <4>1
      <4>3. \A k \in 1 .. i + 2 : (a \o <<e>>)[k] = s[k]
        BY <4>1, <4>2
      <4> QED
        BY <3>3, <4>2, <4>3 DEF a
    <3> HIDE DEF Good
    <3> QED
      BY <3>1, <3>5
  <2>4. n - 1 \in Goods
    <3>1. n - 1 \in Nat /\ n - 1 \in 0 .. n - 1
      BY <1>1, <2>0
    <3> HIDE DEF Goods, n
    <3> QED
      BY <2>2, <2>3, <3>1, UpTo
  <2>5. Good(n)
    BY <1>1, <2>0, <2>4
  <2> QED
    BY <1>1, <2>1, <2>5, SeqEqual
<1> QED
  BY <1>2, <1>3

\* The rows of a table one after the other.
LEMMA Flattened ==
  ASSUME NEW V, NEW t \in Seq(Seq(V)), t # <<>>
  PROVE  /\ FlattenSeq(t) \in Seq(V)
         /\ \A x : (\E i \in DOMAIN FlattenSeq(t) : FlattenSeq(t)[i] = x)
                     <=> \E r \in DOMAIN t : \E i \in DOMAIN t[r] : t[r][i] = x
<1> DEFINE n == Len(t)
<1>1. n \in Nat /\ n >= 1 /\ DOMAIN t = 1 .. n /\ \A r \in 1 .. n : t[r] \in Seq(V)
  OBVIOUS
<1>2. PICK f : /\ FlattenSeq(t) = f[n]
               /\ \A i \in 1 .. n : f[i] = IF i = 1 THEN t[i] ELSE f[i - 1] \o t[i]
  BY FlattenedInTurn
<1>8. FlattenSeq(t) = f[n]
  BY <1>2
<1>9. \A i \in 1 .. n : f[i] = IF i = 1 THEN t[i] ELSE f[i - 1] \o t[i]
  BY <1>2
<1> DEFINE Good(i) ==
             /\ f[i] \in Seq(V)
             /\ \A x : (\E j \in DOMAIN f[i] : f[i][j] = x)
                         <=> \E r \in 1 .. i : \E j \in DOMAIN t[r] : t[r][j] = x
           Goods == {i \in Nat : i + 1 \in 1 .. n => Good(i + 1)}
<1>10. 0 \in Goods
  <2>1. f[1] = t[1]
    BY <1>1, <1>9
  <2> QED
    BY <1>1, <2>1
<1>11. ASSUME NEW i \in 0 .. n - 1 - 1, i \in Goods
       PROVE  i + 1 \in Goods
  <2> HIDE DEF n
  <2>1. i + 1 \in 1 .. n /\ i + 2 \in 1 .. n /\ i + 1 + 1 = i + 2 /\ i + 1 \in Nat
    BY <1>1
  <2>2. Good(i + 1)
    BY <1>11, <2>1
  <2>3. f[i + 2] = f[i + 1] \o t[i + 2]
    <3>1. i + 2 - 1 = i + 1 /\ i + 2 # 1
      OBVIOUS
    <3>2. f[i + 2] = IF i + 2 = 1 THEN t[i + 2] ELSE f[i + 2 - 1] \o t[i + 2]
      BY <1>9, <2>1
    <3> QED
      BY <3>1, <3>2
  <2>4. t[i + 2] \in Seq(V)
    BY <1>1, <2>1
  <2>5. f[i + 2] \in Seq(V)
    BY <2>2, <2>3, <2>4
  <2>6. ASSUME NEW x
        PROVE  (\E j \in DOMAIN f[i + 2] : f[i + 2][j] = x)
                 <=> \E r \in 1 .. i + 2 : \E j \in DOMAIN t[r] : t[r][j] = x
    <3> DEFINE a == f[i + 1]
               b == t[i + 2]
    <3>1. a \in Seq(V) /\ b \in Seq(V) /\ f[i + 2] = a \o b
      BY <2>2, <2>3, <2>4
    <3> HIDE DEF a, b
    <3>2. (\E j \in DOMAIN (a \o b) : (a \o b)[j] = x)
            <=> (\E j \in DOMAIN a : a[j] = x) \/ \E j \in DOMAIN b : b[j] = x
      <4>1. /\ DOMAIN (a \o b) = 1 .. Len(a) + Len(b)
            /\ DOMAIN a = 1 .. Len(a) /\ DOMAIN b = 1 .. Len(b)
            /\ Len(a) \in Nat /\ Len(b) \in Nat
            /\ \A j \in 1 .. Len(a) + Len(b) :
                 (a \o b)[j] = IF j <= Len(a) THEN a[j] ELSE b[j - Len(a)]
        BY <3>1
      <4>2. ASSUME NEW j \in DOMAIN (a \o b), (a \o b)[j] = x
            PROVE  (\E k \in DOMAIN a : a[k] = x) \/ \E k \in DOMAIN b : b[k] = x
        <5>1. CASE j <= Len(a)
          BY <4>1, <4>2, <5>1
        <5>2. CASE ~(j <= Len(a))
          <6>1. j - Len(a) \in DOMAIN b
            BY <4>1, <5>2
          <6> QED
            BY <4>1, <4>2, <5>2, <6>1
        <5> QED
          BY <5>1, <5>2
      <4>3. ASSUME NEW k \in DOMAIN a
            PROVE  k \in DOMAIN (a \o b) /\ (a \o b)[k] = a[k]
        BY <4>1
      <4>4. ASSUME NEW k \in DOMAIN b
            PROVE  k + Len(a) \in DOMAIN (a \o b) /\ (a \o b)[k + Len(a)] = b[k]
        BY <4>1
      <4> QED
        BY <4>2, <4>3, <4>4
    <3>3. (\E j \in DOMAIN a : a[j] = x)
            <=> \E r \in 1 .. i + 1 : \E j \in DOMAIN t[r] : t[r][j] = x
      BY <2>2 DEF a
    <3>4. \A r : r \in 1 .. i + 2 <=> r \in 1 .. i + 1 \/ r = i + 2
      OBVIOUS
    <3>5. (\E r \in 1 .. i + 2 : \E j \in DOMAIN t[r] : t[r][j] = x)
            <=> \/ \E r \in 1 .. i + 1 : \E j \in DOMAIN t[r] : t[r][j] = x
                \/ \E j \in DOMAIN t[i + 2] : t[i + 2][j] = x
      BY <3>4
    <3> QED
      BY <3>1, <3>2, <3>3, <3>5 DEF b
  <2>7. Good(i + 2)
    BY <2>5, <2>6
  <2> HIDE DEF Good
  <2> QED
    BY <2>1, <2>7
<1>12. n - 1 \in Goods
  <2> HIDE DEF Goods, n
  <2>1. n - 1 \in Nat /\ n - 1 \in 0 .. n - 1
    BY <1>1
  <2> QED
    BY <1>10, <1>11, <2>1, UpTo
<1>13. Good(n)
  <2>1. n - 1 + 1 = n /\ n \in 1 .. n
    BY <1>1
  <2> HIDE DEF Good, n
  <2> QED
    BY <1>12, <2>1
<1> QED
  BY <1>1, <1>8, <1>13

\* The first error is found, if there is one.
LEMMA FirstErrorFound ==
  ASSUME NEW s \in Seq(Values)
  PROVE  /\ (\A i \in 1 .. Len(s) : ~Is("error", s[i])) => FirstError(s) = 0
         /\ (\E i \in 1 .. Len(s) : Is("error", s[i])) =>
              /\ FirstError(s) \in 1 .. Len(s)
              /\ Is("error", s[FirstError(s)])
              /\ \A i \in 1 .. Len(s) : Is("error", s[i]) => FirstError(s) <= i
<1> DEFINE I == {i \in 1 .. Len(s) : Is("error", s[i])}
<1>1. FirstError(s) = IF I # {} THEN Min(I) ELSE 0
  BY DEF FirstError, SelectInSeq
<1>2. I \in SUBSET Nat
  OBVIOUS
<1>3. I # {} => Min(I) \in I /\ \A k \in I : Min(I) <= k
  <2> HIDE DEF I
  <2> QED
    BY <1>2, Least
<1> QED
  BY <1>1, <1>3

\* Without errors among its arguments a function is worth its result.
LEMMA Sound ==
  ASSUME NEW s \in Seq(Values), \A i \in 1 .. Len(s) : ~Is("error", s[i]), NEW r
  PROVE  Propagated(s, r) = r
BY FirstErrorFound DEF Propagated

\* With one it is worth the first.
LEMMA Unsound ==
  ASSUME NEW s \in Seq(Values), NEW k \in 1 .. Len(s), Is("error", s[k]), NEW r
  PROVE  /\ Is("error", Propagated(s, r))
         /\ \E i \in 1 .. k : /\ Propagated(s, r) = s[i] /\ Is("error", s[i])
                              /\ \A j \in 1 .. i - 1 : ~Is("error", s[j])
<1>1. /\ FirstError(s) \in 1 .. Len(s) /\ Is("error", s[FirstError(s)])
      /\ \A i \in 1 .. Len(s) : Is("error", s[i]) => FirstError(s) <= i
  BY FirstErrorFound
<1>2. FirstError(s) # 0 /\ FirstError(s) <= k
  BY <1>1
<1>3. Propagated(s, r) = s[FirstError(s)]
  BY <1>2 DEF Propagated
<1>4. Len(s) \in Nat
  OBVIOUS
<1> DEFINE i == FirstError(s)
<1>5. i \in 1 .. k
  BY <1>1, <1>2
<1>6. \A j \in 1 .. i - 1 : ~Is("error", s[j])
  BY <1>1, <1>4
<1> QED
  BY <1>1, <1>3, <1>5, <1>6

\* A value before the others, which is no error, changes nothing.
LEMMA Preceded ==
  ASSUME NEW s \in Seq(Values), NEW v \in Values, ~Is("error", v)
  PROVE  /\ <<v>> \o s \in Seq(Values) /\ Len(<<v>> \o s) = Len(s) + 1
         /\ \A i \in 1 .. Len(s) : (<<v>> \o s)[i + 1] = s[i]
         /\ \A i \in 1 .. Len(s) + 1 :
              Is("error", (<<v>> \o s)[i]) => i # 1 /\ Is("error", s[i - 1])
<1>1. <<v>> \in Seq(Values) /\ Len(<<v>>) = 1 /\ <<v>>[1] = v
  OBVIOUS
<1>2. /\ <<v>> \o s \in Seq(Values) /\ Len(<<v>> \o s) = Len(s) + 1
      /\ \A i \in 1 .. Len(s) : (<<v>> \o s)[i + 1] = s[i]
  BY <1>1
<1>3. (<<v>> \o s)[1] = v
  BY <1>1
<1>4. ASSUME NEW i \in 1 .. Len(s) + 1, i # 1
      PROVE  (<<v>> \o s)[i] = s[i - 1]
  <2>1. i - 1 \in 1 .. Len(s) /\ i - 1 + 1 = i
    BY <1>4
  <2> QED
    BY <1>2, <2>1
<1> QED
  BY <1>2, <1>3, <1>4

\* Without errors among its arguments, the value and some cells, a function is
\* worth its result.
LEMMA SoundArguments ==
  ASSUME NEW s \in Seq(Values), \A i \in 1 .. Len(s) : ~Is("error", s[i]),
         NEW v \in Values, ~Is("error", v), NEW r
  PROVE  Propagated(<<v>> \o s, r) = r
<1> DEFINE all == <<v>> \o s
<1>1. /\ all \in Seq(Values) /\ Len(all) = Len(s) + 1
      /\ \A i \in 1 .. Len(s) + 1 :
           Is("error", all[i]) => i # 1 /\ Is("error", s[i - 1])
  BY Preceded
<1>2. \A i \in 1 .. Len(s) + 1 : i # 1 => i - 1 \in 1 .. Len(s)
  OBVIOUS
<1>3. \A i \in 1 .. Len(all) : ~Is("error", all[i])
  <2> HIDE DEF all
  <2> QED
    BY <1>1, <1>2
<1> HIDE DEF all
<1>4. Propagated(all, r) = r
  BY <1>1, <1>3, Sound
<1> QED
  BY <1>4 DEF all

\* With one among the cells it is worth the first.
LEMMA UnsoundArguments ==
  ASSUME NEW s \in Seq(Values), NEW k \in 1 .. Len(s), Is("error", s[k]),
         NEW v \in Values, ~Is("error", v), NEW r
  PROVE  /\ Is("error", Propagated(<<v>> \o s, r))
         /\ LET E == {i \in DOMAIN s : Is("error", s[i])}
            IN  Propagated(<<v>> \o s, r) = s[Min(E)]
<1> DEFINE all == <<v>> \o s
           E == {i \in DOMAIN s : Is("error", s[i])}
<1>1. /\ all \in Seq(Values) /\ Len(all) = Len(s) + 1
      /\ \A i \in 1 .. Len(s) : all[i + 1] = s[i]
      /\ \A i \in 1 .. Len(s) + 1 :
           Is("error", all[i]) => i # 1 /\ Is("error", s[i - 1])
  BY Preceded
<1>2. k + 1 \in 1 .. Len(all) /\ Is("error", all[k + 1])
  BY <1>1
<1> HIDE DEF all
<1>3. Is("error", Propagated(all, r))
  BY <1>1, <1>2, Unsound
<1>4. PICK i \in 1 .. k + 1 :
        /\ Propagated(all, r) = all[i] /\ Is("error", all[i])
        /\ \A j \in 1 .. i - 1 : ~Is("error", all[j])
  BY <1>1, <1>2, Unsound
<1>5. i # 1 /\ Is("error", s[i - 1])
  BY <1>1, <1>4
<1>6. i - 1 \in 1 .. Len(s) /\ i - 1 + 1 = i
  BY <1>5
<1>7. all[i] = s[i - 1]
  BY <1>1, <1>6
<1>8. \A j \in 1 .. i - 2 : ~Is("error", s[j])
  <2> SUFFICES ASSUME NEW j \in 1 .. i - 2 PROVE ~Is("error", s[j])
    OBVIOUS
  <2>1. j + 1 \in 1 .. i - 1 /\ j \in 1 .. Len(s)
    BY <1>6
  <2> QED
    BY <1>1, <1>4, <2>1
<1>9. DOMAIN s = 1 .. Len(s)
  OBVIOUS
<1>10. i - 1 \in E /\ \A x \in E : i - 1 <= x
  <2> SUFFICES ASSUME NEW x \in E PROVE i - 1 <= x
    BY <1>5, <1>6, <1>9
  <2>1. x \in 1 .. Len(s) /\ Is("error", s[x])
    BY <1>9
  <2>2. x \notin 1 .. i - 2
    BY <1>8, <2>1
  <2> QED
    BY <1>6, <2>1, <2>2
<1>11. E \in SUBSET Nat
  BY <1>9
<1>12. Min(E) \in E /\ \A x \in E : Min(E) <= x
  <2> HIDE DEF E
  <2> QED
    BY <1>10, <1>11, Least
<1>13. Min(E) = i - 1
  <2> HIDE DEF E
  <2>1. Min(E) \in Nat /\ Min(E) <= i - 1 /\ i - 1 <= Min(E)
    BY <1>10, <1>11, <1>12
  <2> QED
    BY <1>6, <2>1
<1> QED
  BY <1>3, <1>4, <1>7, <1>13 DEF all

------------------------------------------------------------------------------
(* The order of texts and of keys.                                         *)

\* The characters of ASCII are characters, and all of them are numbers.
LEMMA CharactersAre ==
  /\ Characters \subseteq Int /\ \A c \in Characters : c >= 0
  /\ \A c \in 0 .. 127 : c \in Characters
  /\ \A s \in Seq(Characters) : s \in Seq(Int)
<1>1. Characters \subseteq Int /\ \A c \in Characters : c >= 0
  BY CharactersAreCodePoints
<1>2. \A c \in 0 .. 127 : c \in Characters
  BY CharactersAreCodePoints
<1>3. \A s \in Seq(Characters) : s \in Seq(Int)
  BY <1>1, SeqMonotonic
<1> QED
  BY <1>1, <1>2, <1>3

\* Characters are numbers, and texts are indexed from 1.
LEMMA CharactersOf ==
  ASSUME NEW s \in Seq(Characters)
  PROVE  /\ Len(s) \in Nat /\ DOMAIN s = 1 .. Len(s)
         /\ \A i \in 1 .. Len(s) : s[i] \in Characters /\ s[i] \in Int /\ s[i] >= 0
<1>1. Len(s) \in Nat /\ DOMAIN s = 1 .. Len(s)
  OBVIOUS
<1>2. \A i \in 1 .. Len(s) : s[i] \in Characters
  OBVIOUS
<1>3. \A c \in Characters : c \in Int /\ c >= 0
  BY CharactersAre
<1> QED
  BY <1>1, <1>2, <1>3

\* A text folded to lower case is a text of the same length.
LEMMA LowerIs ==
  ASSUME NEW s \in Seq(Characters)
  PROVE  /\ Lower(s) \in Seq(Characters) /\ Len(Lower(s)) = Len(s)
         /\ DOMAIN Lower(s) = 1 .. Len(s)
<1>1. DOMAIN s = 1 .. Len(s) /\ Len(s) \in Nat
  OBVIOUS
<1>2. \A c \in Characters : LowerAscii(c) \in Characters
  <2> SUFFICES ASSUME NEW c \in 65 .. 90 PROVE c + 32 \in Characters
    BY DEF LowerAscii
  <2>1. c + 32 \in 0 .. 127
    OBVIOUS
  <2> QED
    BY <2>1, CharactersAre
<1>3. \A i \in 1 .. Len(s) : LowerAscii(s[i]) \in Characters
  BY <1>2, CharactersOf
<1> QED
  BY <1>1, <1>3 DEF Lower

\* a agrees with b on i characters and has a lesser one next, or none.
Differs(a, b, i) ==
  /\ i \in 0 .. Len(a) /\ i < Len(b)
  /\ \A k \in 1 .. i : a[k] = b[k]
  /\ i = Len(a) \/ (i < Len(a) /\ a[i + 1] < b[i + 1])

\* A text is below another if it differs from it first, and downward.
LEMMA TextLessIs ==
  ASSUME NEW a \in Seq(Characters), NEW b \in Seq(Characters)
  PROVE  TextLess(a, b) <=> \E i \in Nat : Differs(a, b, i)
<1>1. Len(a) \in Nat /\ Len(b) \in Nat
  OBVIOUS
<1>2. ASSUME NEW i \in 0 .. Len(a), i < Len(b)
      PROVE  IsPrefix(SubSeq(a, 1, i), b) <=> \A k \in 1 .. i : a[k] = b[k]
  <2> DEFINE p == SubSeq(a, 1, i)
  <2>1. p \in Seq(Characters) /\ Len(p) = i /\ \A k \in 1 .. i : p[k] = a[k]
    OBVIOUS
  <2> HIDE DEF p
  <2>2. SubSeq(p, 1, i) \in Seq(Characters) /\ SubSeq(b, 1, i) \in Seq(Characters)
    BY <1>1, <1>2, <2>1
  <2>3. /\ Len(SubSeq(p, 1, i)) = i /\ Len(SubSeq(b, 1, i)) = i
        /\ \A k \in 1 .. i : SubSeq(p, 1, i)[k] = p[k] /\ SubSeq(b, 1, i)[k] = b[k]
    BY <1>1, <1>2, <2>1
  <2>4. SubSeq(p, 1, i) = SubSeq(b, 1, i) <=> \A k \in 1 .. i : p[k] = b[k]
    <3>1. ASSUME \A k \in 1 .. i : p[k] = b[k]
          PROVE  SubSeq(p, 1, i) = SubSeq(b, 1, i)
      BY <2>2, <2>3, <3>1, SeqEqual
    <3>2. ASSUME SubSeq(p, 1, i) = SubSeq(b, 1, i)
          PROVE  \A k \in 1 .. i : p[k] = b[k]
      BY <2>3, <3>2
    <3> QED
      BY <3>1, <3>2
  <2>5. IsPrefix(p, b) <=> \A k \in 1 .. i : p[k] = b[k]
    BY <1>1, <1>2, <2>1, <2>4 DEF IsPrefix
  <2> QED
    BY <2>1, <2>5 DEF p
<1>3. ASSUME TextLess(a, b) PROVE \E i \in Nat : Differs(a, b, i)
  <2>1. PICK i \in 0 .. Len(a) :
          /\ IsPrefix(SubSeq(a, 1, i), b)
          /\ IF i = Len(a) THEN i < Len(b) ELSE i < Len(b) /\ a[i + 1] < b[i + 1]
    BY <1>3 DEF TextLess
  <2>2. i < Len(b) /\ i \in Nat
    BY <2>1
  <2>3. \A k \in 1 .. i : a[k] = b[k]
    BY <1>2, <2>1, <2>2
  <2> QED
    BY <1>1, <2>1, <2>2, <2>3 DEF Differs
<1>4. ASSUME NEW i \in Nat, Differs(a, b, i) PROVE TextLess(a, b)
  <2>1. i \in 0 .. Len(a) /\ i < Len(b)
    BY <1>4 DEF Differs
  <2>2. IsPrefix(SubSeq(a, 1, i), b)
    BY <1>2, <1>4, <2>1 DEF Differs
  <2>3. IF i = Len(a) THEN i < Len(b) ELSE i < Len(b) /\ a[i + 1] < b[i + 1]
    BY <1>4 DEF Differs
  <2> QED
    BY <2>1, <2>2, <2>3 DEF TextLess
<1> QED
  BY <1>3, <1>4

\* Of two texts one is less or they are the same, never both; and the order is
\* transitive.
LEMMA TextLessAsymmetric ==
  ASSUME NEW a \in Seq(Characters), NEW b \in Seq(Characters),
         TextLess(a, b), TextLess(b, a)
  PROVE  FALSE
<1>1. PICK i \in Nat : Differs(a, b, i)
  BY TextLessIs
<1>2. PICK j \in Nat : Differs(b, a, j)
  BY TextLessIs
<1>3. \A k \in 1 .. Len(a) : a[k] \in Int
  BY CharactersOf
<1>4. \A k \in 1 .. Len(b) : b[k] \in Int
  BY CharactersOf
<1>5. Len(a) \in Nat /\ Len(b) \in Nat
  OBVIOUS
<1>6. CASE i < j
  BY <1>1, <1>2, <1>3, <1>4, <1>5, <1>6 DEF Differs
<1>7. CASE j < i
  BY <1>1, <1>2, <1>3, <1>4, <1>5, <1>7 DEF Differs
<1>8. CASE i = j
  BY <1>1, <1>2, <1>3, <1>4, <1>5, <1>8 DEF Differs
<1> QED
  BY <1>6, <1>7, <1>8

\* Of two different texts one is below the other.
LEMMA TextLessTotal ==
  ASSUME NEW a \in Seq(Characters), NEW b \in Seq(Characters), a # b
  PROVE  TextLess(a, b) \/ TextLess(b, a)
<1>1. /\ Len(a) \in Nat /\ Len(b) \in Nat
      /\ \A k \in 1 .. Len(a) : a[k] \in Int
      /\ \A k \in 1 .. Len(b) : b[k] \in Int
  BY CharactersOf
<1> DEFINE D == {i \in Nat : /\ i <= Len(a) /\ i <= Len(b)
                             /\ \/ i = Len(a) \/ i = Len(b)
                                \/ a[i + 1] # b[i + 1]}
<1>2. D \in SUBSET Nat
  OBVIOUS
<1>3. D # {}
  <2>1. Len(a) <= Len(b) => Len(a) \in D
    BY <1>1
  <2>2. Len(b) <= Len(a) => Len(b) \in D
    BY <1>1
  <2> QED
    BY <1>1, <2>1, <2>2
<1>4. PICK i \in D : \A k \in D : i <= k
  <2> HIDE DEF D
  <2> QED
    BY <1>2, <1>3, Smallest
<1>5. \A k \in 1 .. i : a[k] = b[k]
  <2> SUFFICES ASSUME NEW k \in 1 .. i, a[k] # b[k] PROVE FALSE
    OBVIOUS
  <2>1. k - 1 \in Nat /\ k - 1 <= Len(a) /\ k - 1 <= Len(b) /\ k - 1 + 1 = k
    BY <1>1, <1>4
  <2>2. k - 1 \in D
    BY <2>1
  <2> HIDE DEF D
  <2>3. i <= k - 1
    BY <1>4, <2>2
  <2>4. i \in Nat
    BY <1>2, <1>4
  <2> QED
    BY <2>3, <2>4
<1>6. ~(i = Len(a) /\ i = Len(b))
  <2> SUFFICES ASSUME i = Len(a), i = Len(b) PROVE FALSE
    OBVIOUS
  <2> QED
    BY <1>5, SeqEqual
<1>7. i \in Nat /\ i <= Len(a) /\ i <= Len(b)
  BY <1>4
<1>8. CASE i = Len(a)
  <2>1. Differs(a, b, i)
    BY <1>1, <1>5, <1>6, <1>7, <1>8 DEF Differs
  <2> QED
    BY <1>7, <2>1, TextLessIs
<1>9. CASE i = Len(b)
  <2>1. Differs(b, a, i)
    BY <1>1, <1>5, <1>6, <1>7, <1>9 DEF Differs
  <2> QED
    BY <1>7, <2>1, TextLessIs
<1>10. CASE i # Len(a) /\ i # Len(b)
  <2>1. a[i + 1] # b[i + 1] /\ i + 1 \in 1 .. Len(a) /\ i + 1 \in 1 .. Len(b)
    BY <1>1, <1>4, <1>7, <1>10
  <2>2. a[i + 1] \in Int /\ b[i + 1] \in Int
    BY <1>1, <2>1
  <2>3. Differs(a, b, i) \/ Differs(b, a, i)
    BY <1>1, <1>5, <1>7, <1>10, <2>1, <2>2 DEF Differs
  <2> QED
    BY <1>7, <2>3, TextLessIs
<1> QED
  BY <1>8, <1>9, <1>10

\* The order of texts is transitive.
LEMMA TextLessTransitive ==
  ASSUME NEW a \in Seq(Characters), NEW b \in Seq(Characters),
         NEW c \in Seq(Characters), TextLess(a, b), TextLess(b, c)
  PROVE  TextLess(a, c)
<1>1. PICK i \in Nat : Differs(a, b, i)
  BY TextLessIs
<1>2. PICK j \in Nat : Differs(b, c, j)
  BY TextLessIs
<1>3. /\ Len(a) \in Nat /\ Len(b) \in Nat /\ Len(c) \in Nat
      /\ \A k \in 1 .. Len(a) : a[k] \in Int
      /\ \A k \in 1 .. Len(b) : b[k] \in Int
      /\ \A k \in 1 .. Len(c) : c[k] \in Int
  BY CharactersOf
<1>4. CASE i < j
  <2>1. Differs(a, c, i)
    BY <1>1, <1>2, <1>3, <1>4 DEF Differs
  <2> QED
    BY <2>1, TextLessIs
<1>5. CASE ~(i < j)
  <2>1. Differs(a, c, j)
    BY <1>1, <1>2, <1>3, <1>5 DEF Differs
  <2> QED
    BY <2>1, TextLessIs
<1> QED
  BY <1>4, <1>5

\* The order of two texts.
LEMMA TextOrderIs ==
  ASSUME NEW x \in Seq(Characters), NEW y \in Seq(Characters),
         NEW z \in Seq(Characters)
  PROVE  /\ TextOrder(x, y) \in {-1, 0, 1}
         /\ TextOrder(x, y) # 1 <=> TextOrder(y, x) # -1
         /\ TextOrder(x, y) # 1 /\ TextOrder(y, z) # 1 => TextOrder(x, z) # 1
<1>3. /\ ~(TextLess(x, y) /\ TextLess(y, x))
      /\ ~(TextLess(z, y) /\ TextLess(y, z))
      /\ ~(TextLess(x, z) /\ TextLess(z, x))
  BY TextLessAsymmetric
<1>4. (TextLess(x, y) \/ x = y) /\ (TextLess(y, z) \/ y = z) => ~TextLess(z, x)
  BY TextLessAsymmetric, TextLessTransitive
<1>5. /\ x = y \/ TextLess(x, y) \/ TextLess(y, x)
      /\ y = z \/ TextLess(y, z) \/ TextLess(z, y)
  BY TextLessTotal
<1>6. /\ TextOrder(x, y) # 1 <=> ~TextLess(y, x)
      /\ TextOrder(y, z) # 1 <=> ~TextLess(z, y)
      /\ TextOrder(x, z) # 1 <=> ~TextLess(z, x)
      /\ TextOrder(y, x) # -1 <=> ~TextLess(y, x)
      /\ TextOrder(x, y) \in {-1, 0, 1}
  BY <1>3 DEF TextOrder
<1> QED
  BY <1>4, <1>5, <1>6

\* What char::to_lowercase makes of a character is a text.
LEMMA LowerCaseIs ==
  /\ \A c \in Characters : LowerCase[c] \in Seq(Characters)
  /\ \A c \in 0 .. 127 : LowerCase[c] = <<LowerAscii(c)>>
BY LowerCaseFolds

\* Texts of ASCII only.
Ascii(s) == \A i \in DOMAIN s : s[i] \in 0 .. 127

\* A text folded character by character.
LEMMA FoldedIs ==
  ASSUME NEW s \in Seq(Characters)
  PROVE  /\ Folded(s) \in Seq(Seq(Characters)) /\ Len(Folded(s)) = Len(s)
         /\ \A i \in 1 .. Len(s) : Folded(s)[i] = LowerCase[s[i]]
<1>1. Len(s) \in Nat /\ DOMAIN s = 1 .. Len(s)
  OBVIOUS
<1>2. \A i \in 1 .. Len(s) : LowerCase[s[i]] \in Seq(Characters)
  BY CharactersOf, LowerCaseIs
<1> QED
  BY <1>1, <1>2 DEF Folded

\* Folded by either folding a text is a text, and in ASCII the same one.
LEMMA FoldedAsIs ==
  ASSUME NEW s \in Seq(Characters)
  PROVE  /\ FoldedAs("ascii", s) \in Seq(Characters)
         /\ FoldedAs("unicode", s) \in Seq(Characters)
         /\ Ascii(s) => FoldedAs("unicode", s) = FoldedAs("ascii", s)
<1> DEFINE t == Folded(s)
<1>1. /\ FoldedAs("ascii", s) = Lower(s)
      /\ FoldedAs("unicode", s) = FlattenSeq(t)
  BY DEF FoldedAs, LowerText
<1>2. /\ t \in Seq(Seq(Characters)) /\ Len(t) = Len(s)
      /\ \A i \in 1 .. Len(s) : t[i] = LowerCase[s[i]]
  BY FoldedIs
<1>3. /\ Lower(s) \in Seq(Characters) /\ Len(Lower(s)) = Len(s)
      /\ Len(s) \in Nat /\ DOMAIN s = 1 .. Len(s)
  BY LowerIs
<1> HIDE DEF t
<1>4. FlattenSeq(t) \in Seq(Characters)
  <2>1. CASE t = <<>>
    <3>1. FlattenSeq(t) = t
      BY <2>1 DEF FlattenSeq
    <3>2. <<>> \in Seq(Characters)
      OBVIOUS
    <3> QED
      BY <2>1, <3>1, <3>2
  <2>2. CASE t # <<>>
    BY <1>2, <2>2, Flattened
  <2> QED
    BY <2>1, <2>2
<1>5. ASSUME Ascii(s) PROVE FlattenSeq(t) = Lower(s)
  <2>1. \A i \in 1 .. Len(s) : t[i] = <<Lower(s)[i]>>
    <3> TAKE i \in 1 .. Len(s)
    <3>1. s[i] \in 0 .. 127 /\ Lower(s)[i] = LowerAscii(s[i])
      BY <1>3, <1>5 DEF Ascii, Lower
    <3>2. LowerCase[s[i]] = <<LowerAscii(s[i])>>
      BY <3>1, LowerCaseIs
    <3>3. t[i] = LowerCase[s[i]]
      BY <1>2
    <3> QED
      BY <3>1, <3>2, <3>3
  <2> QED
    BY <1>2, <1>3, <2>1, FlattenedSingly
<1> QED
  BY <1>1, <1>3, <1>4, <1>5

Foldings == {"ascii", "unicode"}

Proper == {v \in Values : ~Is("error", v)}

\* A value is not of two kinds.
LEMMA OneKind ==
  ASSUME NEW v \in Values, NEW k, NEW l, Is(k, v), Is(l, v)
  PROVE  k = l
<1>1. DOMAIN v = {k} /\ DOMAIN v = {l}
  BY Kinds
<1> QED
  BY <1>1

\* The highest and the lowest of a set of positions.
LEMMA HighestIs ==
  ASSUME NEW S \in SUBSET Nat, NEW p \in S, \A i \in S : i <= p
  PROVE  Highest(S) = {p}
<1>1. p \in Highest(S)
  BY DEF Highest
<1>2. ASSUME NEW i \in Highest(S) PROVE i = p
  <2>1. i \in S /\ p <= i /\ i <= p
    BY DEF Highest
  <2> QED
    BY <2>1
<1> QED
  BY <1>1, <1>2

LEMMA LowestIs ==
  ASSUME NEW S \in SUBSET Nat, NEW p \in S, \A i \in S : p <= i
  PROVE  Lowest(S) = {p}
<1>1. p \in Lowest(S)
  BY DEF Lowest
<1>2. ASSUME NEW i \in Lowest(S) PROVE i = p
  <2>1. i \in S /\ p <= i /\ i <= p
    BY DEF Lowest
  <2> QED
    BY <2>1
<1> QED
  BY <1>1, <1>2

\* Keys of one kind are ordered: the order is -1, 0 or 1, it is turned round
\* with its arguments, and it is transitive.
LEMMA KeyOrderIs ==
  ASSUME NEW a \in Proper, NEW b \in Proper, NEW c \in Proper,
         NEW folding \in Foldings, SameKind(a, b), SameKind(b, c)
  PROVE  /\ KeyOrder(folding, a, b) \in {-1, 0, 1}
         /\ KeyOrder(folding, a, b) # 1 <=> KeyOrder(folding, b, a) # -1
         /\ KeyOrder(folding, a, b) # 1 /\ KeyOrder(folding, b, c) # 1 => KeyOrder(folding, a, c) # 1
<1>1. a \in Values /\ b \in Values /\ c \in Values
  BY DEF Proper
<1>2. \A k : (Is(k, a) <=> Is(k, b)) /\ (Is(k, b) <=> Is(k, c))
  BY DEF SameKind, Is
<1>3. Is("number", a) \/ Is("text", a) \/ Is("boolean", a) \/ Is("blank", a)
  <2>1. PICK k \in KindNames : DOMAIN a = {k}
    BY <1>1, Kinds
  <2>2. ~Is("error", a)
    BY DEF Proper
  <2> QED
    BY <2>1, <2>2 DEF Is, KindNames
<1>4. CASE Is("blank", a)
  <2>1. /\ Is("blank", b) /\ Is("blank", c)
        /\ ~Is("text", a) /\ ~Is("text", b) /\ ~Is("text", c)
    BY <1>1, <1>2, <1>4, OneKind
  <2>2. \A x, y : Is("blank", y) /\ ~Is("text", y) => KeyOrder(folding, x, y) = 0
    BY DEF KeyOrder
  <2>3. /\ KeyOrder(folding, a, b) = 0 /\ KeyOrder(folding, b, a) = 0
        /\ KeyOrder(folding, b, c) = 0 /\ KeyOrder(folding, a, c) = 0
    BY <1>4, <2>1, <2>2
  <2> QED
    BY <2>3
<1>5. CASE Is("number", a)
  <2>1. ~Is("blank", a) /\ ~Is("text", a) /\ ~Is("boolean", a)
    BY <1>1, <1>5, OneKind
  <2>2. a.number \in Int /\ b.number \in Int /\ c.number \in Int
    BY <1>1, <1>2, <1>5, Kinds
  <2>3. /\ KeyOrder(folding, a, b) = Sign(a.number, b.number)
        /\ KeyOrder(folding, b, a) = Sign(b.number, a.number)
        /\ KeyOrder(folding, b, c) = Sign(b.number, c.number)
        /\ KeyOrder(folding, a, c) = Sign(a.number, c.number)
    BY <1>2, <1>5, <2>1 DEF KeyOrder, SameKindOrder
  <2> QED
    BY <2>2, <2>3 DEF Sign
<1>6. CASE Is("text", a)
  <2>1. ~Is("blank", a) /\ ~Is("number", a) /\ ~Is("boolean", a)
    BY <1>1, <1>6, OneKind
  <2>2. /\ a.text \in Seq(Characters) /\ b.text \in Seq(Characters)
        /\ c.text \in Seq(Characters)
    BY <1>1, <1>2, <1>6, Kinds
  <2> DEFINE x == FoldedAs(folding, a.text)
             y == FoldedAs(folding, b.text)
             z == FoldedAs(folding, c.text)
  <2>3. x \in Seq(Characters) /\ y \in Seq(Characters) /\ z \in Seq(Characters)
    BY <2>2, FoldedAsIs DEF Foldings
  <2>4. /\ KeyOrder(folding, a, b) = TextOrder(x, y)
        /\ KeyOrder(folding, b, a) = TextOrder(y, x)
        /\ KeyOrder(folding, b, c) = TextOrder(y, z)
        /\ KeyOrder(folding, a, c) = TextOrder(x, z)
    BY <1>2, <1>6, <2>1 DEF KeyOrder
  <2> HIDE DEF x, y, z
  <2> QED
    BY <2>3, <2>4, TextOrderIs
<1>7. CASE Is("boolean", a)
  <2>1. ~Is("blank", a) /\ ~Is("number", a) /\ ~Is("text", a)
    BY <1>1, <1>7, OneKind
  <2>2. /\ KeyOrder(folding, a, b) = Sign(Truth(a.boolean), Truth(b.boolean))
        /\ KeyOrder(folding, b, a) = Sign(Truth(b.boolean), Truth(a.boolean))
        /\ KeyOrder(folding, b, c) = Sign(Truth(b.boolean), Truth(c.boolean))
        /\ KeyOrder(folding, a, c) = Sign(Truth(a.boolean), Truth(c.boolean))
    BY <1>2, <1>7, <2>1 DEF KeyOrder, SameKindOrder
  <2>3. \A x : Truth(x) \in Int
    BY DEF Truth
  <2> QED
    BY <2>2, <2>3 DEF Sign
<1> QED
  BY <1>3, <1>4, <1>5, <1>6, <1>7

\* What the searches of sorted keys find, whatever the order of the keys.
LEMMA SearchIs ==
  ASSUME NEW folding, NEW v, NEW keys \in Seq(Values), NEW past
  PROVE  LET alike == {i \in DOMAIN keys : SameKind(keys[i], v)}
             beyond == {i \in alike : KeyOrder(folding, keys[i], v) = past}
             before == {i \in alike : \A j \in beyond : i < j}
         IN  /\ before = {} => Search(folding, v, keys, past) = 0
             /\ before # {} => /\ Search(folding, v, keys, past) \in before
                               /\ \A i \in before : i <= Search(folding, v, keys, past)
<1> DEFINE alike == {i \in DOMAIN keys : SameKind(keys[i], v)}
           beyond == {i \in alike : KeyOrder(folding, keys[i], v) = past}
           before == {i \in alike : \A j \in beyond : i < j}
<1>1. Search(folding, v, keys, past) = IF before = {} THEN 0 ELSE Max(before)
  BY DEF Search
<1>2. before \in SUBSET (0 .. Len(keys)) /\ Len(keys) \in Nat
  OBVIOUS
<1>3. before # {} => Max(before) \in before /\ \A i \in before : i <= Max(before)
  <2> HIDE DEF before
  <2> QED
    BY <1>2, Greatest
<1> HIDE DEF before
<1>4. /\ before = {} => Search(folding, v, keys, past) = 0
      /\ before # {} => /\ Search(folding, v, keys, past) \in before
                        /\ \A i \in before : i <= Search(folding, v, keys, past)
  BY <1>1, <1>3
<1> QED
  BY <1>4 DEF before

\* In ordered keys it finds the last that is at most the value.
LEMMA SearchUp ==
  ASSUME NEW folding \in Foldings, NEW v \in Proper, NEW keys \in Seq(Proper),
         Ordered(folding, v, keys)
  PROVE  LET found == {i \in DOMAIN keys : AtMost(folding, keys[i], v)}
         IN  /\ found = {} => Search(folding, v, keys, 1) = 0
             /\ found # {} => Highest(found) = {Search(folding, v, keys, 1)}
<1> DEFINE alike == {i \in DOMAIN keys : SameKind(keys[i], v)}
           beyond == {i \in alike : KeyOrder(folding, keys[i], v) = 1}
           before == {i \in alike : \A j \in beyond : i < j}
           found == {i \in DOMAIN keys : AtMost(folding, keys[i], v)}
<1>1. keys \in Seq(Values) /\ \A i \in DOMAIN keys : keys[i] \in Proper
  BY DEF Proper
<1>2. ASSUME NEW i \in found, NEW j \in beyond
      PROVE  i < j
  <2>1. /\ i \in DOMAIN keys /\ j \in DOMAIN keys
        /\ SameKind(keys[i], v) /\ SameKind(keys[j], v)
        /\ KeyOrder(folding, keys[i], v) # 1 /\ KeyOrder(folding, keys[j], v) = 1
    BY DEF AtMost
  <2>2. ASSUME j < i PROVE FALSE
    <3>1. AtMost(folding, keys[j], keys[i])
      BY <2>1, <2>2 DEF Ordered
    <3>2. KeyOrder(folding, keys[j], v) # 1
      BY <1>1, <2>1, <3>1, KeyOrderIs DEF AtMost
    <3> QED
      BY <2>1, <3>2
  <2>3. i # j /\ i \in Nat /\ j \in Nat
    BY <2>1
  <2> QED
    BY <2>2, <2>3
<1>3. before = found
  <2>1. ASSUME NEW i \in before PROVE i \in found
    <3>1. i \notin beyond /\ i \in DOMAIN keys /\ SameKind(keys[i], v)
      OBVIOUS
    <3> QED
      BY <3>1 DEF AtMost
  <2>2. ASSUME NEW i \in found PROVE i \in before
    <3>1. i \in alike
      BY DEF AtMost
    <3> QED
      BY <1>2, <3>1
  <2> HIDE DEF before, found
  <2> QED
    BY <2>1, <2>2
<1>4. /\ before = {} => Search(folding, v, keys, 1) = 0
      /\ before # {} => /\ Search(folding, v, keys, 1) \in before
                        /\ \A i \in before : i <= Search(folding, v, keys, 1)
  BY ONLY <1>1, SearchIs
<1>5. found \subseteq Nat
  OBVIOUS
<1> HIDE DEF before, found
<1>6. found # {} => Highest(found) = {Search(folding, v, keys, 1)}
  <2> SUFFICES ASSUME found # {} PROVE Highest(found) = {Search(folding, v, keys, 1)}
    OBVIOUS
  <2> DEFINE p == Search(folding, v, keys, 1)
  <2>1. p \in found /\ \A i \in found : i <= p
    BY <1>3, <1>4
  <2> HIDE DEF p
  <2>2. Highest(found) = {p}
    BY <1>5, <2>1, HighestIs
  <2> QED
    BY <2>2 DEF p
<1>7. /\ found = {} => Search(folding, v, keys, 1) = 0
      /\ found # {} => Highest(found) = {Search(folding, v, keys, 1)}
  BY <1>3, <1>4, <1>6
<1> QED
  BY <1>7 DEF found

\* And backwards the last that is at least the value.
LEMMA SearchDown ==
  ASSUME NEW folding \in Foldings, NEW v \in Proper, NEW keys \in Seq(Proper),
         Ordered(folding, v, keys)
  PROVE  LET back == Reverse(keys)
             found == {i \in DOMAIN back : AtMost(folding, v, back[i])}
         IN  /\ found = {} => Search(folding, v, back, -1) = 0
             /\ found # {} => Highest(found) = {Search(folding, v, back, -1)}
<1> DEFINE back == Reverse(keys)
           alike == {i \in DOMAIN back : SameKind(back[i], v)}
           beyond == {i \in alike : KeyOrder(folding, back[i], v) = -1}
           before == {i \in alike : \A j \in beyond : i < j}
           found == {i \in DOMAIN back : AtMost(folding, v, back[i])}
           n == Len(keys)
<1>0. n \in Nat /\ DOMAIN keys = 1 .. n /\ \A i \in 1 .. n : keys[i] \in Proper
  OBVIOUS
<1>1. /\ back \in Seq(Proper) /\ DOMAIN back = 1 .. n
      /\ \A i \in 1 .. n : back[i] = keys[n - i + 1] /\ n - i + 1 \in 1 .. n
  <2>1. \A i \in 1 .. n : n - i + 1 \in 1 .. n
    BY <1>0
  <2>2. back = [i \in 1 .. n |-> keys[n - i + 1]]
    BY DEF Reverse
  <2> HIDE DEF n, back
  <2> QED
    BY <1>0, <2>1, <2>2
<1>2. \A i \in 1 .. n : back[i] \in Proper
  BY <1>0, <1>1
<1> HIDE DEF back, n
<1>3. \A i \in 1 .. n : SameKind(back[i], v) =>
        (AtMost(folding, v, back[i]) <=> KeyOrder(folding, back[i], v) # -1)
  <2> SUFFICES ASSUME NEW i \in 1 .. n, SameKind(back[i], v)
               PROVE  AtMost(folding, v, back[i]) <=> KeyOrder(folding, back[i], v) # -1
    OBVIOUS
  <2>1. SameKind(v, back[i]) /\ SameKind(v, v)
    BY DEF SameKind
  <2>2. KeyOrder(folding, v, back[i]) # 1 <=> KeyOrder(folding, back[i], v) # -1
    BY <1>2, <2>1, KeyOrderIs
  <2> QED
    BY <2>1, <2>2 DEF AtMost
<1>4. ASSUME NEW i \in found, NEW j \in beyond
      PROVE  i < j
  <2>1. /\ i \in 1 .. n /\ j \in 1 .. n
        /\ AtMost(folding, v, back[i]) /\ SameKind(v, back[i])
        /\ SameKind(back[j], v) /\ KeyOrder(folding, back[j], v) = -1
    BY <1>1 DEF AtMost
  <2>2. ASSUME j < i PROVE FALSE
    <3>1. /\ n - i + 1 < n - j + 1 /\ n - i + 1 \in DOMAIN keys
          /\ n - j + 1 \in DOMAIN keys
      BY <1>0, <1>1, <2>1, <2>2
    <3>2. SameKind(back[i], v)
      BY <2>1 DEF SameKind
    <3>3. AtMost(folding, back[i], back[j])
      BY <1>1, <2>1, <3>1, <3>2 DEF Ordered
    <3>4. SameKind(v, back[i]) /\ SameKind(back[i], back[j])
      BY <2>1, <3>2 DEF SameKind
    <3>5. KeyOrder(folding, v, back[j]) # 1
      BY <1>2, <2>1, <3>3, <3>4, KeyOrderIs DEF AtMost
    <3>6. AtMost(folding, v, back[j])
      BY <3>5, <2>1 DEF AtMost, SameKind
    <3> QED
      BY <1>3, <2>1, <3>6
  <2>3. i # j
    BY <1>3, <2>1 DEF SameKind
  <2> QED
    BY <1>0, <2>1, <2>2, <2>3
<1>5. before = found
  <2>1. ASSUME NEW i \in before PROVE i \in found
    <3>1. i \notin beyond /\ i \in 1 .. n /\ SameKind(back[i], v)
      BY <1>1
    <3> QED
      BY <1>1, <1>3, <3>1
  <2>2. ASSUME NEW i \in found PROVE i \in before
    <3>1. i \in alike
      BY DEF AtMost, SameKind
    <3> QED
      BY <1>4, <3>1
  <2> HIDE DEF before, found
  <2> QED
    BY <2>1, <2>2
<1>6. back \in Seq(Values)
  BY <1>1 DEF Proper
<1>7. /\ before = {} => Search(folding, v, back, -1) = 0
      /\ before # {} => /\ Search(folding, v, back, -1) \in before
                        /\ \A i \in before : i <= Search(folding, v, back, -1)
  BY ONLY <1>6, SearchIs
<1>8. found \subseteq Nat
  BY <1>1
<1> HIDE DEF before, found
<1>9. found # {} => Highest(found) = {Search(folding, v, back, -1)}
  <2> SUFFICES ASSUME found # {} PROVE Highest(found) = {Search(folding, v, back, -1)}
    OBVIOUS
  <2> DEFINE p == Search(folding, v, back, -1)
  <2>1. p \in found /\ \A i \in found : i <= p
    BY <1>5, <1>7
  <2> HIDE DEF p
  <2>2. Highest(found) = {p}
    BY <1>8, <2>1, HighestIs
  <2> QED
    BY <2>2 DEF p
<1>10. /\ found = {} => Search(folding, v, back, -1) = 0
       /\ found # {} => Highest(found) = {Search(folding, v, back, -1)}
  BY <1>5, <1>7, <1>9
<1> QED
  BY <1>10 DEF found, back

------------------------------------------------------------------------------
(* Patterns.                                                               *)

\* What characters are folded to, and the tokens of patterns.
Strings == Seq(Int)

LEMMA StringsAre ==
  /\ AnyChar \in Strings /\ AnyChars \in Strings
  /\ \A c \in Characters :
       LowerCase[c] \in Strings /\ LowerCase[c] # AnyChar /\ LowerCase[c] # AnyChars
<1>1. AnyChar \in Strings /\ AnyChars \in Strings
  BY DEF AnyChar, AnyChars, Strings
<1>2. ASSUME NEW c \in Characters
      PROVE  LowerCase[c] \in Strings /\ LowerCase[c] # AnyChar /\ LowerCase[c] # AnyChars
  <2> DEFINE t == LowerCase[c]
  <2>1. t \in Seq(Characters)
    BY LowerCaseIs
  <2> HIDE DEF t
  <2>2. t \in Strings
    BY <2>1, CharactersAre DEF Strings
  <2>3. \A i \in 1 .. Len(t) : t[i] >= 0
    BY <2>1, CharactersOf
  <2>4. /\ Len(AnyChar) = 1 /\ AnyChar[1] = -1
        /\ Len(AnyChars) = 1 /\ AnyChars[1] = -2
    BY DEF AnyChar, AnyChars
  <2>5. ASSUME t = AnyChar PROVE FALSE
    <3>1. Len(t) = 1 /\ t[1] = -1
      BY <2>4, <2>5
    <3>2. t[1] >= 0
      BY <2>3, <3>1
    <3> QED
      BY <3>1, <3>2
  <2>6. ASSUME t = AnyChars PROVE FALSE
    <3>1. Len(t) = 1 /\ t[1] = -2
      BY <2>4, <2>6
    <3>2. t[1] >= 0
      BY <2>3, <3>1
    <3> QED
      BY <3>1, <3>2
  <2> QED
    BY <2>2, <2>5, <2>6 DEF t
<1> QED
  BY <1>1, <1>2

\* A folded text is a sequence of strings.
LEMMA FoldedStrings ==
  ASSUME NEW s \in Seq(Characters)
  PROVE  /\ Folded(s) \in Seq(Strings) /\ Len(Folded(s)) = Len(s)
         /\ \A i \in 1 .. Len(s) :
              /\ Folded(s)[i] = LowerCase[s[i]]
              /\ Folded(s)[i] # AnyChar /\ Folded(s)[i] # AnyChars
<1>1. /\ Folded(s) \in Seq(Seq(Characters)) /\ Len(Folded(s)) = Len(s)
      /\ \A i \in 1 .. Len(s) : Folded(s)[i] = LowerCase[s[i]] /\ s[i] \in Characters
  BY FoldedIs, CharactersOf
<1>2. \A i \in 1 .. Len(s) :
        Folded(s)[i] \in Strings /\ Folded(s)[i] # AnyChar /\ Folded(s)[i] # AnyChars
  BY <1>1, StringsAre
<1>3. Folded(s) \in Seq(Strings)
  <2> DEFINE t == Folded(s)
  <2> HIDE DEF t
  <2>1. t \in Seq(Seq(Characters)) /\ \A i \in 1 .. Len(t) : t[i] \in Strings
    BY <1>1, <1>2 DEF t
  <2> QED
    BY <2>1 DEF t
<1> QED
  BY <1>1, <1>2, <1>3

\* One character of a pattern.
TokenStep(done, c) ==
  CASE done.open /\ c \in {Question, Star, Tilde} ->
         [tokens |-> Append(done.tokens, LowerCase[c]), open |-> FALSE]
    [] done.open /\ c \notin {Question, Star, Tilde} ->
         [tokens |-> done.tokens \o <<LowerCase[Tilde], LowerCase[c]>>, open |-> FALSE]
    [] ~done.open /\ c = Tilde -> [done EXCEPT !.open = TRUE]
    [] ~done.open /\ c = Question ->
         [done EXCEPT !.tokens = Append(@, AnyChar)]
    [] ~done.open /\ c = Star ->
         [done EXCEPT !.tokens = Append(@, AnyChars)]
    [] OTHER -> [done EXCEPT !.tokens = Append(@, LowerCase[c])]

TokenFold(s, g) ==
  g = [d \in SUBSET DOMAIN s |->
         IF d = {} THEN [tokens |-> <<>>, open |-> FALSE]
         ELSE TokenStep(g[d \ {Max(d)}], s[Max(d)])]

LEMMA TokensAreFolded ==
  ASSUME NEW p
  PROVE  LET end == (CHOOSE g : TokenFold(p, g))[DOMAIN p]
         IN  Tokens(p) = IF end.open THEN Append(end.tokens, LowerCase[Tilde])
                         ELSE end.tokens
BY Zenon DEF TokenFold, Tokens, FoldLeft, MapThenFoldSet, TokenStep

TokenStates == [tokens : Seq(Strings), open : BOOLEAN]

LEMMA FieldSet ==
  ASSUME NEW T, NEW O, NEW r \in [tokens : T, open : O], NEW t \in T, NEW o \in O
  PROVE  /\ [r EXCEPT !.tokens = t] \in [tokens : T, open : O]
         /\ [r EXCEPT !.open = o] \in [tokens : T, open : O]
         /\ [r EXCEPT !.tokens = t] = [tokens |-> t, open |-> r.open]
OBVIOUS

\* What one step of the reading of a pattern adds.
LEMMA TokenStepIs ==
  ASSUME NEW done \in TokenStates, NEW c \in Characters
  PROVE  /\ TokenStep(done, c) \in TokenStates
         /\ ~done.open /\ c \notin {Question, Star, Tilde} =>
              TokenStep(done, c) = [tokens |-> Append(done.tokens, LowerCase[c]), open |-> FALSE]
<1>1. LowerCase[c] \in Strings /\ LowerCase[Tilde] \in Strings
  <2>1. Tilde \in Characters
    BY CharactersAre DEF Tilde
  <2> QED
    BY <2>1, StringsAre
<1>2. done.tokens \in Seq(Strings) /\ done.open \in BOOLEAN
  BY DEF TokenStates
<1>3. /\ Append(done.tokens, LowerCase[c]) \in Seq(Strings)
      /\ Append(done.tokens, AnyChar) \in Seq(Strings)
      /\ Append(done.tokens, AnyChars) \in Seq(Strings)
      /\ done.tokens \o <<LowerCase[Tilde], LowerCase[c]>> \in Seq(Strings)
  BY <1>1, <1>2, StringsAre
<1>4. \A t \in Seq(Strings) :
        /\ [tokens |-> t, open |-> FALSE] \in TokenStates
        /\ [done EXCEPT !.tokens = t] \in TokenStates
        /\ [done EXCEPT !.open = TRUE] \in TokenStates
  <2> TAKE t \in Seq(Strings)
  <2>1. \A o \in BOOLEAN : [tokens |-> t, open |-> o] \in TokenStates
    BY DEF TokenStates
  <2> QED
    BY <2>1, FieldSet DEF TokenStates
<1>5. [done EXCEPT !.tokens = Append(@, LowerCase[c])]
        = [tokens |-> Append(done.tokens, LowerCase[c]), open |-> done.open]
  BY <1>2, <1>3, FieldSet DEF TokenStates
<1>6. CASE done.open /\ c \in {Question, Star, Tilde}
  <2>1. TokenStep(done, c) = [tokens |-> Append(done.tokens, LowerCase[c]), open |-> FALSE]
    BY <1>6 DEF TokenStep
  <2> QED
    BY <1>3, <1>4, <1>6, <2>1
<1>7. CASE done.open /\ c \notin {Question, Star, Tilde}
  <2>1. TokenStep(done, c) = [tokens |-> done.tokens \o <<LowerCase[Tilde], LowerCase[c]>>, open |-> FALSE]
    BY <1>7 DEF TokenStep
  <2> QED
    BY <1>3, <1>4, <1>7, <2>1
<1>8. CASE ~done.open /\ c = Tilde
  <2>1. TokenStep(done, c) = [done EXCEPT !.open = TRUE]
    BY <1>8 DEF TokenStep, Tilde, Question, Star
  <2> QED
    BY <1>2, <1>4, <1>8, <2>1
<1>9. CASE ~done.open /\ c = Question
  <2>1. TokenStep(done, c) = [done EXCEPT !.tokens = Append(@, AnyChar)]
    BY <1>9 DEF TokenStep, Tilde, Question, Star
  <2> QED
    BY <1>3, <1>4, <1>9, <2>1
<1>10. CASE ~done.open /\ c = Star
  <2>1. TokenStep(done, c) = [done EXCEPT !.tokens = Append(@, AnyChars)]
    BY <1>10 DEF TokenStep, Tilde, Question, Star
  <2> QED
    BY <1>3, <1>4, <1>10, <2>1
<1>11. CASE ~done.open /\ c \notin {Question, Star, Tilde}
  <2>1. TokenStep(done, c) = [done EXCEPT !.tokens = Append(@, LowerCase[c])]
    BY <1>11 DEF TokenStep
  <2>2. done.open = FALSE
    BY <1>2, <1>11
  <2> QED
    BY <1>3, <1>4, <1>5, <2>1, <2>2
<1> QED
  BY <1>2, <1>6, <1>7, <1>8, <1>9, <1>10, <1>11

LEMMA TokenFoldExists ==
  ASSUME NEW s \in Seq(Characters)
  PROVE  \E g : TokenFold(s, g)
<1> DEFINE D == DOMAIN s
           b == [tokens |-> <<>>, open |-> FALSE]
           c == [d \in (SUBSET D) \ {{}} |-> Max(d)]
           F == [x \in D \X TokenStates |-> TokenStep(x[2], s[x[1]])]
<1>1. IsFiniteSet(D) /\ D = 1 .. Len(s) /\ Len(s) \in Nat
  BY FS_Interval
<1>2. b \in TokenStates
  BY DEF TokenStates
<1>3. \A d \in (SUBSET D) \ {{}} : Max(d) \in d
  <2> SUFFICES ASSUME NEW d \in SUBSET D, d # {} PROVE Max(d) \in d
    OBVIOUS
  <2>1. d \in SUBSET (0 .. Len(s))
    BY <1>1
  <2> QED
    BY <1>1, <2>1, Greatest
<1>4. Chooses(c, D)
  BY <1>3 DEF Chooses
<1>5. F \in [D \X TokenStates -> TokenStates]
  <2>1. \A x \in D \X TokenStates : s[x[1]] \in Characters /\ x[2] \in TokenStates
    OBVIOUS
  <2>2. \A x \in D \X TokenStates : TokenStep(x[2], s[x[1]]) \in TokenStates
    BY <2>1, TokenStepIs
  <2> QED
    BY <2>2
<1>6. PICK g \in [SUBSET D -> TokenStates] :
        FoldsBy(g, D, b, c, F)
  <2> HIDE DEF D, b, c, F
  <2> QED
    BY <1>1, <1>2, <1>4, <1>5, SetRecursion
<1>7. \A d \in SUBSET D : d # {} =>
        F[<<c[d], g[d \ {c[d]}]>>] = TokenStep(g[d \ {Max(d)}], s[Max(d)])
  <2> SUFFICES ASSUME NEW d \in SUBSET D, d # {}
               PROVE  F[<<c[d], g[d \ {c[d]}]>>]
                        = TokenStep(g[d \ {Max(d)}], s[Max(d)])
    OBVIOUS
  <2>1. c[d] = Max(d) /\ Max(d) \in D /\ d \ {Max(d)} \in SUBSET D
    BY <1>3
  <2>2. g[d \ {Max(d)}] \in TokenStates
    BY <2>1
  <2>3. \A i \in D, t \in TokenStates : F[<<i, t>>] = TokenStep(t, s[i])
    OBVIOUS
  <2> HIDE DEF F, c, D
  <2> QED
    BY <2>1, <2>2, <2>3
<1>8. TokenFold(s, g)
  <2>1. g = [d \in SUBSET D |-> g[d]]
    BY <1>6
  <2>2. \A d \in SUBSET D :
          g[d] = IF d = {} THEN b ELSE TokenStep(g[d \ {Max(d)}], s[Max(d)])
    <3> HIDE DEF F, c
    <3> QED
      BY <1>6, <1>7 DEF FoldsBy
  <2>3. g = [d \in SUBSET D |->
               IF d = {} THEN b ELSE TokenStep(g[d \ {Max(d)}], s[Max(d)])]
    <3> HIDE DEF D, b
    <3> QED
      BY <2>1, <2>2
  <2> QED
    BY <2>3 DEF TokenFold
<1> QED
  BY <1>8

\* The tokens of a pattern are a sequence, without wildcards its characters.
LEMMA TokensIs ==
  ASSUME NEW p \in Seq(Characters)
  PROVE  /\ Tokens(p) \in Seq(Strings)
         /\ (\A i \in DOMAIN p : p[i] \notin {Star, Question, Tilde}) =>
              Tokens(p) = Folded(p)
<1> DEFINE n == Len(p)
           g == CHOOSE g : TokenFold(p, g)
           Plain == \A i \in DOMAIN p : p[i] \notin {Star, Question, Tilde}
           Good(k) == /\ g[1 .. k] \in TokenStates
                      /\ Plain => /\ g[1 .. k].open = FALSE
                                  /\ Len(g[1 .. k].tokens) = k
                                  /\ \A i \in 1 .. k : g[1 .. k].tokens[i] = LowerCase[p[i]]
           Goods == {k \in 0 .. n : Good(k)}
<1>1. n \in Nat /\ DOMAIN p = 1 .. n /\ \A i \in 1 .. n : p[i] \in Characters
  BY CharactersOf
<1>2. Plain => \A i \in 1 .. n : p[i] \notin {Star, Question, Tilde}
  BY <1>1
<1>3. \E h : TokenFold(p, h)
  BY TokenFoldExists
<1>4. TokenFold(p, g)
  BY <1>3
<1>5. Tokens(p) = LET end == g[1 .. n]
                  IN  IF end.open THEN Append(end.tokens, LowerCase[Tilde])
                      ELSE end.tokens
  BY <1>1, TokensAreFolded
<1> HIDE DEF g
<1>6. \A d \in SUBSET (1 .. n) :
        g[d] = IF d = {} THEN [tokens |-> <<>>, open |-> FALSE]
               ELSE TokenStep(g[d \ {Max(d)}], p[Max(d)])
  BY <1>1, <1>4 DEF TokenFold
<1>7. 0 \in Goods
  <2>1. 1 .. 0 = {} /\ 1 .. 0 \in SUBSET (1 .. n)
    OBVIOUS
  <2>2. g[1 .. 0] = [tokens |-> <<>>, open |-> FALSE]
    BY <1>6, <2>1
  <2>3. /\ g[1 .. 0] \in TokenStates /\ g[1 .. 0].open = FALSE
        /\ Len(g[1 .. 0].tokens) = 0
    BY <2>2 DEF TokenStates
  <2> QED
    BY <1>1, <2>3
<1>8. ASSUME NEW k \in 0 .. n - 1, k \in Goods PROVE k + 1 \in Goods
  <2> HIDE DEF n
  <2> DEFINE d == 1 .. k + 1
             was == g[1 .. k]
  <2>1. k + 1 \in 1 .. n /\ k \in Nat /\ k + 1 \in 0 .. n
    BY <1>1
  <2>2. Max(d) = k + 1 /\ d \ {k + 1} = 1 .. k /\ d # {} /\ d \in SUBSET (1 .. n)
    <3>1. k + 1 \in d /\ \A x \in d : x <= k + 1 /\ x \in Int
      OBVIOUS
    <3>2. d \in SUBSET (0 .. k + 1) /\ d # {} /\ k + 1 \in Nat
      BY <2>1, <3>1
    <3> HIDE DEF d
    <3>3. Max(d) \in d /\ \A x \in d : x <= Max(d)
      BY <3>2, Greatest
    <3>4. Max(d) = k + 1
      BY <3>1, <3>3
    <3>5. (1 .. k + 1) \ {k + 1} = 1 .. k /\ (1 .. k + 1) \in SUBSET (1 .. n)
      BY <1>1, <2>1
    <3> QED
      BY <3>1, <3>4, <3>5 DEF d
  <2>3. g[d] = TokenStep(was, p[k + 1])
    <3> HIDE DEF d
    <3> QED
      BY <1>6, <2>2
  <2>4. was \in TokenStates /\ p[k + 1] \in Characters
    <3>1. p[k + 1] \in Characters
      BY <1>1, <2>1
    <3> QED
      BY <1>8, <3>1
  <2>5. g[d] \in TokenStates
    BY <2>3, <2>4, TokenStepIs
  <2>6. ASSUME Plain
        PROVE  /\ g[d].open = FALSE /\ Len(g[d].tokens) = k + 1
               /\ \A i \in 1 .. k + 1 : g[d].tokens[i] = LowerCase[p[i]]
    <3>1. /\ was.open = FALSE /\ Len(was.tokens) = k
          /\ \A i \in 1 .. k : was.tokens[i] = LowerCase[p[i]]
      BY <1>8, <2>6
    <3>2. p[k + 1] \notin {Question, Star, Tilde}
      BY <1>2, <2>1, <2>6
    <3>3. g[d] = [tokens |-> Append(was.tokens, LowerCase[p[k + 1]]), open |-> FALSE]
      BY <2>3, <2>4, <3>1, <3>2, TokenStepIs
    <3>4. was.tokens \in Seq(Strings) /\ LowerCase[p[k + 1]] \in Strings
      BY <2>4, StringsAre DEF TokenStates
    <3> HIDE DEF was, d
    <3>5. g[d].open = FALSE /\ g[d].tokens = Append(was.tokens, LowerCase[p[k + 1]])
      BY <3>3
    <3>6. /\ Len(Append(was.tokens, LowerCase[p[k + 1]])) = k + 1
          /\ \A i \in 1 .. k + 1 : Append(was.tokens, LowerCase[p[k + 1]])[i] = LowerCase[p[i]]
      <4> DEFINE x == was.tokens
                 e == LowerCase[p[k + 1]]
      <4>1. /\ x \in Seq(Strings) /\ Len(x) = k /\ e \in Strings
            /\ \A i \in 1 .. k : x[i] = LowerCase[p[i]]
        BY <3>1, <3>4
      <4>2. e = LowerCase[p[k + 1]]
        OBVIOUS
      <4> HIDE DEF x, e
      <4>3. /\ Len(Append(x, e)) = k + 1
            /\ \A i \in 1 .. k : Append(x, e)[i] = x[i]
            /\ Append(x, e)[k + 1] = e
        BY <2>1, <4>1
      <4>4. \A i \in 1 .. k + 1 : i \in 1 .. k \/ i = k + 1
        BY <2>1
      <4>5. \A i \in 1 .. k + 1 : Append(x, e)[i] = LowerCase[p[i]]
        BY <4>1, <4>2, <4>3, <4>4
      <4> QED
        BY <4>3, <4>5 DEF x, e
    <3> QED
      BY <3>5, <3>6
  <2>7. Good(k + 1)
    BY <2>5, <2>6
  <2> HIDE DEF Good
  <2> QED
    BY <2>1, <2>7
<1>9. Good(n)
  <2>1. n \in Goods
    <3> HIDE DEF Goods, n
    <3>1. n \in 0 .. n
      BY <1>1
    <3> QED
      BY <1>1, <1>7, <1>8, <3>1, UpTo
  <2> HIDE DEF Good
  <2> QED
    BY <2>1
<1>10. Tokens(p) \in Seq(Strings)
  <2>1. g[1 .. n].tokens \in Seq(Strings)
    BY <1>9 DEF TokenStates
  <2>2. LowerCase[Tilde] \in Strings
    <3>1. Tilde \in 0 .. 127
      BY DEF Tilde
    <3>2. Tilde \in Characters
      BY <3>1, CharactersAre
    <3> QED
      BY <3>2, StringsAre
  <2> QED
    BY <1>5, <2>1, <2>2
<1>11. ASSUME Plain PROVE Tokens(p) = Folded(p)
  <2> DEFINE t == g[1 .. n].tokens
  <2>1. Tokens(p) = t /\ Len(t) = n /\ \A i \in 1 .. n : t[i] = LowerCase[p[i]]
    BY <1>5, <1>9, <1>11
  <2>2. t \in Seq(Strings)
    BY <1>9 DEF TokenStates
  <2> HIDE DEF t
  <2> QED
    BY <2>1, <2>2, FoldedStrings, SeqEqual
<1> QED
  BY <1>10, <1>11

\* Token k takes the characters of s after the first a, up to the first b.
Takes(tokens, s, k, a, b) ==
  IF tokens[k] = AnyChars THEN b >= a
  ELSE b = a + 1 /\ tokens[k] \in {AnyChar, s[b]}

\* The first i tokens can be cut from the first j characters.
Cuts(tokens, s, i, j) ==
  \E cut \in [0 .. i -> 0 .. Len(s)] :
    /\ cut[0] = 0 /\ cut[i] = j
    /\ \A k \in 1 .. i : Takes(tokens, s, k, cut[k - 1], cut[k])

\* What wildcard_match makes of i tokens and j characters, from what m says of
\* fewer.
Matches(tokens, s, m, i, j) ==
  IF i = 0 THEN j = 0
  ELSE IF tokens[i] = AnyChars
  THEN m[<<i - 1, j>>] \/ (j > 0 /\ m[<<i, j - 1>>])
  ELSE j > 0 /\ tokens[i] \in {AnyChar, s[j]} /\ m[<<i - 1, j - 1>>]

Pairs(tokens, s) == (0 .. Len(tokens)) \X (0 .. Len(s))

\* Without tokens only the empty text is cut.
LEMMA CutsAtNone ==
  ASSUME NEW tokens \in Seq(Strings), NEW s \in Seq(Strings), NEW j \in 0 .. Len(s)
  PROVE  Cuts(tokens, s, 0, j) <=> j = 0
<1>1. ASSUME Cuts(tokens, s, 0, j) PROVE j = 0
  BY <1>1 DEF Cuts
<1>2. ASSUME j = 0 PROVE Cuts(tokens, s, 0, j)
  <2> DEFINE cut == [k \in 0 .. 0 |-> 0]
  <2>1. cut \in [0 .. 0 -> 0 .. Len(s)] /\ cut[0] = 0
    OBVIOUS
  <2>2. \A k \in 1 .. 0 : Takes(tokens, s, k, cut[k - 1], cut[k])
    OBVIOUS
  <2> HIDE DEF cut
  <2> QED
    BY <1>2, <2>1, <2>2 DEF Cuts
<1> QED
  BY <1>1, <1>2

\* The last piece is cut from where the others end.
LEMMA CutsAtLast ==
  ASSUME NEW tokens \in Seq(Strings), NEW s \in Seq(Strings),
         NEW i \in 1 .. Len(tokens), NEW j \in 0 .. Len(s)
  PROVE  Cuts(tokens, s, i, j) <=>
           \E a \in 0 .. Len(s) : Cuts(tokens, s, i - 1, a) /\ Takes(tokens, s, i, a, j)
<1>0. i \in Nat /\ i - 1 \in Nat /\ i # 0 /\ 0 .. i - 1 \subseteq 0 .. i
  OBVIOUS
<1>1. ASSUME Cuts(tokens, s, i, j)
      PROVE  \E a \in 0 .. Len(s) :
               Cuts(tokens, s, i - 1, a) /\ Takes(tokens, s, i, a, j)
  <2>1. PICK cut \in [0 .. i -> 0 .. Len(s)] :
          /\ cut[0] = 0 /\ cut[i] = j
          /\ \A k \in 1 .. i : Takes(tokens, s, k, cut[k - 1], cut[k])
    BY <1>1 DEF Cuts
  <2> DEFINE part == [k \in 0 .. i - 1 |-> cut[k]]
  <2>2. part \in [0 .. i - 1 -> 0 .. Len(s)] /\ part[0] = 0 /\ part[i - 1] = cut[i - 1]
    BY <1>0, <2>1
  <2>3. ASSUME NEW k \in 1 .. i - 1
        PROVE  Takes(tokens, s, k, part[k - 1], part[k])
    <3>1. part[k - 1] = cut[k - 1] /\ part[k] = cut[k] /\ k \in 1 .. i
      BY <1>0
    <3> HIDE DEF part
    <3> QED
      BY <2>1, <3>1
  <2> HIDE DEF part
  <2>4. Cuts(tokens, s, i - 1, cut[i - 1])
    BY <2>2, <2>3 DEF Cuts
  <2>5. cut[i - 1] \in 0 .. Len(s) /\ i \in 1 .. i
    BY <1>0
  <2> QED
    BY <2>1, <2>4, <2>5
<1>2. ASSUME NEW a \in 0 .. Len(s), Cuts(tokens, s, i - 1, a),
             Takes(tokens, s, i, a, j)
      PROVE  Cuts(tokens, s, i, j)
  <2>1. PICK part \in [0 .. i - 1 -> 0 .. Len(s)] :
          /\ part[0] = 0 /\ part[i - 1] = a
          /\ \A k \in 1 .. i - 1 : Takes(tokens, s, k, part[k - 1], part[k])
    BY <1>2 DEF Cuts
  <2> DEFINE cut == [k \in 0 .. i |-> IF k = i THEN j ELSE part[k]]
  <2>2. cut \in [0 .. i -> 0 .. Len(s)] /\ cut[0] = 0 /\ cut[i] = j
    <3>1. \A k \in 0 .. i : k # i => k \in 0 .. i - 1
      BY <1>0
    <3> QED
      BY <1>0, <2>1, <3>1
  <2>3. ASSUME NEW k \in 1 .. i
        PROVE  Takes(tokens, s, k, cut[k - 1], cut[k])
    <3>1. k - 1 \in 0 .. i /\ k - 1 # i /\ k \in 0 .. i
      BY <1>0
    <3>2. cut[k - 1] = part[k - 1]
      BY <3>1
    <3>3. CASE k = i
      <4>1. cut[k] = j /\ part[k - 1] = a
        BY <2>1, <3>3
      <4> HIDE DEF cut
      <4> QED
        BY <1>2, <3>2, <3>3, <4>1
    <3>4. CASE k # i
      <4>1. cut[k] = part[k] /\ k \in 1 .. i - 1
        BY <3>1, <3>4
      <4> HIDE DEF cut
      <4> QED
        BY <2>1, <3>2, <4>1
    <3> QED
      BY <3>3, <3>4
  <2> HIDE DEF cut
  <2> QED
    BY <2>2, <2>3 DEF Cuts
<1> QED
  BY <1>1, <1>2

\* Cuts keeps the equations of wildcard_match.
LEMMA CutsMatch ==
  ASSUME NEW tokens \in Seq(Strings), NEW s \in Seq(Strings),
         NEW i \in 0 .. Len(tokens), NEW j \in 0 .. Len(s),
         NEW m, \A c \in Pairs(tokens, s) :
                  c[1] + c[2] < i + j => (m[c] <=> Cuts(tokens, s, c[1], c[2]))
  PROVE  Matches(tokens, s, m, i, j) <=> Cuts(tokens, s, i, j)
<1>1. CASE i = 0
  BY <1>1, CutsAtNone DEF Matches
<1>2. CASE i # 0
  <2>1. i \in 1 .. Len(tokens) /\ Len(s) \in Nat /\ i \in Nat /\ j \in Nat
    BY <1>2
  <2>2. \A a \in 0 .. Len(s) : a <= j =>
          (m[<<i - 1, a>>] <=> Cuts(tokens, s, i - 1, a))
    <3> TAKE a \in 0 .. Len(s)
    <3>1. a <= j => <<i - 1, a>> \in Pairs(tokens, s) /\ i - 1 + a < i + j
      BY <2>1 DEF Pairs
    <3> QED
      BY <3>1
  <2>3. j > 0 => (m[<<i, j - 1>>] <=> Cuts(tokens, s, i, j - 1))
    <3>1. j > 0 => <<i, j - 1>> \in Pairs(tokens, s) /\ i + j - 1 < i + j
      BY <2>1 DEF Pairs
    <3> QED
      BY <2>1, <3>1
  <2>4. CASE tokens[i] = AnyChars
    <3>1. Matches(tokens, s, m, i, j)
            <=> Cuts(tokens, s, i - 1, j) \/ (j > 0 /\ Cuts(tokens, s, i, j - 1))
      BY <1>2, <2>1, <2>2, <2>3, <2>4 DEF Matches
    <3>2. Cuts(tokens, s, i, j)
            <=> \E a \in 0 .. Len(s) : Cuts(tokens, s, i - 1, a) /\ j >= a
      BY <2>1, <2>4, CutsAtLast DEF Takes
    <3>3. j > 0 => (Cuts(tokens, s, i, j - 1)
            <=> \E a \in 0 .. Len(s) : Cuts(tokens, s, i - 1, a) /\ j - 1 >= a)
      <4>1. j > 0 => j - 1 \in 0 .. Len(s)
        BY <2>1
      <4> QED
        BY <2>1, <2>4, <4>1, CutsAtLast DEF Takes
    <3> QED
      BY <2>1, <3>1, <3>2, <3>3
  <2>5. CASE tokens[i] # AnyChars
    <3>1. Matches(tokens, s, m, i, j)
            <=> /\ j > 0 /\ tokens[i] \in {AnyChar, s[j]}
                /\ Cuts(tokens, s, i - 1, j - 1)
      <4>1. j > 0 => j - 1 \in 0 .. Len(s) /\ j - 1 <= j
        BY <2>1
      <4> QED
        BY <1>2, <2>2, <2>5, <4>1 DEF Matches
    <3>2. Cuts(tokens, s, i, j)
            <=> \E a \in 0 .. Len(s) :
                  /\ Cuts(tokens, s, i - 1, a)
                  /\ j = a + 1 /\ tokens[i] \in {AnyChar, s[j]}
      <4>1. Cuts(tokens, s, i, j)
              <=> \E a \in 0 .. Len(s) :
                    Cuts(tokens, s, i - 1, a) /\ Takes(tokens, s, i, a, j)
        BY <2>1, CutsAtLast
      <4>2. \A a : Takes(tokens, s, i, a, j)
                     <=> j = a + 1 /\ tokens[i] \in {AnyChar, s[j]}
        BY <2>5 DEF Takes
      <4> QED
        BY <4>1, <4>2
    <3> QED
      BY <2>1, <3>1, <3>2
  <2> QED
    BY <2>4, <2>5
<1> QED
  BY <1>1, <1>2

\* m is the function wildcard_match fills in.
MatchedBy(tokens, s, m) ==
  m = [c \in (0 .. Len(tokens)) \X (0 .. Len(s)) |->
        LET i == c[1]
            j == c[2]
        IN  IF i = 0 THEN j = 0
            ELSE IF tokens[i] = AnyChars
            THEN m[<<i - 1, j>>] \/ (j > 0 /\ m[<<i, j - 1>>])
            ELSE /\ j > 0
                 /\ tokens[i] \in {AnyChar, s[j]}
                 /\ m[<<i - 1, j - 1>>]]

LEMMA TokensMatchIs ==
  ASSUME NEW tokens, NEW s
  PROVE  TokensMatch(tokens, s)
           = (CHOOSE m : MatchedBy(tokens, s, m))[<<Len(tokens), Len(s)>>]
BY Zenon DEF TokensMatch, MatchedBy

LEMMA MatchedByIs ==
  ASSUME NEW tokens, NEW s, NEW m
  PROVE  MatchedBy(tokens, s, m)
           <=> m = [c \in Pairs(tokens, s) |-> Matches(tokens, s, m, c[1], c[2])]
BY DEF Matches, MatchedBy, Pairs

\* The table of wildcard_match says whether the text can be cut.
LEMMA MatchesCut ==
  ASSUME NEW tokens \in Seq(Strings), NEW s \in Seq(Strings)
  PROVE  /\ TokensMatch(tokens, s) <=> CutsInto(tokens, s)
         /\ TokensMatch(tokens, s) \in BOOLEAN
<1> DEFINE P == Pairs(tokens, s)
           Keeps(m) == m = [c \in P |-> Matches(tokens, s, m, c[1], c[2])]
           g == [c \in P |-> Cuts(tokens, s, c[1], c[2])]
           m == CHOOSE m : MatchedBy(tokens, s, m)
<1>0. Len(s) \in Nat /\ Len(tokens) \in Nat
  OBVIOUS
<1>1. TokensMatch(tokens, s) = m[<<Len(tokens), Len(s)>>]
  BY TokensMatchIs
<1>2. \A c \in P : c[1] \in 0 .. Len(tokens) /\ c[2] \in 0 .. Len(s)
  BY DEF Pairs
<1>3. \A c \in P : Matches(tokens, s, g, c[1], c[2]) <=> Cuts(tokens, s, c[1], c[2])
  <2> TAKE c \in P
  <2>1. \A d \in P : g[d] <=> Cuts(tokens, s, d[1], d[2])
    OBVIOUS
  <2> HIDE DEF g
  <2> QED
    BY <1>2, <2>1, CutsMatch
<1>4. Keeps(g)
  <2>1. \A c \in P : Cuts(tokens, s, c[1], c[2]) = Matches(tokens, s, g, c[1], c[2])
    <3>1. \A c \in P : Cuts(tokens, s, c[1], c[2]) \in BOOLEAN
      BY DEF Cuts
    <3>2. \A c \in P : Matches(tokens, s, g, c[1], c[2]) \in BOOLEAN
      BY DEF Matches
    <3> HIDE DEF g
    <3> QED
      BY <1>3, <3>1, <3>2
  <2>2. g = [c \in P |-> Matches(tokens, s, g, c[1], c[2])]
    BY <2>1
  <2> QED
    BY <2>2
<1> HIDE DEF g
<1>5. Keeps(m)
  <2>1. MatchedBy(tokens, s, g)
    BY <1>4, MatchedByIs
  <2>2. MatchedBy(tokens, s, m)
    BY <2>1
  <2> QED
    BY <2>2, MatchedByIs
<1> HIDE DEF m
<1>6. \A c \in P : m[c] <=> Matches(tokens, s, m, c[1], c[2])
  BY <1>5
<1> DEFINE Good == {n \in Nat : \A c \in P : c[1] + c[2] < n =>
                                   (m[c] <=> Cuts(tokens, s, c[1], c[2]))}
           all == Len(tokens) + Len(s) + 1
<1>7. 0 \in Good
  BY <1>0, <1>2
<1>8. ASSUME NEW n \in 0 .. all - 1, n \in Good PROVE n + 1 \in Good
  <2>1. \A c \in P : c[1] + c[2] < n => (m[c] <=> Cuts(tokens, s, c[1], c[2]))
    BY <1>8
  <2> SUFFICES ASSUME NEW c \in P, c[1] + c[2] < n + 1
               PROVE  m[c] <=> Cuts(tokens, s, c[1], c[2])
    BY <1>0
  <2>2. \A d \in P : d[1] + d[2] < c[1] + c[2] =>
          (m[d] <=> Cuts(tokens, s, d[1], d[2]))
    BY <1>0, <1>2, <2>1
  <2> HIDE DEF Good
  <2>3. Matches(tokens, s, m, c[1], c[2]) <=> Cuts(tokens, s, c[1], c[2])
    BY <1>2, <2>2, CutsMatch
  <2> QED
    BY <1>6, <2>3
<1>9. all \in Good
  <2> HIDE DEF Good
  <2>1. all \in Nat /\ all \in 0 .. all
    BY <1>0
  <2> HIDE DEF all
  <2> QED
    BY <1>7, <1>8, <2>1, UpTo
<1>10. m[<<Len(tokens), Len(s)>>] <=> Cuts(tokens, s, Len(tokens), Len(s))
  <2>1. <<Len(tokens), Len(s)>> \in P
    BY <1>0 DEF Pairs
  <2> QED
    BY <1>0, <1>9, <2>1
<1>11. CutsInto(tokens, s) <=> Cuts(tokens, s, Len(tokens), Len(s))
  <2>1. DOMAIN tokens = 1 .. Len(tokens)
    OBVIOUS
  <2> QED
    BY <2>1 DEF CutsInto, Cuts, Takes
<1>12. m[<<Len(tokens), Len(s)>>] \in BOOLEAN
  <2>1. <<Len(tokens), Len(s)>> \in P
    BY <1>0 DEF Pairs
  <2>2. \A c \in P : m[c] = Matches(tokens, s, m, c[1], c[2])
    BY <1>5
  <2>3. \A c \in P : Matches(tokens, s, m, c[1], c[2]) \in BOOLEAN
    BY DEF Matches
  <2> QED
    BY <2>1, <2>2, <2>3
<1> QED
  BY <1>1, <1>10, <1>11, <1>12

\* Without wildcards a pattern is cut into the characters of an equal text.
LEMMA PlainCut ==
  ASSUME NEW t \in Seq(Strings), NEW s \in Seq(Strings),
         \A i \in 1 .. Len(t) : t[i] # AnyChars /\ t[i] # AnyChar
  PROVE  CutsInto(t, s) <=> t = s
<1>0. /\ Len(t) \in Nat /\ Len(s) \in Nat /\ DOMAIN t = 1 .. Len(t)
      /\ \A i \in 1 .. Len(t) : t[i] # AnyChars /\ t[i] # AnyChar
  OBVIOUS
<1>1. ASSUME CutsInto(t, s) PROVE t = s
  <2>1. PICK cut \in [0 .. Len(t) -> 0 .. Len(s)] :
          /\ cut[0] = 0 /\ cut[Len(t)] = Len(s)
          /\ \A i \in 1 .. Len(t) :
               cut[i] = cut[i - 1] + 1 /\ t[i] \in {AnyChar, s[cut[i]]}
    BY <1>0, <1>1 DEF CutsInto
  <2> DEFINE Same == {i \in 0 .. Len(t) : cut[i] = i}
  <2>2. 0 \in Same
    BY <1>0, <2>1
  <2>3. ASSUME NEW i \in 0 .. Len(t) - 1, i \in Same PROVE i + 1 \in Same
    <3>1. i + 1 \in 1 .. Len(t) /\ i + 1 - 1 = i /\ cut[i] = i
      BY <1>0, <2>3
    <3>2. cut[i + 1] = cut[i + 1 - 1] + 1
      BY <2>1, <3>1
    <3> QED
      BY <1>0, <3>1, <3>2
  <2>4. \A i \in 0 .. Len(t) : i \in Same
    <3> HIDE DEF Same
    <3> QED
      BY <1>0, <2>2, <2>3, UpTo
  <2>5. Len(t) = Len(s)
    BY <1>0, <2>1, <2>4
  <2>6. \A i \in 1 .. Len(t) : t[i] = s[i]
    BY <1>0, <2>1, <2>4
  <2> QED
    BY <2>5, <2>6, SeqEqual
<1>2. ASSUME t = s PROVE CutsInto(t, s)
  <2> DEFINE cut == [i \in 0 .. Len(t) |-> i]
  <2>1. cut \in [0 .. Len(t) -> 0 .. Len(s)] /\ cut[0] = 0 /\ cut[Len(t)] = Len(s)
    BY <1>0, <1>2
  <2>2. \A i \in 1 .. Len(t) : cut[i] = i /\ cut[i - 1] = i - 1
    BY <1>0
  <2> HIDE DEF cut
  <2>3. \A i \in 1 .. Len(t) :
          cut[i] = cut[i - 1] + 1 /\ t[i] \in {AnyChar, s[cut[i]]}
    BY <1>0, <1>2, <2>2
  <2> QED
    BY <1>0, <2>1, <2>3 DEF CutsInto
<1> QED
  BY <1>1, <1>2

\* The case of a letter.
LEMMA SameLetterIs ==
  ASSUME NEW a \in Characters, NEW b \in Characters
  PROVE  /\ LowerAscii(a) = LowerAscii(b) <=> SameLetter(a, b)
         /\ SameLetter(a, b) => LowerCase[a] = LowerCase[b]
         /\ a \in 0 .. 127 /\ b \in 0 .. 127 /\ LowerCase[a] = LowerCase[b]
              => SameLetter(a, b)
<1>1. a \in Int /\ b \in Int
  BY CharactersAre
<1>2. LowerAscii(a) = LowerAscii(b) <=> SameLetter(a, b)
  BY <1>1 DEF LowerAscii, SameLetter
<1>3. ASSUME SameLetter(a, b) PROVE LowerCase[a] = LowerCase[b]
  <2>1. CASE a = b
    BY <2>1
  <2>2. CASE a # b
    <3>1. a \in 0 .. 127 /\ b \in 0 .. 127
      BY <1>1, <1>3, <2>2 DEF SameLetter
    <3> QED
      BY <1>2, <1>3, <3>1, LowerCaseIs
  <2> QED
    BY <2>1, <2>2
<1>4. ASSUME a \in 0 .. 127, b \in 0 .. 127, LowerCase[a] = LowerCase[b]
      PROVE  SameLetter(a, b)
  <2>1. <<LowerAscii(a)>> = <<LowerAscii(b)>>
    BY <1>4, LowerCaseIs
  <2>2. LowerAscii(a) = LowerAscii(b)
    BY <2>1
  <2> QED
    BY <1>2, <2>2
<1> QED
  BY <1>2, <1>3, <1>4

\* Texts equal up to the case of ASCII letters, and up to that of any.
LEMMA TextsEqual ==
  ASSUME NEW s \in Seq(Characters), NEW t \in Seq(Characters)
  PROVE  LET same == /\ Len(s) = Len(t)
                     /\ \A i \in DOMAIN s : SameLetter(s[i], t[i])
         IN  /\ Lower(s) = Lower(t) <=> same
             /\ same => Folded(s) = Folded(t)
             /\ Ascii(s) /\ Ascii(t) /\ Folded(s) = Folded(t) => same
<1> DEFINE same == /\ Len(s) = Len(t)
                   /\ \A i \in DOMAIN s : SameLetter(s[i], t[i])
<1>1. /\ Len(s) \in Nat /\ DOMAIN s = 1 .. Len(s)
      /\ Len(t) \in Nat /\ DOMAIN t = 1 .. Len(t)
      /\ \A i \in 1 .. Len(s) : s[i] \in Characters
      /\ \A i \in 1 .. Len(t) : t[i] \in Characters
  BY CharactersOf
<1>2. /\ Lower(s) \in Seq(Characters) /\ Len(Lower(s)) = Len(s)
      /\ Lower(t) \in Seq(Characters) /\ Len(Lower(t)) = Len(t)
  BY LowerIs
<1>3. /\ \A i \in 1 .. Len(s) : Lower(s)[i] = LowerAscii(s[i])
      /\ \A i \in 1 .. Len(t) : Lower(t)[i] = LowerAscii(t[i])
  BY <1>1 DEF Lower
<1>4. /\ Folded(s) \in Seq(Strings) /\ Len(Folded(s)) = Len(s)
      /\ \A i \in 1 .. Len(s) : Folded(s)[i] = LowerCase[s[i]]
      /\ Folded(t) \in Seq(Strings) /\ Len(Folded(t)) = Len(t)
      /\ \A i \in 1 .. Len(t) : Folded(t)[i] = LowerCase[t[i]]
  BY FoldedStrings
<1>5. ASSUME Lower(s) = Lower(t) PROVE same
  <2>1. Len(s) = Len(t)
    BY <1>2, <1>5
  <2>2. \A i \in 1 .. Len(s) : LowerAscii(s[i]) = LowerAscii(t[i])
    BY <1>3, <1>5, <2>1
  <2>3. \A i \in 1 .. Len(s) : SameLetter(s[i], t[i])
    BY <1>1, <2>1, <2>2, SameLetterIs
  <2> QED
    BY <1>1, <2>1, <2>3
<1>6. ASSUME same PROVE Lower(s) = Lower(t) /\ Folded(s) = Folded(t)
  <2>1. \A i \in 1 .. Len(s) :
          LowerAscii(s[i]) = LowerAscii(t[i]) /\ LowerCase[s[i]] = LowerCase[t[i]]
    BY <1>1, <1>6, SameLetterIs
  <2>2. \A i \in 1 .. Len(s) : Lower(s)[i] = Lower(t)[i] /\ Folded(s)[i] = Folded(t)[i]
    BY <1>3, <1>4, <1>6, <2>1
  <2>3. Lower(s) = Lower(t)
    BY <1>2, <1>6, <2>2, SeqEqual
  <2>4. Folded(s) = Folded(t)
    BY <1>4, <1>6, <2>2, SeqEqual
  <2> QED
    BY <2>3, <2>4
<1>7. ASSUME Ascii(s), Ascii(t), Folded(s) = Folded(t) PROVE same
  <2>1. Len(s) = Len(t)
    BY <1>4, <1>7
  <2>2. \A i \in 1 .. Len(s) :
          LowerCase[s[i]] = LowerCase[t[i]] /\ s[i] \in 0 .. 127 /\ t[i] \in 0 .. 127
    BY <1>1, <1>4, <1>7, <2>1 DEF Ascii
  <2>3. \A i \in 1 .. Len(s) : SameLetter(s[i], t[i])
    BY <1>1, <2>1, <2>2, SameLetterIs
  <2> QED
    BY <1>1, <2>1, <2>3
<1> QED
  BY <1>5, <1>6, <1>7

\* A key that matches is one that is equal, by either comparison; without
\* wildcards what VLOOKUP finds equal MATCH does too, and in ASCII conversely.
LEMMA MatchesEqual ==
  ASSUME NEW v \in Values, NEW key \in Values
  PROVE  /\ MatchesKey(v, key) <=> Equal(v, key)
         /\ EqualsKey(v, key) <=> EqualInAscii(v, key)
         /\ ~HasWildcards(v) /\ EqualInAscii(v, key) => Equal(v, key)
         /\ ~HasWildcards(v) /\ IsAscii(v) /\ IsAscii(key) /\ Equal(v, key)
              => EqualInAscii(v, key)
<1>1. CASE SameKind(v, key) /\ Is("text", v)
  <2>1. v.text \in Seq(Characters) /\ key.text \in Seq(Characters) /\ Is("text", key)
    BY <1>1, Kinds DEF SameKind, Is
  <2>2. Tokens(v.text) \in Seq(Strings) /\ Folded(key.text) \in Seq(Strings)
    BY <2>1, TokensIs, FoldedStrings
  <2>3. TokensMatch(Tokens(v.text), Folded(key.text))
          <=> CutsInto(Tokens(v.text), Folded(key.text))
    BY <2>2, MatchesCut
  <2>4. ASSUME ~HasWildcards(v)
        PROVE  CutsInto(Tokens(v.text), Folded(key.text))
                 <=> Folded(v.text) = Folded(key.text)
    <3>1. \A i \in DOMAIN v.text : v.text[i] \notin {Star, Question, Tilde}
      BY <1>1, <2>4 DEF HasWildcards
    <3>2. Tokens(v.text) = Folded(v.text)
      BY <2>1, <3>1, TokensIs
    <3>3. /\ Folded(v.text) \in Seq(Strings)
          /\ \A i \in 1 .. Len(Folded(v.text)) :
               Folded(v.text)[i] # AnyChars /\ Folded(v.text)[i] # AnyChar
      BY <2>1, FoldedStrings
    <3> QED
      BY <2>2, <3>2, <3>3, PlainCut
  <2>5. MatchesKey(v, key) <=> Equal(v, key)
    BY <1>1, <2>3 DEF MatchesKey, PatternMatch, Equal
  <2>6. EqualsKey(v, key) <=> EqualInAscii(v, key)
    BY <1>1, <2>1, TextsEqual DEF EqualsKey, EqualInAscii
  <2>7. ASSUME ~HasWildcards(v), EqualInAscii(v, key) PROVE Equal(v, key)
    BY <1>1, <2>1, <2>4, <2>7, TextsEqual DEF Equal, EqualInAscii
  <2>8. ASSUME ~HasWildcards(v), IsAscii(v), IsAscii(key), Equal(v, key)
        PROVE  EqualInAscii(v, key)
    <3>1. Ascii(v.text) /\ Ascii(key.text)
      BY <1>1, <2>1, <2>8 DEF IsAscii, Ascii
    <3>2. Folded(v.text) = Folded(key.text)
      BY <1>1, <2>4, <2>8 DEF Equal
    <3> QED
      BY <1>1, <2>1, <3>1, <3>2, TextsEqual DEF EqualInAscii
  <2> QED
    BY <2>5, <2>6, <2>7, <2>8
<1>2. CASE ~(SameKind(v, key) /\ Is("text", v))
  BY <1>2 DEF MatchesKey, Equal, EqualsKey, EqualInAscii
<1> QED
  BY <1>1, <1>2

\* p is the only member of found, or 0 if it has none.
Located(p, found) ==
  /\ found = {} => p = 0
  /\ found # {} => found = {p} /\ p \in Nat \ {0}

\* The least of a set of positions, or 0, locates its lowest.
LEMMA LeastLocated ==
  ASSUME NEW S \in SUBSET (Nat \ {0})
  PROVE  Located(IF S # {} THEN Min(S) ELSE 0, Lowest(S))
<1>1. CASE S = {}
  BY <1>1 DEF Located, Lowest
<1>2. CASE S # {}
  <2>1. Min(S) \in S /\ \A k \in S : Min(S) <= k
    BY <1>2, Least
  <2>2. Lowest(S) = {Min(S)}
    BY <2>1, LowestIs
  <2> QED
    BY <1>2, <2>1, <2>2 DEF Located
<1> QED
  BY <1>1, <1>2

\* Searches by equality end at the first equal key.
LEMMA SearchFirst ==
  ASSUME NEW v \in Values, NEW keys \in Seq(Values)
  PROVE  LET equal == {i \in DOMAIN keys : Equal(v, keys[i])}
             same == {i \in DOMAIN keys : EqualInAscii(v, keys[i])}
         IN  /\ Located(ExactPosition(v, keys), Lowest(equal))
             /\ Located(ExactColumn(v, keys), Lowest(equal))
             /\ Located(ExactRow(v, keys), Lowest(same))
             /\ ~HasWildcards(v) => same \subseteq equal
             /\ /\ ~HasWildcards(v) /\ IsAscii(v)
                /\ \A i \in DOMAIN keys : IsAscii(keys[i])
                => ExactRow(v, keys) = ExactColumn(v, keys)
<1> DEFINE S == {i \in DOMAIN keys : Equal(v, keys[i])}
           T == {i \in DOMAIN keys : EqualInAscii(v, keys[i])}
           I == {i \in 1 .. Len(keys) : MatchesKey(v, keys[i])}
           J == {i \in 1 .. Len(keys) : EqualsKey(v, keys[i])}
           p == IF I # {} THEN Min(I) ELSE 0
           q == IF J # {} THEN Min(J) ELSE 0
<1>1. DOMAIN keys = 1 .. Len(keys) /\ \A i \in 1 .. Len(keys) : keys[i] \in Values
  OBVIOUS
<1>2. I = S /\ J = T
  BY <1>1, MatchesEqual
<1>3. /\ ExactPosition(v, keys) = p /\ ExactColumn(v, keys) = p
      /\ ExactRow(v, keys) = q
  BY DEF ExactPosition, ExactColumn, ExactRow, SelectInSeq
<1>4. S \in SUBSET (Nat \ {0}) /\ T \in SUBSET (Nat \ {0})
  BY <1>1
<1>5. ~HasWildcards(v) => T \subseteq S
  BY <1>1, MatchesEqual
<1>6. /\ ~HasWildcards(v) /\ IsAscii(v)
      /\ \A i \in DOMAIN keys : IsAscii(keys[i])
      => S = T
  BY <1>1, MatchesEqual
<1> HIDE DEF S, T, I, J
<1>7. Located(p, Lowest(S)) /\ Located(q, Lowest(T))
  BY <1>2, <1>4, LeastLocated
<1> QED
  BY <1>2, <1>3, <1>5, <1>6, <1>7 DEF S, T

\* Searches by order, among ordered keys, at the last that is not beyond.
LEMMA SearchLast ==
  ASSUME NEW folding \in Foldings, NEW v \in Proper, NEW keys \in Seq(Proper),
         Ordered(folding, v, keys)
  PROVE  LET back == Reverse(keys)
         IN  /\ Located(Search(folding, v, keys, 1),
                        Highest({i \in DOMAIN keys : AtMost(folding, keys[i], v)}))
             /\ Located(Search(folding, v, back, -1),
                        Highest({i \in DOMAIN back : AtMost(folding, v, back[i])}))
<1> DEFINE back == Reverse(keys)
           up == {i \in DOMAIN keys : AtMost(folding, keys[i], v)}
           down == {i \in DOMAIN back : AtMost(folding, v, back[i])}
           p == Search(folding, v, keys, 1)
           q == Search(folding, v, back, -1)
<1>1. (up = {} => p = 0) /\ (up # {} => Highest(up) = {p})
  BY SearchUp
<1>2. (down = {} => q = 0) /\ (down # {} => Highest(down) = {q})
  BY SearchDown
<1>3. up \subseteq Nat \ {0} /\ down \subseteq Nat \ {0}
  BY DEF Reverse
<1> HIDE DEF up, down, p, q
<1>4. Highest({}) = {} /\ \A S : Highest(S) \subseteq S
  BY DEF Highest
<1>5. Located(p, Highest(up)) /\ Located(q, Highest(down))
  BY <1>1, <1>2, <1>3, <1>4 DEF Located
<1> QED
  BY <1>5 DEF up, down, p, q

\* In ASCII both foldings order keys alike, and searches end where they do.
LEMMA SearchSame ==
  ASSUME NEW v \in Values, NEW keys \in Seq(Values), NEW past,
         IsAscii(v), \A i \in DOMAIN keys : IsAscii(keys[i])
  PROVE  Search("ascii", v, keys, past) = Search("unicode", v, keys, past)
<1> DEFINE alike == {i \in DOMAIN keys : SameKind(keys[i], v)}
           Beyond(folding) == {i \in alike : KeyOrder(folding, keys[i], v) = past}
           Before(folding) == {i \in alike : \A j \in Beyond(folding) : i < j}
<1>1. ASSUME NEW i \in alike
      PROVE  KeyOrder("ascii", keys[i], v) = KeyOrder("unicode", keys[i], v)
  <2>1. keys[i] \in Values /\ SameKind(keys[i], v) /\ IsAscii(keys[i])
    OBVIOUS
  <2>2. CASE Is("text", v)
    <3>1. ~Is("blank", v) /\ Is("text", keys[i])
      BY <2>1, <2>2, OneKind DEF SameKind, Is
    <3>2. v.text \in Seq(Characters) /\ keys[i].text \in Seq(Characters)
      BY <2>1, <2>2, <3>1, Kinds
    <3>3. Ascii(v.text) /\ Ascii(keys[i].text)
      BY <2>1, <2>2, <3>1 DEF IsAscii, Ascii
    <3>4. /\ FoldedAs("unicode", v.text) = FoldedAs("ascii", v.text)
          /\ FoldedAs("unicode", keys[i].text) = FoldedAs("ascii", keys[i].text)
      BY <3>2, <3>3, FoldedAsIs
    <3>5. \A folding :
            KeyOrder(folding, keys[i], v)
              = TextOrder(FoldedAs(folding, keys[i].text), FoldedAs(folding, v.text))
      BY <2>2, <3>1 DEF KeyOrder
    <3> QED
      BY <3>4, <3>5
  <2>3. CASE ~Is("text", v)
    BY <2>3 DEF KeyOrder
  <2> QED
    BY <2>2, <2>3
<1>2. Beyond("ascii") = Beyond("unicode")
  <2> HIDE DEF alike
  <2> QED
    BY <1>1
<1>3. Before("ascii") = Before("unicode")
  <2> HIDE DEF alike, Beyond
  <2> QED
    BY <1>2
<1>4. \A folding : Search(folding, v, keys, past)
                     = IF Before(folding) = {} THEN 0 ELSE Max(Before(folding))
  BY DEF Search
<1> HIDE DEF Before
<1> QED
  BY <1>3, <1>4

\* What a position found is worth.
LEMMA LocatedIs ==
  ASSUME NEW p, NEW found, Located(p, found)
  PROVE  /\ Position(found) = IF p = 0 THEN NA ELSE Number(p)
         /\ AmountAt(found) = IF p = 0 THEN NA ELSE Shown(AmountColumn[p])
<1>1. CASE found = {}
  BY <1>1 DEF Located, Position, AmountAt
<1>2. CASE found # {}
  <2>1. found = {p} /\ p # 0
    BY <1>2 DEF Located
  <2>2. (CHOOSE i \in found : TRUE) = p
    BY <2>1
  <2> QED
    BY <2>1, <2>2 DEF Position, AmountAt
<1> QED
  BY <1>1, <1>2

------------------------------------------------------------------------------
(* The functions, on a table of records.                                   *)

Recorded == records \in [1 .. MaxRows -> Values \X Values]
NoErrors(s) == \A i \in 1 .. Len(s) : ~Is("error", s[i])

\* The columns of the records and their transposition.
LEMMA Tables ==
  ASSUME Recorded
  PROVE  /\ KeyColumn \in Seq(Values) /\ Len(KeyColumn) = MaxRows
         /\ AmountColumn \in Seq(Values) /\ Len(AmountColumn) = MaxRows
         /\ DOMAIN KeyColumn = 1 .. MaxRows /\ DOMAIN AmountColumn = 1 .. MaxRows
         /\ \A r \in 1 .. MaxRows : records[r] = <<KeyColumn[r], AmountColumn[r]>>
         /\ Rows(records) = MaxRows /\ Columns(records) = 2
         /\ records \in Seq(Seq(Values)) /\ records # <<>>
<1>1. MaxRows \in Nat /\ 1 \in 1 .. MaxRows
  BY RecordsAreRows
<1>2. /\ DOMAIN records = 1 .. MaxRows
      /\ \A r \in 1 .. MaxRows : /\ records[r] = <<records[r][1], records[r][2]>>
                                 /\ records[r][1] \in Values
                                 /\ records[r][2] \in Values
  BY DEF Recorded
<1>3. /\ KeyColumn = [r \in 1 .. MaxRows |-> records[r][1]]
      /\ AmountColumn = [r \in 1 .. MaxRows |-> records[r][2]]
  BY <1>2 DEF KeyColumn, AmountColumn, Column
<1>4. /\ KeyColumn \in Seq(Values) /\ Len(KeyColumn) = MaxRows
      /\ AmountColumn \in Seq(Values) /\ Len(AmountColumn) = MaxRows
  BY <1>1, <1>2, <1>3
<1>5. \A r \in 1 .. MaxRows : records[r] \in Seq(Values) /\ Len(records[r]) = 2
  <2> TAKE r \in 1 .. MaxRows
  <2>1. \A a \in Values, b \in Values : <<a, b>> \in Seq(Values) /\ Len(<<a, b>>) = 2
    OBVIOUS
  <2>2. records[r] = <<records[r][1], records[r][2]>>
    BY <1>2
  <2> DEFINE a == records[r][1]
             b == records[r][2]
  <2>3. a \in Values /\ b \in Values /\ records[r] = <<a, b>>
    BY <1>2
  <2> HIDE DEF a, b
  <2> QED
    BY <2>1, <2>3
<1>6. records \in [1 .. MaxRows -> Seq(Values)]
  BY <1>5 DEF Recorded
<1>7. records \in Seq(Seq(Values)) /\ Len(records) = MaxRows
  BY <1>1, <1>6
<1>8. Rows(records) = MaxRows /\ Columns(records) = 2
  BY <1>1, <1>5, <1>7 DEF Rows, Columns
<1>9. records # <<>>
  <2>1. Len(records) # Len(<<>>)
    BY <1>1, <1>7
  <2> QED
    BY <2>1
<1>10. \A r \in 1 .. MaxRows : records[r] = <<KeyColumn[r], AmountColumn[r]>>
  BY <1>2, <1>3
<1> QED
  BY <1>3, <1>4, <1>7, <1>8, <1>9, <1>10

\* A table on its side.
LEMMA Turned ==
  ASSUME Recorded
  PROVE  /\ Across \in Seq(Seq(Values)) /\ Across # <<>>
         /\ Rows(Across) = 2 /\ Columns(Across) = MaxRows
         /\ Across[1] = KeyColumn /\ Across[2] = AmountColumn
         /\ DOMAIN Across = 1 .. 2
<1>1. Across = [c \in 1 .. 2 |-> [r \in 1 .. MaxRows |-> records[r][c]]]
  BY Tables DEF Across, Transposed
<1>2. /\ KeyColumn = [r \in 1 .. MaxRows |-> records[r][1]]
      /\ AmountColumn = [r \in 1 .. MaxRows |-> records[r][2]]
  BY DEF KeyColumn, AmountColumn, Column, Recorded
<1>3. Across[1] = KeyColumn /\ Across[2] = AmountColumn
  BY <1>1, <1>2
<1>4. /\ KeyColumn \in Seq(Values) /\ Len(KeyColumn) = MaxRows
      /\ AmountColumn \in Seq(Values)
  BY Tables
<1>5. Across = [c \in 1 .. 2 |-> Across[c]]
  BY <1>1
<1>6. \A c \in 1 .. 2 : Across[c] \in Seq(Values)
  BY <1>3, <1>4
<1> HIDE DEF Across
<1>7. Across \in Seq(Seq(Values)) /\ Len(Across) = 2 /\ DOMAIN Across = 1 .. 2
  BY <1>5, <1>6
<1>8. Across # <<>>
  <2>1. Len(Across) # Len(<<>>)
    BY <1>7
  <2> QED
    BY <2>1
<1> QED
  BY <1>3, <1>4, <1>7, <1>8 DEF Rows, Columns

\* The cells of both, and which hold errors.
LEMMA CellsOf ==
  ASSUME Recorded
  PROVE  /\ Cells(records) \in Seq(Values) /\ Cells(Across) \in Seq(Values)
         /\ Broken = {} =>
              /\ NoErrors(Cells(records)) /\ NoErrors(Cells(Across))
              /\ NoErrors(KeyColumn) /\ NoErrors(AmountColumn)
         /\ Broken # {} =>
              \E c \in 1 .. Len(Cells(Across)) : Is("error", Cells(Across)[c])
<1> DEFINE down == Cells(records)
           side == Cells(Across)
           InColumns(x) == \E r \in 1 .. MaxRows :
                             KeyColumn[r] = x \/ AmountColumn[r] = x
<1>1. /\ down \in Seq(Values)
      /\ \A x : (\E i \in DOMAIN down : down[i] = x)
                  <=> \E r \in DOMAIN records :
                        \E i \in DOMAIN records[r] : records[r][i] = x
  <2>1. records \in Seq(Seq(Values)) /\ records # <<>>
    BY Tables
  <2>2. down = FlattenSeq(records)
    BY DEF Cells
  <2> HIDE DEF down
  <2>3. FlattenSeq(records) \in Seq(Values)
    BY <2>1, Flattened
  <2>4. \A x : (\E i \in DOMAIN FlattenSeq(records) : FlattenSeq(records)[i] = x)
              <=> \E r \in DOMAIN records : \E i \in DOMAIN records[r] : records[r][i] = x
    BY <2>1, Flattened
  <2> QED
    BY <2>2, <2>3, <2>4
<1>2. /\ side \in Seq(Values)
      /\ \A x : (\E i \in DOMAIN side : side[i] = x)
                  <=> \E r \in DOMAIN Across :
                        \E i \in DOMAIN Across[r] : Across[r][i] = x
  <2>1. Across \in Seq(Seq(Values)) /\ Across # <<>>
    BY Turned
  <2>2. side = FlattenSeq(Across)
    BY DEF Cells
  <2> HIDE DEF side
  <2>3. FlattenSeq(Across) \in Seq(Values)
    BY <2>1, Flattened
  <2>4. \A x : (\E i \in DOMAIN FlattenSeq(Across) : FlattenSeq(Across)[i] = x)
              <=> \E r \in DOMAIN Across : \E i \in DOMAIN Across[r] : Across[r][i] = x
    BY <2>1, Flattened
  <2> QED
    BY <2>2, <2>3, <2>4
<1>3. \A x : (\E i \in DOMAIN down : down[i] = x) <=> InColumns(x)
  <2> TAKE x
  <2>1. DOMAIN records = 1 .. MaxRows
    BY DEF Recorded
  <2>2. \A r \in 1 .. MaxRows :
          (\E i \in DOMAIN records[r] : records[r][i] = x)
            <=> KeyColumn[r] = x \/ AmountColumn[r] = x
    <3> TAKE r \in 1 .. MaxRows
    <3>1. records[r] = <<KeyColumn[r], AmountColumn[r]>>
      BY Tables
    <3>2. /\ DOMAIN records[r] = {1, 2} /\ records[r][1] = KeyColumn[r]
          /\ records[r][2] = AmountColumn[r]
      BY <3>1
    <3> QED
      BY <3>2
  <2> QED
    BY <1>1, <2>1, <2>2
<1>4. \A x : (\E i \in DOMAIN side : side[i] = x) <=> InColumns(x)
  <2> TAKE x
  <2>1. /\ DOMAIN Across = {1, 2} /\ Across[1] = KeyColumn
        /\ Across[2] = AmountColumn
    BY Turned
  <2>2. DOMAIN KeyColumn = 1 .. MaxRows /\ DOMAIN AmountColumn = 1 .. MaxRows
    BY Tables
  <2> QED
    BY <1>2, <2>1, <2>2
<1> HIDE DEF down, side
<1>5. DOMAIN down = 1 .. Len(down) /\ DOMAIN side = 1 .. Len(side)
  BY <1>1, <1>2
<1>6. Broken = {c \in DOMAIN down : Is("error", down[c])}
  BY DEF Broken, down
<1>7. ASSUME Broken = {}
      PROVE  /\ NoErrors(down) /\ NoErrors(side)
             /\ NoErrors(KeyColumn) /\ NoErrors(AmountColumn)
  <2>1. \A x : InColumns(x) => ~Is("error", x)
    BY <1>3, <1>6, <1>7
  <2>2. \A r \in 1 .. MaxRows : InColumns(KeyColumn[r]) /\ InColumns(AmountColumn[r])
    OBVIOUS
  <2>3. \A i \in DOMAIN side : InColumns(side[i])
    BY <1>4
  <2>4. \A i \in DOMAIN down : InColumns(down[i])
    BY <1>3
  <2> HIDE DEF InColumns
  <2> QED
    BY <1>5, <2>1, <2>2, <2>3, <2>4, Tables DEF NoErrors
<1>8. ASSUME Broken # {}
      PROVE  \E c \in 1 .. Len(side) : Is("error", side[c])
  <2>1. PICK c \in DOMAIN down : Is("error", down[c])
    BY <1>6, <1>8
  <2>2. InColumns(down[c])
    BY <1>3
  <2>3. PICK i \in DOMAIN side : side[i] = down[c]
    BY <1>4, <2>2
  <2> QED
    BY <1>5, <2>1, <2>3
<1> QED
  BY <1>1, <1>2, <1>7, <1>8 DEF down, side

\* Sequences without errors, put together.
LEMMA Joined ==
  ASSUME NEW s \in Seq(Values), NEW t \in Seq(Values), NoErrors(s), NoErrors(t)
  PROVE  s \o t \in Seq(Values) /\ NoErrors(s \o t)
<1>1. /\ s \o t \in Seq(Values) /\ Len(s \o t) = Len(s) + Len(t)
      /\ Len(s) \in Nat /\ Len(t) \in Nat
      /\ \A i \in 1 .. Len(s) + Len(t) :
           (s \o t)[i] = IF i <= Len(s) THEN s[i] ELSE t[i - Len(s)]
  OBVIOUS
<1>2. ASSUME NEW i \in 1 .. Len(s) + Len(t) PROVE ~Is("error", (s \o t)[i])
  <2>1. CASE i <= Len(s)
    BY <1>1, <2>1 DEF NoErrors
  <2>2. CASE ~(i <= Len(s))
    <3>1. i - Len(s) \in 1 .. Len(t)
      BY <1>1, <2>2
    <3> QED
      BY <1>1, <2>2, <3>1 DEF NoErrors
  <2> QED
    BY <2>1, <2>2
<1> QED
  BY <1>1, <1>2 DEF NoErrors

Worth(p) == IF p = 0 THEN NA ELSE Shown(AmountColumn[p])

\* The functions without errors in the table, in terms of their searches.
LEMMA MatchIs ==
  ASSUME NEW v \in Proper, NEW keys \in Seq(Values), NoErrors(keys)
  PROVE  LET At(p) == IF p = 0 THEN NA ELSE Number(p)
         IN  /\ MATCH(v, keys, 0) = At(ExactPosition(v, keys))
             /\ MATCH(v, keys, 1) = At(Search("unicode", v, keys, 1))
             /\ MATCH(v, keys, -1) = At(Search("unicode", v, keys, -1))
<1>1. \A r : Propagated(<<v>> \o keys, r) = r
  BY SoundArguments DEF Proper, NoErrors
<1>2. 0 \in -1 .. 1 /\ 1 \in -1 .. 1 /\ -1 \in -1 .. 1
  OBVIOUS
<1>3. MATCH(v, keys, 0) = IF ExactPosition(v, keys) = 0 THEN NA
                          ELSE Number(ExactPosition(v, keys))
  BY <1>1, <1>2 DEF MATCH
<1>4. MATCH(v, keys, 1) = IF Search("unicode", v, keys, 1) = 0 THEN NA
                          ELSE Number(Search("unicode", v, keys, 1))
  BY <1>1, <1>2 DEF MATCH, MatchPosition
<1>5. MATCH(v, keys, -1) = IF Search("unicode", v, keys, -1) = 0 THEN NA
                           ELSE Number(Search("unicode", v, keys, -1))
  BY <1>1, <1>2 DEF MATCH, MatchPosition
<1> QED
  BY <1>3, <1>4, <1>5

LEMMA LocatedWithin ==
  ASSUME NEW p, NEW found, Located(p, found), NEW n \in Nat, found \subseteq 1 .. n
  PROVE  p # 0 => p \in 1 .. n
BY DEF Located

\* Searches end within the keys.
LEMMA SearchWithin ==
  ASSUME NEW folding, NEW v, NEW keys \in Seq(Values), NEW past
  PROVE  Search(folding, v, keys, past) # 0 => Search(folding, v, keys, past) \in 1 .. Len(keys)
<1> DEFINE alike == {i \in DOMAIN keys : SameKind(keys[i], v)}
           beyond == {i \in alike : KeyOrder(folding, keys[i], v) = past}
           before == {i \in alike : \A j \in beyond : i < j}
<1>1. Search(folding, v, keys, past) = IF before = {} THEN 0 ELSE Max(before)
  BY DEF Search
<1>2. /\ before \subseteq 1 .. Len(keys)
      /\ before \in SUBSET (0 .. Len(keys)) /\ Len(keys) \in Nat
  OBVIOUS
<1> HIDE DEF before
<1>3. before # {} => Max(before) \in before
  BY <1>2, Greatest
<1> QED
  BY <1>1, <1>2, <1>3

LEMMA ExactWithin ==
  ASSUME NEW v \in Values, NEW keys \in Seq(Values)
  PROVE  /\ ExactColumn(v, keys) # 0 => ExactColumn(v, keys) \in 1 .. Len(keys)
         /\ ExactRow(v, keys) # 0 => ExactRow(v, keys) \in 1 .. Len(keys)
<1> DEFINE I == {i \in 1 .. Len(keys) : MatchesKey(v, keys[i])}
           J == {i \in 1 .. Len(keys) : EqualsKey(v, keys[i])}
<1>1. /\ ExactColumn(v, keys) = IF I # {} THEN Min(I) ELSE 0
      /\ ExactRow(v, keys) = IF J # {} THEN Min(J) ELSE 0
  BY DEF ExactColumn, ExactRow, SelectInSeq
<1>2. I \in SUBSET Nat /\ J \in SUBSET Nat
  OBVIOUS
<1>3. I \subseteq 1 .. Len(keys) /\ J \subseteq 1 .. Len(keys)
  OBVIOUS
<1> HIDE DEF I, J
<1>4. (I # {} => Min(I) \in I) /\ (J # {} => Min(J) \in J)
  BY <1>2, Least
<1> QED
  BY <1>1, <1>3, <1>4

\* VLOOKUP, HLOOKUP and the forms of LOOKUP show the amount beside the key
\* their search found.
LEMMA VlookupIs ==
  ASSUME Recorded, Broken = {}, NEW v \in Proper
  PROVE  /\ VLOOKUP(v, records, 2, TRUE) = Worth(Search("ascii", v, KeyColumn, 1))
         /\ VLOOKUP(v, records, 2, FALSE) = Worth(ExactRow(v, KeyColumn))
<1>1. \A r : Propagated(<<v>> \o Cells(records), r) = r
  BY CellsOf, SoundArguments DEF Proper, NoErrors
<1>2. \A r : Chosen(2, Columns(records), r) = r
  BY Tables DEF Chosen
<1>3. Column(records, 1) = KeyColumn
  BY DEF KeyColumn
<1>4. \A p : p \in 1 .. MaxRows => records[p][2] = AmountColumn[p]
  BY Tables
<1>5. /\ Search("ascii", v, KeyColumn, 1) # 0 => Search("ascii", v, KeyColumn, 1) \in 1 .. MaxRows
      /\ ExactRow(v, KeyColumn) # 0 => ExactRow(v, KeyColumn) \in 1 .. MaxRows
  BY Tables, SearchWithin, ExactWithin DEF Proper
<1>6. VLOOKUP(v, records, 2, TRUE)
        = IF Search("ascii", v, KeyColumn, 1) = 0 THEN NA
          ELSE Shown(records[Search("ascii", v, KeyColumn, 1)][2])
  BY <1>1, <1>2, <1>3 DEF VLOOKUP, ApproximateRow
<1>7. VLOOKUP(v, records, 2, FALSE)
        = IF ExactRow(v, KeyColumn) = 0 THEN NA
          ELSE Shown(records[ExactRow(v, KeyColumn)][2])
  BY <1>1, <1>2, <1>3 DEF VLOOKUP
<1> QED
  BY <1>4, <1>5, <1>6, <1>7 DEF Worth

LEMMA HlookupIs ==
  ASSUME Recorded, Broken = {}, NEW v \in Proper
  PROVE  /\ HLOOKUP(v, Across, 2, TRUE) = Worth(Search("unicode", v, KeyColumn, 1))
         /\ HLOOKUP(v, Across, 2, FALSE) = Worth(ExactColumn(v, KeyColumn))
<1>1. \A r : Propagated(<<v>> \o Cells(Across), r) = r
  BY CellsOf, SoundArguments DEF Proper, NoErrors
<1>2. \A r : Chosen(2, Rows(Across), r) = r
  BY Turned DEF Chosen
<1>3. Across[1] = KeyColumn /\ Across[2] = AmountColumn
  BY Turned
<1>4. HLOOKUP(v, Across, 2, TRUE) = Worth(Search("unicode", v, KeyColumn, 1))
  BY <1>1, <1>2, <1>3 DEF HLOOKUP, ApproximateColumn, Worth
<1>5. HLOOKUP(v, Across, 2, FALSE) = Worth(ExactColumn(v, KeyColumn))
  BY <1>1, <1>2, <1>3 DEF HLOOKUP, Worth
<1> QED
  BY <1>4, <1>5

LEMMA LookupIs ==
  ASSUME Recorded, Broken = {}, NEW v \in Proper
  PROVE  /\ LOOKUP(v, KeyColumn, AmountColumn) = Worth(Search("unicode", v, KeyColumn, 1))
         /\ LookupInTable(v, records) = Worth(Search("unicode", v, KeyColumn, 1))
         /\ LookupInTable(v, Across) = Worth(Search("unicode", v, KeyColumn, 1))
<1>1. /\ KeyColumn \in Seq(Values) /\ AmountColumn \in Seq(Values)
      /\ NoErrors(KeyColumn) /\ NoErrors(AmountColumn)
      /\ Len(KeyColumn) = MaxRows /\ Len(AmountColumn) = MaxRows
  BY Tables, CellsOf
<1>2. \A r : Propagated(<<v>> \o KeyColumn \o AmountColumn, r) = r
  <2>1. <<v>> \in Seq(Values) /\ NoErrors(<<v>>)
    <3>1. v \in Values /\ ~Is("error", v)
      BY DEF Proper
    <3>2. Len(<<v>>) = 1 /\ <<v>>[1] = v
      OBVIOUS
    <3> QED
      BY <3>1, <3>2 DEF NoErrors
  <2>2. <<v>> \o KeyColumn \in Seq(Values) /\ NoErrors(<<v>> \o KeyColumn)
    BY <1>1, <2>1, Joined
  <2>3. /\ <<v>> \o KeyColumn \o AmountColumn \in Seq(Values)
        /\ NoErrors(<<v>> \o KeyColumn \o AmountColumn)
    BY <1>1, <2>2, Joined
  <2> QED
    BY <2>3, Sound DEF NoErrors
<1>3. LOOKUP(v, KeyColumn, AmountColumn) = Worth(Search("unicode", v, KeyColumn, 1))
  BY <1>1, <1>2 DEF LOOKUP, LookupPosition, Worth
<1>4. \A r : /\ Propagated(Cells(records), r) = r
             /\ Propagated(Cells(Across), r) = r
  BY CellsOf, Sound DEF NoErrors
<1>5. MaxRows \in Nat /\ MaxRows > 2
  BY RecordsAreRows
<1>6. LookupInTable(v, records) = LOOKUP(v, KeyColumn, AmountColumn)
  <2>1. Rows(records) = MaxRows /\ Columns(records) = 2
    BY Tables
  <2>2. Rows(records) # 1 /\ Columns(records) # 1
        /\ ~(Columns(records) > Rows(records))
    BY <1>5, <2>1
  <2>3. LookupInTable(v, records)
          = LOOKUP(v, Column(records, 1), Column(records, Columns(records)))
    BY <1>4, <2>2 DEF LookupInTable
  <2> QED
    BY <2>1, <2>3 DEF KeyColumn, AmountColumn
<1>7. LookupInTable(v, Across) = LOOKUP(v, KeyColumn, AmountColumn)
  <2>1. Rows(Across) = 2 /\ Columns(Across) = MaxRows
    BY Turned
  <2>2. Rows(Across) # 1 /\ Columns(Across) # 1
        /\ Columns(Across) > Rows(Across)
    BY <1>5, <2>1
  <2>3. LookupInTable(v, Across) = LOOKUP(v, Across[1], Across[Rows(Across)])
    BY <1>4, <2>2 DEF LookupInTable
  <2> QED
    BY <2>1, <2>3, Turned
<1> QED
  BY <1>3, <1>6, <1>7

\* INDEX and CHOOSE.
LEMMA IndexIs ==
  ASSUME Recorded, Broken = {}, NEW p \in 1 .. MaxRows
  PROVE  /\ INDEX(records, p, 2) = AmountColumn[p]
         /\ CHOOSEValue(Number(p), AmountColumn) = AmountColumn[p]
         /\ IndexInVector(<<AmountColumn>>, p) = AmountColumn[p]
         /\ IndexInVector(Transposed(<<AmountColumn>>), p) = AmountColumn[p]
<1>1. /\ AmountColumn \in Seq(Values) /\ Len(AmountColumn) = MaxRows
      /\ DOMAIN AmountColumn = 1 .. MaxRows /\ NoErrors(AmountColumn)
      /\ MaxRows \in Nat /\ MaxRows > 2
  BY Tables, CellsOf, RecordsAreRows
<1>2. INDEX(records, p, 2) = AmountColumn[p]
  <2>1. \A r : Propagated(Cells(records), r) = r
    BY CellsOf, Sound DEF NoErrors
  <2>2. p \in 1 .. Rows(records) /\ Columns(records) = 2
    BY Tables
  <2>3. \A r : Offset(2, 2, r) = r
    BY DEF Offset
  <2>4. INDEX(records, p, 2) = records[p][2]
    BY <2>1, <2>2, <2>3 DEF INDEX
  <2> QED
    BY <2>4, Tables
<1>3. CHOOSEValue(Number(p), AmountColumn) = AmountColumn[p]
  <2>1. DOMAIN Number(p) = {"number"} /\ Number(p).number = p
    BY Made
  <2>2. Is("number", Number(p)) /\ ~Is("error", Number(p))
        /\ ~Is("boolean", Number(p)) /\ ~Is("blank", Number(p))
        /\ ~Is("text", Number(p))
    BY <2>1 DEF Is
  <2>3. ToNumber(Number(p)) = Number(p)
    BY <2>2 DEF ToNumber
  <2> QED
    BY <1>1, <2>1, <2>2, <2>3 DEF CHOOSEValue
<1>4. \A n \in Nat : \A r : p \in 1 .. n => Offset(p, n, r) = r
  BY DEF Offset
<1>5. ASSUME NEW t \in Seq(Seq(Values)), t # <<>>,
             \A r \in DOMAIN t : \A i \in DOMAIN t[r] :
               \E k \in 1 .. MaxRows : t[r][i] = AmountColumn[k]
      PROVE  \A r : Propagated(Cells(t), r) = r
  <2>0. t \in Seq(Seq(Values)) /\ t # <<>>
    BY <1>5
  <2>1. FlattenSeq(t) \in Seq(Values)
    BY ONLY <2>0, Flattened
  <2>2. \A x : (\E i \in DOMAIN FlattenSeq(t) : FlattenSeq(t)[i] = x)
              <=> \E r \in DOMAIN t : \E i \in DOMAIN t[r] : t[r][i] = x
    BY ONLY <2>0, Flattened
  <2>3. NoErrors(FlattenSeq(t))
    <3> SUFFICES ASSUME NEW i \in 1 .. Len(FlattenSeq(t))
                 PROVE  ~Is("error", FlattenSeq(t)[i])
      BY DEF NoErrors
    <3>1. i \in DOMAIN FlattenSeq(t)
      BY <2>1
    <3>2. PICK r \in DOMAIN t : \E j \in DOMAIN t[r] : t[r][j] = FlattenSeq(t)[i]
      BY <2>2, <3>1
    <3>3. \E k \in 1 .. MaxRows : FlattenSeq(t)[i] = AmountColumn[k]
      BY <1>5, <3>2
    <3> QED
      BY <1>1, <3>3 DEF NoErrors
  <2> QED
    BY <2>1, <2>3, Sound DEF Cells, NoErrors
<1>6. IndexInVector(<<AmountColumn>>, p) = AmountColumn[p]
  <2> DEFINE t == <<AmountColumn>>
  <2>1. /\ t \in Seq(Seq(Values)) /\ Len(t) = 1 /\ t[1] = AmountColumn
        /\ DOMAIN t = {1} /\ t # <<>>
    BY <1>1
  <2> HIDE DEF t
  <2>2. \A r : Propagated(Cells(t), r) = r
    BY <1>1, <1>5, <2>1
  <2>3. Rows(t) = 1 /\ Columns(t) = MaxRows
    BY <1>1, <2>1 DEF Rows, Columns
  <2>4. IndexInVector(t, p) = Offset(p, MaxRows, t[1][p])
    BY <1>1, <2>2, <2>3 DEF IndexInVector
  <2>5. IndexInVector(t, p) = AmountColumn[p]
    BY <1>1, <1>4, <2>1, <2>4
  <2> QED
    BY <2>5 DEF t
<1>7. IndexInVector(Transposed(<<AmountColumn>>), p) = AmountColumn[p]
  <2> DEFINE t == Transposed(<<AmountColumn>>)
  <2>1. t = [c \in 1 .. MaxRows |-> [r \in 1 .. 1 |-> AmountColumn[c]]]
    <3>1. Rows(<<AmountColumn>>) = 1 /\ Columns(<<AmountColumn>>) = MaxRows
      BY <1>1 DEF Rows, Columns
    <3>2. t = [c \in 1 .. MaxRows |-> [r \in 1 .. 1 |-> <<AmountColumn>>[r][c]]]
      BY <3>1 DEF Transposed
    <3>3. \A r \in 1 .. 1 : <<AmountColumn>>[r] = AmountColumn
      OBVIOUS
    <3> QED
      BY <3>2, <3>3
  <2>2. \A c \in 1 .. MaxRows : AmountColumn[c] \in Values
    BY <1>1
  <2> HIDE DEF t
  <2>3. \A c \in 1 .. MaxRows :
          /\ t[c] = [r \in 1 .. 1 |-> AmountColumn[c]] /\ DOMAIN t[c] = 1 .. 1
          /\ t[c] \in Seq(Values) /\ Len(t[c]) = 1 /\ t[c][1] = AmountColumn[c]
    BY <2>1, <2>2
  <2>4. t \in Seq(Seq(Values)) /\ Len(t) = MaxRows /\ DOMAIN t = 1 .. MaxRows
    BY <1>1, <2>1, <2>3
  <2>5. t # <<>>
    <3>1. Len(t) # Len(<<>>)
      BY <1>1, <2>4
    <3> QED
      BY <3>1
  <2>6. \A r \in DOMAIN t : \A i \in DOMAIN t[r] :
          \E k \in 1 .. MaxRows : t[r][i] = AmountColumn[k]
    BY <2>3, <2>4
  <2>7. \A r : Propagated(Cells(t), r) = r
    BY <1>5, <2>4, <2>5, <2>6
  <2>8. Rows(t) = MaxRows /\ Columns(t) = 1
    BY <1>1, <2>3, <2>4 DEF Rows, Columns
  <2>9. IndexInVector(t, p) = Offset(p, MaxRows, t[p][1])
    BY <2>7, <2>8 DEF IndexInVector
  <2>10. IndexInVector(t, p) = AmountColumn[p]
    BY <1>1, <1>4, <2>3, <2>9
  <2> QED
    BY <2>10 DEF t
<1> QED
  BY <1>2, <1>3, <1>6, <1>7

------------------------------------------------------------------------------
(* The functions agree.                                                    *)

\* Lookups by equality find the first equal key.
LEMMA FirstsAgree ==
  ASSUME Recorded, Broken = {}, NEW v \in Proper
  PROVE  FindsFirst(v)
<1> DEFINE keys == KeyColumn
           equal == {i \in DOMAIN keys : Equal(v, keys[i])}
           same == {i \in DOMAIN keys : EqualInAscii(v, keys[i])}
<1>1. keys \in Seq(Values) /\ NoErrors(keys) /\ v \in Values
  BY Tables, CellsOf DEF Proper
<1> HIDE DEF keys
<1>2. /\ Located(ExactPosition(v, keys), Lowest(equal))
      /\ Located(ExactColumn(v, keys), Lowest(equal))
      /\ Located(ExactRow(v, keys), Lowest(same))
      /\ ~HasWildcards(v) => same \subseteq equal
  BY <1>1, SearchFirst
<1> HIDE DEF equal, same
<1>3. MATCH(v, keys, 0) = Position(Lowest(equal))
  BY <1>1, <1>2, MatchIs, LocatedIs
<1>4. HLOOKUP(v, Across, 2, FALSE) = AmountAt(Lowest(equal))
  <2>1. HLOOKUP(v, Across, 2, FALSE) = Worth(ExactColumn(v, keys))
    BY HlookupIs DEF keys
  <2> QED
    BY <1>2, <2>1, LocatedIs DEF Worth
<1>5. VLOOKUP(v, records, 2, FALSE) = AmountAt(Lowest(same))
  <2>1. VLOOKUP(v, records, 2, FALSE) = Worth(ExactRow(v, keys))
    BY VlookupIs DEF keys
  <2> QED
    BY <1>2, <2>1, LocatedIs DEF Worth
<1> QED
  BY <1>2, <1>3, <1>4, <1>5 DEF FindsFirst, keys, equal, same

\* In ASCII VLOOKUP and HLOOKUP agree.
LEMMA AsciiAgrees ==
  ASSUME Recorded, Broken = {}, NEW v \in Proper
  PROVE  SameInAscii(v)
<1> SUFFICES ASSUME AllAscii(v) PROVE SameInAscii(v)
  BY DEF SameInAscii
<1>1. /\ KeyColumn \in Seq(Values) /\ v \in Values
      /\ IsAscii(v) /\ \A i \in DOMAIN KeyColumn : IsAscii(KeyColumn[i])
  BY Tables DEF Proper, AllAscii
<1>2. Search("ascii", v, KeyColumn, 1) = Search("unicode", v, KeyColumn, 1)
  BY <1>1, SearchSame
<1>3. ~HasWildcards(v) => ExactRow(v, KeyColumn) = ExactColumn(v, KeyColumn)
  BY <1>1, SearchFirst
<1> QED
  BY <1>2, <1>3, VlookupIs, HlookupIs DEF SameInAscii

\* Lookups by order agree.
LEMMA LastsAgree ==
  ASSUME Recorded, Broken = {}, NEW v \in Proper, Ordered("unicode", v, KeyColumn)
  PROVE  FindsLast(v)
<1> DEFINE keys == KeyColumn
           back == Reverse(keys)
           found == Highest({i \in DOMAIN keys : AtMost("unicode", keys[i], v)})
           above == Highest({i \in DOMAIN back : AtMost("unicode", v, back[i])})
<1>1. /\ keys \in Seq(Values) /\ NoErrors(keys) /\ v \in Values
      /\ Ordered("unicode", v, keys)
  BY Tables, CellsOf DEF Proper
<1> HIDE DEF keys
<1>2. keys \in Seq(Proper)
  <2>1. \A i \in 1 .. Len(keys) : keys[i] \in Proper
    BY <1>1 DEF NoErrors, Proper
  <2> QED
    BY <1>1, <2>1
<1>3. back \in Seq(Values) /\ NoErrors(back)
  <2>1. Len(keys) \in Nat /\ \A i \in 1 .. Len(keys) :
          Len(keys) - i + 1 \in 1 .. Len(keys)
    BY <1>1
  <2>2. back = [i \in 1 .. Len(keys) |-> keys[Len(keys) - i + 1]]
    BY DEF Reverse
  <2>3. \A i \in 1 .. Len(keys) :
          keys[Len(keys) - i + 1] \in Values /\ ~Is("error", keys[Len(keys) - i + 1])
    BY <1>1, <2>1 DEF NoErrors
  <2> HIDE DEF back
  <2>4. back \in Seq(Values) /\ Len(back) = Len(keys)
    BY <2>1, <2>2, <2>3
  <2> QED
    BY <2>2, <2>3, <2>4 DEF NoErrors
<1>4. /\ Located(Search("unicode", v, keys, 1), found)
      /\ Located(Search("unicode", v, back, -1), above)
  BY <1>1, <1>2, SearchLast DEF Foldings
<1> HIDE DEF back, found, above
<1>5. MATCH(v, keys, 1) = Position(found) /\ MATCH(v, back, -1) = Position(above)
  BY <1>1, <1>3, <1>4, MatchIs, LocatedIs
<1>6. Worth(Search("unicode", v, keys, 1)) = AmountAt(found)
  BY <1>4, LocatedIs DEF Worth
<1>7. /\ HLOOKUP(v, Across, 2, TRUE) = AmountAt(found)
      /\ LOOKUP(v, keys, AmountColumn) = AmountAt(found)
      /\ LookupInTable(v, records) = AmountAt(found)
      /\ LookupInTable(v, Across) = AmountAt(found)
  BY <1>6, HlookupIs, LookupIs DEF keys
<1> QED
  BY <1>5, <1>7 DEF FindsLast, keys, back, found, above

\* And VLOOKUP by the order of its own.
LEMMA LastRowAgrees ==
  ASSUME Recorded, Broken = {}, NEW v \in Proper, Ordered("ascii", v, KeyColumn)
  PROVE  FindsLastRow(v)
<1> DEFINE found == Highest({i \in DOMAIN KeyColumn : AtMost("ascii", KeyColumn[i], v)})
<1>1. KeyColumn \in Seq(Values) /\ NoErrors(KeyColumn)
  BY Tables, CellsOf
<1>2. KeyColumn \in Seq(Proper)
  <2> DEFINE keys == KeyColumn
  <2>1. keys \in Seq(Values) /\ \A i \in 1 .. Len(keys) : keys[i] \in Proper
    BY <1>1 DEF NoErrors, Proper
  <2> HIDE DEF keys
  <2> QED
    BY <2>1 DEF keys
<1>3. Located(Search("ascii", v, KeyColumn, 1), found)
  BY <1>2, SearchLast DEF Foldings
<1> HIDE DEF found
<1>4. VLOOKUP(v, records, 2, TRUE) = AmountAt(found)
  BY <1>3, VlookupIs, LocatedIs DEF Worth
<1> QED
  BY <1>4 DEF FindsLastRow, found

\* INDEX and CHOOSE of what MATCH finds are what HLOOKUP shows.
LEMMA IndexAgrees ==
  ASSUME Recorded, Broken = {}, NEW v \in Proper
  PROVE  IndexOfMatch(v)
<1> DEFINE p == Search("unicode", v, KeyColumn, 1)
           position == MATCH(v, KeyColumn, 1)
<1>1. /\ KeyColumn \in Seq(Values) /\ NoErrors(KeyColumn)
      /\ Len(KeyColumn) = MaxRows
  BY Tables, CellsOf
<1>2. position = IF p = 0 THEN NA ELSE Number(p)
  BY <1>1, MatchIs
<1>3. p # 0 => p \in 1 .. MaxRows
  BY <1>1, SearchWithin
<1>4. HLOOKUP(v, Across, 2, TRUE) = Worth(p)
  BY HlookupIs
<1> HIDE DEF p, position
<1>5. CASE p = 0
  <2>1. ~Is("number", position)
    BY <1>2, <1>5, Made DEF NA, Is
  <2> QED
    BY <2>1 DEF IndexOfMatch, position
<1>6. CASE p # 0
  <2>1. position = Number(p) /\ position.number = p /\ p \in 1 .. MaxRows
    BY <1>2, <1>3, <1>6, Made
  <2>2. /\ INDEX(records, position.number, 2) = AmountColumn[p]
        /\ CHOOSEValue(position, AmountColumn) = AmountColumn[p]
        /\ IndexInVector(<<AmountColumn>>, position.number) = AmountColumn[p]
        /\ IndexInVector(Transposed(<<AmountColumn>>), position.number)
             = AmountColumn[p]
    BY <2>1, IndexIs
  <2>3. Shown(AmountColumn[p]) = HLOOKUP(v, Across, 2, TRUE)
    BY <1>4, <1>6 DEF Worth
  <2> QED
    BY <2>2, <2>3 DEF IndexOfMatch, position
<1> QED
  BY <1>5, <1>6

\* An error in the table is the answer.
LEMMA ErrorsShow ==
  ASSUME Recorded, Broken # {}, NEW v \in Proper, NEW approximate \in BOOLEAN
  PROVE  /\ VLOOKUP(v, records, 2, approximate) = Cells(records)[Min(Broken)]
         /\ Is("error", HLOOKUP(v, Across, 2, approximate))
<1>1. v \in Values /\ ~Is("error", v)
  BY DEF Proper
<1>2. Cells(records) \in Seq(Values) /\ Cells(Across) \in Seq(Values)
  BY CellsOf
<1>3. PICK c \in DOMAIN Cells(records) : Is("error", Cells(records)[c])
  BY DEF Broken
<1>4. c \in 1 .. Len(Cells(records))
  BY <1>2
<1>5. \A r : Propagated(<<v>> \o Cells(records), r) = Cells(records)[Min(Broken)]
  BY <1>1, <1>2, <1>3, <1>4, UnsoundArguments DEF Broken
<1>6. PICK d \in 1 .. Len(Cells(Across)) : Is("error", Cells(Across)[d])
  BY CellsOf
<1>7. \A r : Is("error", Propagated(<<v>> \o Cells(Across), r))
  BY <1>1, <1>2, <1>6, UnsoundArguments
<1> QED
  BY <1>5, <1>7 DEF VLOOKUP, HLOOKUP

\* The records stay a table of two columns of values.
RecordsInv == sheet = "records" => Recorded

\* Whatever is typed, the records stay a table of values.
LEMMA RecordsStay == Spec => []RecordsInv
<1>1. Init => RecordsInv
  <2> SUFFICES ASSUME Init, sheet = "records" PROVE Recorded
    BY DEF RecordsInv
  <2>1. PICK amounts \in AmountLists :
          records = [r \in DOMAIN amounts |-> <<Blank, amounts[r]>>]
    BY DEF Init
  <2>2. DOMAIN amounts = 1 .. MaxRows /\ \A r \in 1 .. MaxRows : amounts[r] \in Values
    BY CellsAreValues
  <2>3. Blank \in Values
    BY DEF Values
  <2> QED
    BY <2>1, <2>2, <2>3 DEF Recorded
<1>2. RecordsInv /\ [Next]_vars => RecordsInv'
  <2> SUFFICES ASSUME RecordsInv, [Next]_vars, sheet' = "records"
               PROVE  Recorded'
    BY DEF RecordsInv
  <2>1. CASE UNCHANGED vars
    BY <2>1 DEF RecordsInv, Recorded, vars
  <2>2. ASSUME NEW row \in 1 .. MaxRows, NEW v \in Keys, TypeKey(row, v)
        PROVE  Recorded'
    <3>1. v \in Values
      BY CellsAreValues
    <3>2. records \in [1 .. MaxRows -> Values \X Values]
      BY <2>2 DEF TypeKey, RecordsInv, Recorded
    <3>3. records' = [records EXCEPT ![row][1] = v]
      BY <2>2 DEF TypeKey
    <3> QED
      BY <3>1, <3>2, <3>3 DEF Recorded
  <2>3. ASSUME NEW serial \in Starts, TypeStart(serial) PROVE Recorded'
    BY <2>3 DEF TypeStart, RecordsInv, Recorded
  <2>4. ASSUME NEW n \in Counts, TypeCount(n) PROVE Recorded'
    BY <2>4 DEF TypeCount, RecordsInv, Recorded
  <2>5. ASSUME NEW off \in DaysOff, TypeHolidays(off) PROVE Recorded'
    BY <2>5 DEF TypeHolidays, RecordsInv, Recorded
  <2> QED
    BY <2>1, <2>2, <2>3, <2>4, <2>5 DEF Next
<1> QED
  BY <1>1, <1>2, PTL DEF Spec

\* Whatever the characters and however to_lowercase folds those beyond ASCII, in
\* records of any length and any mix of keys: the lookup functions that fold all
\* of Unicode agree on what is found, VLOOKUP finds what its own ASCII comparison
\* says, never what the others miss, and in ASCII what they find; and an error
\* anywhere in the table is the answer.
THEOREM LookupsAlwaysAgree == Spec => []LookupsAgree
<1>1. RecordsInv => LookupsAgree
  <2> SUFFICES ASSUME RecordsInv, sheet = "records", NEW v \in Wanted
               PROVE  IF Broken = {}
                      THEN /\ FindsFirst(v) /\ IndexOfMatch(v) /\ SameInAscii(v)
                           /\ Ordered("unicode", v, KeyColumn) => FindsLast(v)
                           /\ Ordered("ascii", v, KeyColumn) => FindsLastRow(v)
                      ELSE \A approximate \in BOOLEAN :
                             /\ VLOOKUP(v, records, 2, approximate)
                                  = Cells(records)[Min(Broken)]
                             /\ Is("error", HLOOKUP(v, Across, 2, approximate))
    BY DEF LookupsAgree
  <2>1. Recorded /\ v \in Proper
    BY CellsAreValues DEF RecordsInv, Proper
  <2> QED
    BY <2>1, FirstsAgree, AsciiAgrees, LastsAgree, LastRowAgrees, IndexAgrees,
       ErrorsShow
<1> QED
  BY <1>1, RecordsStay, PTL

------------------------------------------------------------------------------
(* Numbers as they are written.                                            *)

\* A sequence of values without an end, each made from the one before.
IteratesOn(f, b, F) ==
  f[0] = b /\ \A n \in Nat : f[n + 1] = F[<<f[n], n + 1>>]

\* Recursion over all numbers, each value from the one before.
LEMMA RecursionOn ==
  ASSUME NEW V, NEW b \in V, NEW F \in [V \X Nat -> V]
  PROVE  \E f \in [Nat -> V] : IteratesOn(f, b, F)
<1> DEFINE h[n \in Nat] == CHOOSE g \in [0 .. n -> V] : Iterates(g, b, F, n)
           f == [n \in Nat |-> h[n][n]]
<1>1. \A n \in Nat : h[n] \in [0 .. n -> V] /\ Iterates(h[n], b, F, n)
  <2> TAKE n \in Nat
  <2>1. \E g \in [0 .. n -> V] : Iterates(g, b, F, n)
    BY Recursion
  <2>2. h[n] = CHOOSE g \in [0 .. n -> V] : Iterates(g, b, F, n)
    OBVIOUS
  <2> HIDE DEF h
  <2> QED
    BY <2>1, <2>2
<1> HIDE DEF h
<1>2. \A n \in Nat : \A i \in 0 .. n :
        h[n][i] = IF i = 0 THEN b ELSE F[<<h[n][i - 1], i>>]
  BY <1>1 DEF Iterates
<1>3. ASSUME NEW n \in Nat, NEW m \in Nat, n <= m
      PROVE  \A i \in 0 .. n : h[n][i] = h[m][i]
  <2> DEFINE Same == {i \in 0 .. n : h[n][i] = h[m][i]}
  <2>1. 0 \in Same
    <3>1. 0 \in 0 .. n /\ 0 \in 0 .. m
      OBVIOUS
    <3>2. h[n][0] = b /\ h[m][0] = b
      BY <1>2, <3>1
    <3> QED
      BY <3>1, <3>2
  <2>2. ASSUME NEW i \in 0 .. n - 1, i \in Same PROVE i + 1 \in Same
    <3>1. i + 1 \in 0 .. n /\ i + 1 \in 0 .. m /\ i + 1 # 0 /\ i + 1 - 1 = i
      BY <1>3
    <3>2. h[n][i + 1] = F[<<h[n][i], i + 1>>]
      BY <1>2, <3>1
    <3>3. h[m][i + 1] = F[<<h[m][i], i + 1>>]
      BY <1>2, <3>1
    <3> QED
      BY <2>2, <3>1, <3>2, <3>3
  <2> HIDE DEF Same
  <2>3. \A i \in 0 .. n : i \in Same
    BY <2>1, <2>2, UpTo
  <2> QED
    BY <2>3 DEF Same
<1>4. f \in [Nat -> V] /\ f[0] = b
  <2>1. \A n \in Nat : h[n][n] \in V
    BY <1>1
  <2>2. h[0][0] = b
    <3>1. 0 \in Nat /\ 0 \in 0 .. 0
      OBVIOUS
    <3> QED
      BY <1>2, <3>1
  <2> QED
    BY <2>1, <2>2
<1>5. ASSUME NEW n \in Nat PROVE f[n + 1] = F[<<f[n], n + 1>>]
  <2>1. n + 1 \in Nat /\ n + 1 # 0 /\ n + 1 - 1 = n /\ n + 1 \in 0 .. n + 1
    OBVIOUS
  <2>2. h[n + 1][n + 1] = F[<<h[n + 1][n], n + 1>>]
    BY <1>2, <2>1
  <2>3. h[n][n] = h[n + 1][n]
    BY <1>3, <2>1
  <2> QED
    BY <2>1, <2>2, <2>3
<1> HIDE DEF f
<1> QED
  BY <1>4, <1>5 DEF IteratesOn

\* A property of numbers that follows from that of all lesser ones.
LEMMA Lesser ==
  ASSUME NEW S, \A n \in Nat : (\A k \in 0 .. n - 1 : k \in S) => n \in S
  PROVE  \A n \in Nat : n \in S
<1> DEFINE Bad == {n \in Nat : n \notin S}
<1>1. SUFFICES ASSUME Bad # {} PROVE FALSE
  OBVIOUS
<1>2. PICK n \in Bad : \A i \in Bad : n <= i
  <2>1. Bad \in SUBSET Nat
    OBVIOUS
  <2> HIDE DEF Bad
  <2> QED
    BY <1>1, <2>1, Smallest
<1>3. n \in Nat /\ n \notin S
  OBVIOUS
<1>4. \A k \in 0 .. n - 1 : k \in S
  <2> TAKE k \in 0 .. n - 1
  <2>1. k \in Nat /\ ~(n <= k)
    BY <1>3
  <2> QED
    BY <1>2, <2>1
<1> QED
  BY <1>3, <1>4

Numeral(f, k) == IF k < 10 THEN <<48 + k>> ELSE f[k \div 10] \o <<48 + (k % 10)>>

\* The digits of a number are characters if those of smaller ones are.
LEMMA NumeralIs ==
  ASSUME NEW f \in [Nat -> Seq(Characters)], NEW k \in Nat
  PROVE  Numeral(f, k) \in Seq(Characters)
<1>1. CASE k < 10
  <2>0. 48 + k \in 0 .. 127
    BY <1>1
  <2>1. 48 + k \in Characters
    BY <2>0, CharactersAre
  <2> QED
    BY <1>1, <2>1 DEF Numeral
<1>2. CASE ~(k < 10)
  <2>1. k % 10 \in 0 .. 9 /\ k \div 10 \in Nat
    OBVIOUS
  <2>0. 48 + (k % 10) \in 0 .. 127
    BY <2>1
  <2>2. 48 + (k % 10) \in Characters
    BY <2>0, CharactersAre
  <2>3. f[k \div 10] \in Seq(Characters)
    BY <2>1
  <2>4. <<48 + (k % 10)>> \in Seq(Characters)
    BY <2>2
  <2> QED
    BY <1>2, <2>3, <2>4 DEF Numeral
<1> QED
  BY <1>1, <1>2

LEMMA NumeralsExist ==
  \E f \in [Nat -> Seq(Characters)] : f = [k \in Nat |-> Numeral(f, k)]
<1> DEFINE V == [Nat -> Seq(Characters)]
           none == [k \in Nat |-> <<>>]
           F == [c \in V \X Nat |-> [k \in Nat |-> Numeral(c[1], k)]]
<1>1. none \in V
  OBVIOUS
<1>2. F \in [V \X Nat -> V]
  <2>1. \A f \in V : [k \in Nat |-> Numeral(f, k)] \in V
    BY NumeralIs
  <2> HIDE DEF V
  <2> QED
    BY <2>1
<1>3. \A f \in V, n \in Nat, k \in Nat : F[<<f, n>>][k] = Numeral(f, k)
  <2> HIDE DEF V
  <2> QED
    OBVIOUS
<1>4. PICK g \in [Nat -> V] : IteratesOn(g, none, F)
  <2> HIDE DEF V, none, F
  <2> QED
    BY <1>1, <1>2, RecursionOn
<1>5. \A n \in Nat, k \in Nat : g[n + 1][k] = Numeral(g[n], k)
  <2> HIDE DEF V, none, F
  <2> TAKE n \in Nat, k \in Nat
  <2>1. g[n + 1] = F[<<g[n], n + 1>>] /\ g[n] \in V /\ n + 1 \in Nat
    BY <1>4 DEF IteratesOn
  <2> QED
    BY <1>3, <2>1
<1> DEFINE f == [k \in Nat |-> g[k + 1][k]]
           Good == {n \in Nat : \A m \in Nat : m > n => g[m][n] = f[n]}
<1>6. ASSUME NEW n \in Nat, \A k \in 0 .. n - 1 : k \in Good
      PROVE  n \in Good
  <2> SUFFICES ASSUME NEW m \in Nat, m > n PROVE g[m][n] = g[n + 1][n]
    OBVIOUS
  <2>1. m - 1 \in Nat /\ m - 1 + 1 = m
    OBVIOUS
  <2>2. g[m][n] = Numeral(g[m - 1], n)
    BY <1>5, <2>1
  <2>3. g[n + 1][n] = Numeral(g[n], n)
    BY <1>5
  <2>4. ~(n < 10) => g[m - 1][n \div 10] = g[n][n \div 10]
    <3> SUFFICES ASSUME ~(n < 10) PROVE g[m - 1][n \div 10] = g[n][n \div 10]
      OBVIOUS
    <3>1. n \div 10 \in 0 .. n - 1
      OBVIOUS
    <3>2. n \div 10 \in Good /\ m - 1 > n \div 10 /\ n > n \div 10
      BY <1>6, <2>1, <3>1
    <3> QED
      BY <2>1, <3>2
  <2> QED
    BY <2>2, <2>3, <2>4 DEF Numeral
<1>7. \A n \in Nat : n \in Good
  <2> HIDE DEF Good
  <2> QED
    BY <1>6, Lesser
<1>8. f \in [Nat -> Seq(Characters)]
  OBVIOUS
<1>9. \A k \in Nat : f[k] = Numeral(f, k)
  <2> TAKE k \in Nat
  <2>1. f[k] = Numeral(g[k], k)
    BY <1>5
  <2>2. ~(k < 10) => g[k][k \div 10] = f[k \div 10]
    <3> SUFFICES ASSUME ~(k < 10) PROVE g[k][k \div 10] = f[k \div 10]
      OBVIOUS
    <3>1. k \div 10 \in Nat /\ k > k \div 10
      OBVIOUS
    <3> QED
      BY <1>7, <3>1
  <2> HIDE DEF f
  <2> QED
    BY <2>1, <2>2 DEF Numeral
<1>10. f = [k \in Nat |-> Numeral(f, k)]
  <2>1. f = [k \in Nat |-> f[k]]
    OBVIOUS
  <2> HIDE DEF f
  <2> QED
    BY <1>9, <2>1
<1> HIDE DEF f
<1> QED
  BY <1>8, <1>10

\* A number is written in characters.
LEMMA WrittenIs ==
  ASSUME NEW n \in Int
  PROVE  Written(n) \in Seq(Characters)
<1> DEFINE Is10(f) == f = [k \in Nat |-> IF k < 10 THEN <<48 + k>>
                                        ELSE f[k \div 10] \o <<48 + (k % 10)>>]
           f == CHOOSE f : Is10(f)
<1>1. Written(n) = IF n < 0 THEN <<Minus>> \o f[-n] ELSE f[n]
  BY Zenon DEF Written
<1>2. \A g : Is10(g) <=> g = [k \in Nat |-> Numeral(g, k)]
  BY DEF Numeral
<1>3. Is10(f)
  BY <1>2, NumeralsExist
<1>4. \A k \in Nat : f[k] = Numeral(f, k)
  BY <1>2, <1>3
<1> HIDE DEF f
<1> DEFINE Good == {k \in Nat : f[k] \in Seq(Characters)}
<1>5. ASSUME NEW k \in Nat, \A i \in 0 .. k - 1 : i \in Good
      PROVE  k \in Good
  <2>1. CASE k < 10
    <3>0. 48 + k \in 0 .. 127
      BY <2>1
    <3>1. 48 + k \in Characters
      BY <3>0, CharactersAre
    <3>2. <<48 + k>> \in Seq(Characters)
      BY <3>1
    <3>3. f[k] = <<48 + k>>
      BY <1>4, <2>1 DEF Numeral
    <3> QED
      BY <3>2, <3>3
  <2>2. CASE ~(k < 10)
    <3>1. k % 10 \in 0 .. 9 /\ k \div 10 \in 0 .. k - 1
      BY <2>2
    <3>0. 48 + (k % 10) \in 0 .. 127
      BY <3>1
    <3>2. 48 + (k % 10) \in Characters
      BY <3>0, CharactersAre
    <3>3. f[k \div 10] \in Seq(Characters)
      BY <1>5, <3>1
    <3>4. f[k] = f[k \div 10] \o <<48 + (k % 10)>>
      BY <1>4, <2>2 DEF Numeral
    <3>5. <<48 + (k % 10)>> \in Seq(Characters)
      BY <3>2
    <3>6. f[k] \in Seq(Characters)
      BY <3>3, <3>4, <3>5
    <3> QED
      BY <3>6
  <2> QED
    BY <2>1, <2>2
<1>6. \A k \in Nat : k \in Good
  <2> HIDE DEF Good
  <2> QED
    BY <1>5, Lesser
<1>7. <<Minus>> \in Seq(Characters)
  <2>1. Minus \in Characters
    BY CharactersAre DEF Minus
  <2> QED
    BY <2>1
<1>8. CASE n < 0
  <2>1. -n \in Nat
    BY <1>8
  <2>2. f[-n] \in Seq(Characters)
    BY <1>6, <2>1
  <2> QED
    BY <1>1, <1>7, <1>8, <2>2
<1>9. CASE ~(n < 0)
  BY <1>1, <1>6, <1>9
<1> QED
  BY <1>8, <1>9

\* So every value but an error reads as a text.
LEMMA ToTextIs ==
  ASSUME NEW v \in Proper
  PROVE  ToText(v) \in Seq(Characters)
<1>1. v \in Values /\ ~Is("error", v)
  BY DEF Proper
<1>2. True \in Seq(Characters) /\ False \in Seq(Characters)
  <2>1. {84, 82, 85, 69, 70, 65, 76, 83} \subseteq Characters
    BY CharactersAre
  <2> QED
    BY <2>1 DEF True, False
<1>3. PICK k \in KindNames : DOMAIN v = {k}
  BY <1>1, Kinds
<1>4. CASE Is("text", v)
  <2>1. ~Is("number", v) /\ ~Is("boolean", v) /\ ~Is("blank", v)
    BY <1>1, <1>4, OneKind
  <2>2. ToText(v) = v.text
    BY <1>4, <2>1 DEF ToText
  <2> QED
    BY <1>1, <1>4, <2>2, Kinds
<1>5. CASE Is("number", v)
  <2>1. ~Is("text", v) /\ ~Is("boolean", v) /\ ~Is("blank", v)
    BY <1>1, <1>5, OneKind
  <2>2. ToText(v) = Written(v.number)
    BY <1>5, <2>1 DEF ToText
  <2> QED
    BY <1>1, <1>5, <2>2, Kinds, WrittenIs
<1>6. CASE Is("boolean", v)
  <2>1. ~Is("text", v) /\ ~Is("number", v) /\ ~Is("blank", v)
    BY <1>1, <1>6, OneKind
  <2> QED
    BY <1>2, <1>6, <2>1 DEF ToText
<1>7. CASE Is("blank", v)
  <2>1. ~Is("text", v) /\ ~Is("number", v) /\ ~Is("boolean", v)
    BY <1>1, <1>7, OneKind
  <2> QED
    BY <1>7, <2>1 DEF ToText
<1> QED
  BY <1>1, <1>3, <1>4, <1>5, <1>6, <1>7 DEF Is, KindNames

------------------------------------------------------------------------------
(* Sums over sets of cells.                                                *)

\* What holds of the empty set and, for a set, follows from what remains when
\* one is taken, holds of all subsets of a finite set.
LEMMA Removing ==
  ASSUME NEW D, IsFiniteSet(D), NEW P, {} \in P,
         \A T \in SUBSET D : T # {} /\ (\A x \in T : T \ {x} \in P) => T \in P
  PROVE  \A T \in SUBSET D : T \in P
<1> DEFINE Good == {n \in Nat : \A T \in SUBSET D : Cardinality(T) = n => T \in P}
<1>1. \A T \in SUBSET D : IsFiniteSet(T) /\ Cardinality(T) \in Nat
  BY FS_Subset, FS_CardinalityType
<1>2. 0 \in Good
  <2>1. \A T \in SUBSET D : Cardinality(T) = 0 => T = {}
    BY <1>1, FS_EmptySet
  <2> QED
    BY <2>1
<1>3. ASSUME NEW n \in Nat, n \in Good PROVE n + 1 \in Good
  <2> SUFFICES ASSUME NEW T \in SUBSET D, Cardinality(T) = n + 1 PROVE T \in P
    OBVIOUS
  <2>1. T # {}
    BY <1>1, FS_EmptySet
  <2>2. ASSUME NEW x \in T PROVE T \ {x} \in P
    <3>1. Cardinality(T \ {x}) = n
      <4>1. IsFiniteSet(T) /\ Cardinality(T) = n + 1
        BY <1>1
      <4>2. Cardinality(T \ {x}) = Cardinality(T) - 1
        BY ONLY <4>1, x \in T, FS_RemoveElement
      <4> QED
        BY <4>1, <4>2
    <3>2. T \ {x} \in SUBSET D
      OBVIOUS
    <3> QED
      BY <1>3, <3>1, <3>2
  <2> QED
    BY <2>1, <2>2
<1>4. \A n \in Nat : n \in Good
  <2> HIDE DEF Good
  <2> TAKE n \in Nat
  <2> QED
    BY <1>2, <1>3, UpTo
<1> QED
  BY <1>1, <1>4

\* The function a sum fills in.
SumFold(range, S, g) ==
  g = [s \in SUBSET S |->
         IF s = {} THEN 0
         ELSE SumNumber(range[CHOOSE x \in s : TRUE])
                + g[s \ {CHOOSE x \in s : TRUE}]]

LEMMA TotalIsFolded ==
  ASSUME NEW range, NEW S
  PROVE  Total(range, S) = (CHOOSE g : SumFold(range, S, g))[S]
BY Zenon DEF Total, MapThenSumSet, MapThenFoldSet, SumFold

SumsBy(range, S, g) ==
  \A s \in SUBSET S :
    g[s] = IF s = {} THEN 0
           ELSE SumNumber(range[CHOOSE x \in s : TRUE])
                  + g[s \ {CHOOSE x \in s : TRUE}]

LEMMA SumFoldExists ==
  ASSUME NEW range, NEW S, IsFiniteSet(S),
         \A i \in S : SumNumber(range[i]) \in Int
  PROVE  \E g \in [SUBSET S -> Int] : SumFold(range, S, g)
<1> DEFINE c == [s \in (SUBSET S) \ {{}} |-> CHOOSE x \in s : TRUE]
           F == [p \in S \X Int |-> SumNumber(range[p[1]]) + p[2]]
<1>1. Chooses(c, S)
  <2>1. \A s \in (SUBSET S) \ {{}} : (CHOOSE x \in s : TRUE) \in s
    OBVIOUS
  <2> QED
    BY <2>1 DEF Chooses
<1>2. F \in [S \X Int -> Int]
  OBVIOUS
<1>3. PICK g \in [SUBSET S -> Int] : FoldsBy(g, S, 0, c, F)
  <2> DEFINE V == Int
             zero == 0
  <2>1. zero \in V /\ F \in [S \X V -> V]
    BY <1>2
  <2> HIDE DEF c, F, V, zero
  <2>2. \E g \in [SUBSET S -> V] : FoldsBy(g, S, zero, c, F)
    BY <1>1, <2>1, SetRecursion
  <2> QED
    BY <2>2 DEF V, zero
<1>4. \A s \in SUBSET S :
        g[s] = IF s = {} THEN 0
               ELSE SumNumber(range[CHOOSE x \in s : TRUE])
                      + g[s \ {CHOOSE x \in s : TRUE}]
  <2> TAKE s \in SUBSET S
  <2>1. CASE s = {}
    BY <1>3, <2>1 DEF FoldsBy
  <2>2. CASE s # {}
    <3> DEFINE x == CHOOSE x \in s : TRUE
    <3>1. c[s] = x /\ x \in S /\ s \ {x} \in SUBSET S
      BY <2>2
    <3>2. \A i \in S, n \in Int : F[<<i, n>>] = SumNumber(range[i]) + n
      OBVIOUS
    <3> HIDE DEF x, c, F
    <3>3. g[s \ {x}] \in Int
      BY <3>1
    <3>4. g[s] = F[<<x, g[s \ {x}]>>]
      BY <1>3, <2>2, <3>1 DEF FoldsBy
    <3>5. g[s] = SumNumber(range[x]) + g[s \ {x}]
      BY <3>1, <3>2, <3>3, <3>4
    <3> QED
      BY <2>2, <3>5 DEF x
  <2> QED
    BY <2>1, <2>2
<1>5. SumFold(range, S, g)
  <2>1. g = [s \in SUBSET S |-> g[s]]
    OBVIOUS
  <2> QED
    BY <1>4, <2>1 DEF SumFold
<1> QED
  BY <1>5

\* Sums of all subsets come from one function.
LEMMA Totals ==
  ASSUME NEW range, NEW D, IsFiniteSet(D),
         \A i \in D : SumNumber(range[i]) \in Int
  PROVE  \E g \in [SUBSET D -> Int] :
           /\ SumsBy(range, D, g)
           /\ \A S \in SUBSET D : Total(range, S) = g[S]
<1>1. PICK g \in [SUBSET D -> Int] : SumFold(range, D, g)
  BY SumFoldExists
<1>2. SumsBy(range, D, g)
  BY <1>1 DEF SumFold, SumsBy
<1>3. ASSUME NEW S \in SUBSET D PROVE Total(range, S) = g[S]
  <2> DEFINE h == CHOOSE h : SumFold(range, S, h)
  <2>1. IsFiniteSet(S) /\ \A i \in S : SumNumber(range[i]) \in Int
    BY FS_Subset
  <2>2. \E k : SumFold(range, S, k)
    BY <2>1, SumFoldExists
  <2>3. SumFold(range, S, h)
    BY <2>2
  <2>4. Total(range, S) = h[S]
    BY TotalIsFolded
  <2> HIDE DEF h
  <2>5. SumsBy(range, S, h)
    BY <2>3 DEF SumFold, SumsBy
  <2> DEFINE P == {T \in SUBSET S : h[T] = g[T]}
  <2>6. {} \in P
    BY <1>2, <2>5 DEF SumsBy
  <2>7. ASSUME NEW T \in SUBSET S, T # {}, \A x \in T : T \ {x} \in P
        PROVE  T \in P
    <3> DEFINE x == CHOOSE x \in T : TRUE
    <3>1. x \in T /\ T \in SUBSET D
      BY <2>7
    <3>2. h[T] = SumNumber(range[x]) + h[T \ {x}]
      BY <2>5, <2>7 DEF SumsBy
    <3>3. g[T] = SumNumber(range[x]) + g[T \ {x}]
      BY <1>2, <2>7, <3>1 DEF SumsBy
    <3>4. h[T \ {x}] = g[T \ {x}]
      BY <2>7, <3>1
    <3> QED
      BY <3>2, <3>3, <3>4
  <2>8. S \in P
    <3> HIDE DEF P
    <3> QED
      BY <2>1, <2>6, <2>7, Removing
  <2> QED
    BY <2>4, <2>8
<1> QED
  BY <1>2, <1>3

\* Whichever cell is taken first.
LEMMA TotalOf ==
  ASSUME NEW range, NEW D, IsFiniteSet(D),
         \A i \in D : SumNumber(range[i]) \in Int
  PROVE  /\ Total(range, {}) = 0
         /\ \A S \in SUBSET D : Total(range, S) \in Int
         /\ \A S \in SUBSET D : \A x \in S :
              Total(range, S) = SumNumber(range[x]) + Total(range, S \ {x})
<1>1. PICK g \in [SUBSET D -> Int] :
        /\ SumsBy(range, D, g)
        /\ \A S \in SUBSET D : Total(range, S) = g[S]
  BY Totals
<1>2. g[{}] = 0
  BY <1>1 DEF SumsBy
<1> DEFINE P == {S \in SUBSET D :
                   \A x \in S : g[S] = SumNumber(range[x]) + g[S \ {x}]}
<1>3. ASSUME NEW S \in SUBSET D, S # {}, \A x \in S : S \ {x} \in P
      PROVE  S \in P
  <2> DEFINE c == CHOOSE x \in S : TRUE
             N(x) == SumNumber(range[x])
  <2>1. c \in S
    BY <1>3
  <2>2. g[S] = N(c) + g[S \ {c}]
    BY <1>1, <1>3 DEF SumsBy
  <2> HIDE DEF c
  <2> SUFFICES ASSUME NEW x \in S PROVE g[S] = N(x) + g[S \ {x}]
    OBVIOUS
  <2>3. CASE x = c
    BY <2>2, <2>3
  <2>4. CASE x # c
    <3>1. x \in S \ {c} /\ c \in S \ {x} /\ (S \ {c}) \ {x} = (S \ {x}) \ {c}
      BY <2>1, <2>4
    <3>2. g[S \ {c}] = N(x) + g[(S \ {c}) \ {x}]
      BY <1>3, <2>1, <3>1
    <3>3. g[S \ {x}] = N(c) + g[(S \ {x}) \ {c}]
      BY <1>3, <3>1
    <3>4. (S \ {x}) \ {c} \in SUBSET D /\ g[(S \ {x}) \ {c}] \in Int
      OBVIOUS
    <3>5. N(x) \in Int /\ N(c) \in Int
      BY <2>1
    <3> DEFINE rest == g[(S \ {x}) \ {c}]
    <3>6. g[S \ {c}] = N(x) + rest /\ g[S \ {x}] = N(c) + rest /\ rest \in Int
      BY <3>1, <3>2, <3>3, <3>4
    <3> HIDE DEF N, rest
    <3>7. g[S] = N(c) + (N(x) + rest)
      BY <2>2, <3>6
    <3>8. g[S] = N(x) + (N(c) + rest)
      BY <3>5, <3>6, <3>7
    <3> QED
      BY <3>6, <3>8
  <2> QED
    BY <2>3, <2>4
<1>4. \A S \in SUBSET D : S \in P
  <2>1. {} \in P
    OBVIOUS
  <2> HIDE DEF P
  <2> QED
    BY <1>3, <2>1, Removing
<1>5. \A S \in SUBSET D : \A x \in S : S \ {x} \in SUBSET D
  OBVIOUS
<1> QED
  BY <1>1, <1>2, <1>4, <1>5

\* The total of two sets apart is the sum of theirs.
LEMMA TotalApart ==
  ASSUME NEW range, NEW D, IsFiniteSet(D),
         \A i \in D : SumNumber(range[i]) \in Int,
         NEW A \in SUBSET D, NEW B \in SUBSET D, A \cap B = {}
  PROVE  Total(range, A \cup B) = Total(range, A) + Total(range, B)
<1> DEFINE P == {S \in SUBSET B :
                   Total(range, A \cup S) = Total(range, A) + Total(range, S)}
<1>1. Total(range, {}) = 0 /\ \A S \in SUBSET D : Total(range, S) \in Int
  BY TotalOf
<1>2. {} \in P
  <2>1. A \cup {} = A
    OBVIOUS
  <2> QED
    BY <1>1, <2>1
<1>3. ASSUME NEW S \in SUBSET B, S # {}, \A x \in S : S \ {x} \in P
      PROVE  S \in P
  <2>1. PICK x \in S : TRUE
    BY <1>3
  <2>2. /\ S \in SUBSET D /\ A \cup S \in SUBSET D /\ x \in A \cup S /\ x \in D
        /\ (A \cup S) \ {x} = A \cup (S \ {x}) /\ S \ {x} \in SUBSET D
    OBVIOUS
  <2>3. Total(range, S) = SumNumber(range[x]) + Total(range, S \ {x})
    BY <2>2, TotalOf
  <2>4. Total(range, A \cup S)
          = SumNumber(range[x]) + Total(range, (A \cup S) \ {x})
    BY <2>2, TotalOf
  <2>5. Total(range, A \cup (S \ {x})) = Total(range, A) + Total(range, S \ {x})
    BY <1>3
  <2>6. /\ Total(range, A) \in Int /\ Total(range, S \ {x}) \in Int
        /\ SumNumber(range[x]) \in Int
    BY <1>1, <2>2
  <2>7. Total(range, A \cup S) = Total(range, A) + Total(range, S)
    <3> DEFINE a == Total(range, A)
               t == Total(range, S \ {x})
               n == SumNumber(range[x])
    <3>1. Total(range, A \cup S) = n + (a + t) /\ Total(range, S) = n + t
      BY <2>2, <2>3, <2>4, <2>5
    <3>2. a \in Int /\ t \in Int /\ n \in Int
      BY <2>6
    <3> HIDE DEF a, t, n
    <3>3. n + (a + t) = a + (n + t)
      BY <3>2
    <3> QED
      BY <3>1, <3>3 DEF a
  <2> QED
    BY <2>7
<1>4. B \in P
  <2>1. IsFiniteSet(B)
    BY FS_Subset
  <2> HIDE DEF P
  <2> QED
    BY <1>2, <1>3, <2>1, Removing
<1> QED
  BY <1>4

\* A total lies between the bounds of its cells, as often as there are cells.
LEMMA TotalBounds ==
  ASSUME NEW range, NEW D, IsFiniteSet(D), NEW low \in Int, NEW high \in Int,
         \A i \in D : /\ SumNumber(range[i]) \in Int
                      /\ low <= SumNumber(range[i]) /\ SumNumber(range[i]) <= high
  PROVE  /\ Total(range, D) >= low * Cardinality(D)
         /\ Total(range, D) <= high * Cardinality(D)
<1> DEFINE P == {S \in SUBSET D : /\ Total(range, S) >= low * Cardinality(S)
                                  /\ Total(range, S) <= high * Cardinality(S)}
<1>1. \A S \in SUBSET D : IsFiniteSet(S) /\ Cardinality(S) \in Nat
  BY FS_Subset, FS_CardinalityType
<1>2. {} \in P
  <2>1. Total(range, {}) = 0 /\ Cardinality({}) = 0
    BY TotalOf, FS_EmptySet
  <2>2. low * 0 = 0 /\ high * 0 = 0
    OBVIOUS
  <2> QED
    BY <2>1, <2>2
<1>3. ASSUME NEW S \in SUBSET D, S # {}, \A x \in S : S \ {x} \in P
      PROVE  S \in P
  <2>1. PICK x \in S : TRUE
    BY <1>3
  <2> DEFINE n == Cardinality(S \ {x})
             t == Total(range, S \ {x})
             a == SumNumber(range[x])
  <2>2. n \in Nat /\ Cardinality(S) = n + 1
    <3>1. IsFiniteSet(S) /\ S \ {x} \in SUBSET D
      BY <1>1
    <3>2. Cardinality(S \ {x}) = Cardinality(S) - 1
      BY ONLY <3>1, x \in S, FS_RemoveElement
    <3> QED
      BY <1>1, <3>1, <3>2
  <2>3. Total(range, S) = a + t /\ t \in Int
    <3>1. S \ {x} \in SUBSET D
      OBVIOUS
    <3> QED
      BY <3>1, TotalOf
  <2>4. a \in Int /\ low <= a /\ a <= high
    OBVIOUS
  <2>5. t >= low * n /\ t <= high * n
    BY <1>3
  <2> HIDE DEF n, t, a
  <2>6. low * (n + 1) = low * n + low /\ high * (n + 1) = high * n + high
    BY <2>2
  <2>7. low * n \in Int /\ high * n \in Int
    BY <2>2
  <2>8. a + t >= low * (n + 1) /\ a + t <= high * (n + 1)
    BY <2>3, <2>4, <2>5, <2>6, <2>7
  <2> QED
    BY <2>2, <2>3, <2>8
<1>4. D \in P
  <2> HIDE DEF P
  <2> QED
    BY <1>2, <1>3, Removing
<1> QED
  BY <1>4

------------------------------------------------------------------------------
(* Criteria.                                                               *)

OperatorNames == {"=", "<>", "<", ">", "<=", ">="}

\* The operators as they are written.
LEMMA CodesAre ==
  /\ DOMAIN Codes = OperatorNames
  /\ Codes["="] = <<61>> /\ Codes["<>"] = <<60, 62>> /\ Codes["<"] = <<60>>
  /\ Codes[">"] = <<62>> /\ Codes["<="] = <<60, 61>> /\ Codes[">="] = <<62, 61>>
BY DEF Codes, OperatorNames

LEMMA CodesAreTexts ==
  ASSUME NEW op \in OperatorNames
  PROVE  Codes[op] \in Seq(Characters)
<1>1. 60 \in Characters /\ 61 \in Characters /\ 62 \in Characters
  BY CharactersAre
<1>2. /\ <<60>> \in Seq(Characters) /\ <<61>> \in Seq(Characters)
      /\ <<62>> \in Seq(Characters) /\ <<60, 61>> \in Seq(Characters)
      /\ <<60, 62>> \in Seq(Characters) /\ <<62, 61>> \in Seq(Characters)
  BY <1>1
<1>3. \/ op = "=" \/ op = "<>" \/ op = "<" \/ op = ">"
      \/ op = "<=" \/ op = ">="
  BY DEF OperatorNames
<1>4. CASE op = "="
  BY <1>2, <1>4, CodesAre
<1>5. CASE op = "<>"
  BY <1>2, <1>5, CodesAre
<1>6. CASE op = "<"
  BY <1>2, <1>6, CodesAre
<1>7. CASE op = ">"
  BY <1>2, <1>7, CodesAre
<1>8. CASE op = "<="
  BY <1>2, <1>8, CodesAre
<1>9. CASE op = ">="
  BY <1>2, <1>9, CodesAre
<1> QED
  BY <1>3, <1>4, <1>5, <1>6, <1>7, <1>8, <1>9

\* A text begins with another, in particular with a code of one character or
\* two.
LEMMA BeginsWith ==
  ASSUME NEW V, NEW s \in Seq(V), NEW p \in Seq(V)
  PROVE  IsPrefix(p, s) <=> Len(p) <= Len(s) /\ \A k \in 1 .. Len(p) : p[k] = s[k]
<1>1. Len(s) \in Nat /\ Len(p) \in Nat
  OBVIOUS
<1>2. ASSUME Len(p) <= Len(s)
      PROVE  SubSeq(p, 1, Len(p)) = SubSeq(s, 1, Len(p))
               <=> \A k \in 1 .. Len(p) : p[k] = s[k]
  <2> DEFINE a == SubSeq(p, 1, Len(p))
             b == SubSeq(s, 1, Len(p))
  <2>1. /\ a \in Seq(V) /\ b \in Seq(V) /\ Len(a) = Len(p) /\ Len(b) = Len(p)
        /\ \A k \in 1 .. Len(p) : a[k] = p[k] /\ b[k] = s[k]
    BY <1>1, <1>2
  <2> HIDE DEF a, b
  <2>2. ASSUME \A k \in 1 .. Len(p) : p[k] = s[k] PROVE a = b
    BY <2>1, <2>2, SeqEqual
  <2>3. ASSUME a = b PROVE \A k \in 1 .. Len(p) : p[k] = s[k]
    BY <2>1, <2>3
  <2> QED
    BY <2>2, <2>3 DEF a, b
<1> QED
  BY <1>1, <1>2 DEF IsPrefix

LEMMA BeginsWithOne ==
  ASSUME NEW s \in Seq(Characters), NEW x \in Characters
  PROVE  IsPrefix(<<x>>, s) <=> Len(s) >= 1 /\ s[1] = x
<1>1. /\ <<x>> \in Seq(Characters) /\ Len(<<x>>) = 1 /\ <<x>>[1] = x
      /\ Len(s) \in Nat
  OBVIOUS
<1>2. IsPrefix(<<x>>, s)
        <=> Len(<<x>>) <= Len(s) /\ \A k \in 1 .. Len(<<x>>) : <<x>>[k] = s[k]
  BY <1>1, BeginsWith
<1>3. \A k : k \in 1 .. 1 <=> k = 1
  OBVIOUS
<1> QED
  BY <1>1, <1>2, <1>3

LEMMA BeginsWithTwo ==
  ASSUME NEW s \in Seq(Characters), NEW x \in Characters, NEW y \in Characters
  PROVE  IsPrefix(<<x, y>>, s) <=> Len(s) >= 2 /\ s[1] = x /\ s[2] = y
<1> DEFINE p == <<x, y>>
<1>1. /\ p \in Seq(Characters) /\ Len(p) = 2 /\ p[1] = x /\ p[2] = y
      /\ Len(s) \in Nat
  OBVIOUS
<1> HIDE DEF p
<1>2. IsPrefix(p, s) <=> Len(p) <= Len(s) /\ \A k \in 1 .. Len(p) : p[k] = s[k]
  BY <1>1, BeginsWith
<1>3. \A k : k \in 1 .. 2 <=> k = 1 \/ k = 2
  OBVIOUS
<1>4. IsPrefix(p, s) <=> Len(s) >= 2 /\ s[1] = x /\ s[2] = y
  BY <1>1, <1>2, <1>3
<1> QED
  BY <1>4 DEF p

\* What follows a text it was put behind.
LEMMA RestOf ==
  ASSUME NEW V, NEW a \in Seq(V), NEW b \in Seq(V)
  PROVE  SubSeq(a \o b, Len(a) + 1, Len(a \o b)) = b
<1> DEFINE c == a \o b
           d == SubSeq(c, Len(a) + 1, Len(c))
<1>1. /\ c \in Seq(V) /\ Len(c) = Len(a) + Len(b)
      /\ \A i \in 1 .. Len(b) : c[Len(a) + i] = b[i]
      /\ Len(a) \in Nat /\ Len(b) \in Nat
  OBVIOUS
<1> HIDE DEF c
<1>2. /\ d \in Seq(V) /\ Len(d) = Len(b)
      /\ \A i \in 1 .. Len(b) : d[i] = c[Len(a) + 1 + i - 1]
  BY <1>1
<1> HIDE DEF d
<1>3. \A i \in 1 .. Len(b) : Len(a) + 1 + i - 1 = Len(a) + i
  BY <1>1
<1>4. d = b
  BY <1>1, <1>2, <1>3, SeqEqual
<1> QED
  BY <1>4 DEF c, d

\* Which of the codes, in the order they are tried, a text begins with.
LEMMA CriterionTries ==
  ASSUME NEW s \in Seq(Characters), NEW k \in 1 .. 6,
         IsPrefix(Codes[Operators[k]], s),
         \A i \in 1 .. k - 1 : ~IsPrefix(Codes[Operators[i]], s)
  PROVE  Criterion(s) = [op |-> Operators[k],
                         operand |-> SubSeq(s, Len(Codes[Operators[k]]) + 1, Len(s))]
<1> DEFINE I == {i \in 1 .. Len(Operators) : IsPrefix(Codes[Operators[i]], s)}
           found == SelectInSeq(Operators, LAMBDA op : IsPrefix(Codes[op], s))
<1>1. Len(Operators) = 6
  BY DEF Operators
<1>2. found = IF I # {} THEN Min(I) ELSE 0
  BY DEF SelectInSeq
<1>3. k \in I /\ \A i \in I : k <= i
  BY <1>1
<1>4. I \in SUBSET Nat
  OBVIOUS
<1> HIDE DEF I
<1>5. Min(I) \in I /\ \A i \in I : Min(I) <= i
  BY <1>3, <1>4, Least
<1>6. Min(I) = k
  <2>1. Min(I) \in Nat /\ Min(I) <= k /\ k <= Min(I)
    BY <1>3, <1>4, <1>5
  <2> QED
    BY <2>1
<1>7. found = k /\ k # 0
  BY <1>2, <1>3, <1>6
<1> QED
  BY <1>7 DEF Criterion

\* An operator and an operand are read as they were written.
LEMMA CriterionIs ==
  ASSUME NEW op \in OperatorNames, NEW operand \in Seq(Characters),
         operand = <<>> \/ Head(operand) \notin {61, 62}
  PROVE  Criterion(Codes[op] \o operand) = [op |-> op, operand |-> operand]
<1> DEFINE s == Codes[op] \o operand
           Has(o) == IsPrefix(Codes[o], s)
<1>0. Codes[op] \in Seq(Characters)
  BY CodesAreTexts
<1>1. s \in Seq(Characters) /\ Len(s) \in Nat
  BY <1>0
<1>2. SubSeq(s, Len(Codes[op]) + 1, Len(s)) = operand
  BY <1>0, RestOf
<1>3. operand # <<>> => operand[1] \notin {61, 62} /\ Len(operand) >= 1
  OBVIOUS
<1>4. \A x : Codes[op] = <<x>> => /\ s[1] = x /\ Len(s) >= 1
                                  /\ Len(s) >= 2 => s[2] \notin {61, 62}
  <2> SUFFICES ASSUME NEW x, Codes[op] = <<x>>
               PROVE  /\ s[1] = x /\ Len(s) >= 1
                      /\ Len(s) >= 2 => s[2] \notin {61, 62}
    OBVIOUS
  <2>1. <<x>> \in Seq(Characters) /\ s = <<x>> \o operand
    BY <1>0
  <2>2. s[1] = x /\ Len(s) = 1 + Len(operand)
    BY <2>1
  <2>3. Len(operand) >= 1 => s[2] = operand[1] /\ operand # <<>>
    BY <2>1
  <2> HIDE DEF s
  <2> QED
    BY <1>3, <2>2, <2>3
<1>5. \A x, y : Codes[op] = <<x, y>> => s[1] = x /\ s[2] = y /\ Len(s) >= 2
  <2> SUFFICES ASSUME NEW x, NEW y, Codes[op] = <<x, y>>
               PROVE  s[1] = x /\ s[2] = y /\ Len(s) >= 2
    OBVIOUS
  <2>1. <<x, y>> \in Seq(Characters) /\ s = <<x, y>> \o operand
    BY <1>0
  <2> QED
    BY <2>1
<1> HIDE DEF s
<1>6. /\ Has("=") <=> Len(s) >= 1 /\ s[1] = 61
      /\ Has("<") <=> Len(s) >= 1 /\ s[1] = 60
      /\ Has(">") <=> Len(s) >= 1 /\ s[1] = 62
      /\ Has("<>") <=> Len(s) >= 2 /\ s[1] = 60 /\ s[2] = 62
      /\ Has("<=") <=> Len(s) >= 2 /\ s[1] = 60 /\ s[2] = 61
      /\ Has(">=") <=> Len(s) >= 2 /\ s[1] = 62 /\ s[2] = 61
  <2>1. 60 \in Characters /\ 61 \in Characters /\ 62 \in Characters
    BY CharactersAre
  <2> QED
    BY <1>1, <2>1, CodesAre, BeginsWithOne, BeginsWithTwo
<1>7. /\ Operators[1] = ">=" /\ Operators[2] = "<=" /\ Operators[3] = "<>"
      /\ Operators[4] = ">" /\ Operators[5] = "<" /\ Operators[6] = "="
  BY DEF Operators
<1>8. \A k \in 1 .. 6 :
        /\ op = Operators[k] /\ Has(op)
        /\ \A i \in 1 .. k - 1 : ~Has(Operators[i])
        => Criterion(s) = [op |-> op, operand |-> operand]
  BY <1>1, <1>2, CriterionTries DEF s
<1> HIDE DEF Has
<1>9. CASE op = ">="
  <2>1. Codes[op] = <<62, 61>>
    BY <1>9, CodesAre
  <2>2. Has(op)
    BY <1>5, <1>6, <1>9, <2>1
  <2> QED
    BY <1>7, <1>8, <1>9, <2>2 DEF s
<1>10. CASE op = "<="
  <2>1. Codes[op] = <<60, 61>>
    BY <1>10, CodesAre
  <2>2. Has(op) /\ ~Has(">=")
    BY <1>5, <1>6, <1>10, <2>1
  <2>3. \A i \in 1 .. 1 : ~Has(Operators[i])
    BY <1>7, <2>2
  <2> QED
    BY <1>7, <1>8, <1>10, <2>2, <2>3 DEF s
<1>11. CASE op = "<>"
  <2>1. Codes[op] = <<60, 62>>
    BY <1>11, CodesAre
  <2>2. Has(op) /\ ~Has(">=") /\ ~Has("<=")
    BY <1>5, <1>6, <1>11, <2>1
  <2>3. \A i \in 1 .. 2 : ~Has(Operators[i])
    BY <1>7, <2>2
  <2> QED
    BY <1>7, <1>8, <1>11, <2>2, <2>3 DEF s
<1>12. CASE op = ">"
  <2>1. Codes[op] = <<62>>
    BY <1>12, CodesAre
  <2>2. Has(op) /\ ~Has(">=") /\ ~Has("<=") /\ ~Has("<>")
    BY <1>4, <1>6, <1>12, <2>1
  <2>3. \A i \in 1 .. 3 : ~Has(Operators[i])
    BY <1>7, <2>2
  <2> QED
    BY <1>7, <1>8, <1>12, <2>2, <2>3 DEF s
<1>13. CASE op = "<"
  <2>1. Codes[op] = <<60>>
    BY <1>13, CodesAre
  <2>2. Has(op) /\ ~Has(">=") /\ ~Has("<=") /\ ~Has("<>") /\ ~Has(">")
    BY <1>4, <1>6, <1>13, <2>1
  <2>3. \A i \in 1 .. 4 : ~Has(Operators[i])
    BY <1>7, <2>2
  <2> QED
    BY <1>7, <1>8, <1>13, <2>2, <2>3 DEF s
<1>14. CASE op = "="
  <2>1. Codes[op] = <<61>>
    BY <1>14, CodesAre
  <2>2. Has(op) /\ ~Has(">=") /\ ~Has("<=") /\ ~Has("<>") /\ ~Has(">") /\ ~Has("<")
    BY <1>4, <1>6, <1>14, <2>1
  <2>3. \A i \in 1 .. 5 : ~Has(Operators[i])
    BY <1>7, <2>2
  <2> QED
    BY <1>7, <1>8, <1>14, <2>2, <2>3 DEF s
<1> QED
  BY <1>9, <1>10, <1>11, <1>12, <1>13, <1>14 DEF OperatorNames

\* Values that compare: of one kind, one with a rank.
HasRank(v) == Is("number", v) \/ Is("text", v) \/ Is("boolean", v)
OneOf(v) == \E k : DOMAIN v = {k}

\* The order of a cell and what has a rank is -1, 0 or 1.
LEMMA CompareOrderIs ==
  ASSUME NEW a \in Proper, NEW b, OneOf(b), HasRank(b)
  PROVE  CompareOrder(a, b) \in {-1, 0, 1}
<1> DEFINE x == Beside(a, b)
           y == Beside(b, a)
<1>1. y = b
  BY DEF Beside, HasRank, OneOf, Is
<1>2. OneOf(x) /\ HasRank(x)
  <2>1. a \in Values /\ ~Is("error", a)
    BY DEF Proper
  <2>2. PICK k \in KindNames : DOMAIN a = {k}
    BY <2>1, Kinds
  <2>3. CASE Is("blank", a)
    <3>1. x = Text(<<>>) \/ x = Number(0)
      BY <2>3 DEF Beside
    <3> QED
      BY <3>1, Made DEF OneOf, HasRank, Is
  <2>4. CASE ~Is("blank", a)
    <3>1. x = a
      BY <2>4 DEF Beside
    <3> QED
      BY <2>1, <2>2, <2>4, <3>1 DEF OneOf, HasRank, Is, KindNames
  <2> QED
    BY <2>3, <2>4
<1>3. CompareOrder(a, b) = IF KindRank(x) = KindRank(y) THEN SameKindOrder(x, y)
                           ELSE Sign(KindRank(x), KindRank(y))
  BY DEF CompareOrder
<1> HIDE DEF x, y
<1>4. \A p, q : Sign(p, q) \in {-1, 0, 1} /\ TextOrder(p, q) \in {-1, 0, 1}
  BY DEF Sign, TextOrder
<1>5. SameKindOrder(x, y) \in {-1, 0, 1}
  <2>1. CASE Is("number", x)
    <3>1. SameKindOrder(x, y) = Sign(x.number, y.number)
      BY <1>2, <2>1 DEF SameKindOrder, OneOf, Is
    <3> QED
      BY <1>4, <3>1
  <2>2. CASE Is("text", x)
    <3>1. ~Is("number", x) /\ ~Is("boolean", x)
      BY <1>2, <2>2 DEF OneOf, Is
    <3>2. SameKindOrder(x, y) = TextOrder(Lower(x.text), Lower(y.text))
      BY <2>2, <3>1 DEF SameKindOrder
    <3> QED
      BY <1>4, <3>2
  <2>3. CASE Is("boolean", x)
    <3>1. ~Is("number", x) /\ ~Is("text", x)
      BY <1>2, <2>3 DEF OneOf, Is
    <3>2. SameKindOrder(x, y) = Sign(Truth(x.boolean), Truth(y.boolean))
      BY <2>3, <3>1 DEF SameKindOrder
    <3> QED
      BY <1>4, <3>2
  <2> QED
    BY <1>2, <2>1, <2>2, <2>3 DEF HasRank
<1> QED
  BY <1>3, <1>4, <1>5

\* What an operand is compared as has a rank.
LEMMA OperandIs ==
  ASSUME NEW cell, NEW operand
  PROVE  OneOf(OperandValue(cell, operand)) /\ HasRank(OperandValue(cell, operand))
<1>1. \A t : Is("number", Parse(t)) => OneOf(Parse(t)) /\ HasRank(Parse(t))
  <2> TAKE t
  <2>1. \/ \E n : Parse(t) = Number(n)
        \/ Parse(t) = Error("#VALUE!")
    BY DEF Parse
  <2> QED
    BY <2>1, Made DEF OneOf, HasRank, Is
<1>2. \A b : OneOf(Boolean(b)) /\ HasRank(Boolean(b))
  BY Made DEF OneOf, HasRank, Is
<1>3. \A t : OneOf(Text(t)) /\ HasRank(Text(t))
  BY Made DEF OneOf, HasRank, Is
<1> QED
  BY <1>1, <1>2, <1>3 DEF OperandValue

Operand(s) == s \in Seq(Characters) /\ (s = <<>> \/ Head(s) \notin {61, 62})

\* A criterion is a text of operator and operand, and is read as these.
LEMMA CriteriaIs ==
  ASSUME NEW op \in OperatorNames, NEW operand, Operand(operand)
  PROVE  /\ Criteria(op, operand) \in Proper
         /\ Is("text", Criteria(op, operand))
         /\ Criterion(Criteria(op, operand).text) = [op |-> op, operand |-> operand]
<1>1. Codes[op] \o operand \in Seq(Characters)
  BY CodesAreTexts DEF Operand
<1> DEFINE t == Codes[op] \o operand
<1>2. Criteria(op, operand) = Text(t) /\ DOMAIN Text(t) = {"text"} /\ Text(t).text = t
  BY Made DEF Criteria
<1>3. Text(t) \in Proper
  <2>1. Text(t) \in Values
    BY <1>1 DEF Text, Values
  <2> QED
    BY <1>2, <2>1 DEF Proper, Is
<1>4. Criterion(t) = [op |-> op, operand |-> operand]
  BY CriterionIs DEF Operand
<1> HIDE DEF t
<1> QED
  BY <1>2, <1>3, <1>4 DEF Is

\* What a criterion without wildcards selects.
LEMMA OrderSelects ==
  ASSUME NEW cell \in Proper, NEW op \in OperatorNames, NEW operand,
         Operand(operand), ~UsesWildcards(operand) \/ op \notin {"=", "<>"}
  PROVE  MatchesCriteria(cell, Criteria(op, operand))
           <=> Holds(op, CompareOrder(cell, OperandValue(cell, operand)))
<1> DEFINE c == Criteria(op, operand)
<1>1. c \in Proper /\ Is("text", c) /\ Criterion(c.text) = [op |-> op, operand |-> operand]
  BY CriteriaIs
<1>2. ~Is("error", cell) /\ ~Is("error", c)
  BY <1>1 DEF Proper
<1> HIDE DEF c
<1>3. Criterion(c.text).op = op /\ Criterion(c.text).operand = operand
  BY <1>1
<1>4. MatchesCriteria(cell, c)
        <=> Holds(op, CompareOrder(cell, OperandValue(cell, operand)))
  BY <1>1, <1>2, <1>3 DEF MatchesCriteria
<1> QED
  BY <1>4 DEF c

\* And one with wildcards.
LEMMA PatternSelects ==
  ASSUME NEW cell \in Proper, NEW operand, Operand(operand), UsesWildcards(operand)
  PROVE  MatchesCriteria(cell, Criteria("=", operand))
           <=> ~MatchesCriteria(cell, Criteria("<>", operand))
<1> DEFINE p == Singly(operand)
           t == [i \in DOMAIN operand |-> CASE operand[i] = Star -> AnyChars
                                            [] operand[i] = Question -> AnyChar
                                            [] OTHER -> p[i]]
           s == Singly(ToText(cell))
           w == WildcardMatch(operand, ToText(cell))
<1>1. t \in Seq(Strings) /\ s \in Seq(Strings)
  <2>1. ASSUME NEW x \in Seq(Characters)
        PROVE  /\ Singly(x) \in Seq(Strings) /\ DOMAIN x = 1 .. Len(x)
               /\ \A i \in 1 .. Len(x) : Singly(x)[i] \in Strings
    <3>1. Len(x) \in Nat /\ DOMAIN x = 1 .. Len(x) /\ \A i \in 1 .. Len(x) : x[i] \in Int
      BY CharactersOf
    <3>2. \A i \in 1 .. Len(x) : <<LowerAscii(x[i])>> \in Strings
      BY <3>1 DEF LowerAscii, Strings
    <3> QED
      BY <3>1, <3>2 DEF Singly
  <2>2. operand \in Seq(Characters) /\ ToText(cell) \in Seq(Characters)
    BY ToTextIs DEF Operand
  <2>3. /\ s \in Seq(Strings) /\ DOMAIN operand = 1 .. Len(operand)
        /\ \A i \in 1 .. Len(operand) : p[i] \in Strings
    BY <2>1, <2>2
  <2> HIDE DEF p, s
  <2>4. \A i \in 1 .. Len(operand) : (CASE operand[i] = Star -> AnyChars
                                        [] operand[i] = Question -> AnyChar
                                        [] OTHER -> p[i]) \in Strings
    BY <2>3, StringsAre
  <2>5. t \in Seq(Strings)
    BY <2>2, <2>3, <2>4
  <2> QED
    BY <2>3, <2>5
<1>2. w = TokensMatch(t, s)
  BY DEF WildcardMatch
<1> HIDE DEF t, s, w
<1>3. w \in BOOLEAN
  BY <1>1, <1>2, MatchesCut
<1>4. ASSUME NEW op \in {"=", "<>"}
      PROVE  MatchesCriteria(cell, Criteria(op, operand)) <=> w = (op = "=")
  <2> DEFINE c == Criteria(op, operand)
  <2>1. op \in OperatorNames
    BY DEF OperatorNames
  <2>2. /\ c \in Proper /\ Is("text", c)
        /\ Criterion(c.text) = [op |-> op, operand |-> operand]
    BY <2>1, CriteriaIs
  <2>3. ~Is("error", cell) /\ ~Is("error", c)
    BY <2>2 DEF Proper
  <2> HIDE DEF c
  <2>4. Criterion(c.text).op = op /\ Criterion(c.text).operand = operand
    BY <2>2
  <2>5. MatchesCriteria(cell, c) <=> w = (op = "=")
    BY <2>2, <2>3, <2>4 DEF MatchesCriteria, w
  <2> QED
    BY <2>5 DEF c
<1>5. MatchesCriteria(cell, Criteria("=", operand)) <=> w = TRUE
  BY <1>4
<1>6. MatchesCriteria(cell, Criteria("<>", operand)) <=> w = FALSE
  BY <1>4
<1> QED
  BY <1>3, <1>5, <1>6

------------------------------------------------------------------------------
(* What a criterion selects among the keys.                                *)

Picked(op, operand) ==
  {i \in 1 .. MaxRows : MatchesCriteria(KeyColumn[i], Criteria(op, operand))}

\* The cells a pair selects, and a criterion.
LEMMA SelectedIs ==
  ASSUME Recorded, NEW op, NEW operand
  PROVE  /\ Selected(<<Pair(KeyColumn, Criteria(op, operand))>>) = Picked(op, operand)
         /\ Matching(KeyColumn, Criteria(op, operand)) = Picked(op, operand)
<1> DEFINE c == Criteria(op, operand)
           pairs == <<Pair(KeyColumn, c)>>
<1>1. pairs[1].range = KeyColumn /\ pairs[1].criteria = c /\ DOMAIN pairs = {1}
  BY DEF Pair
<1>2. DOMAIN KeyColumn = 1 .. MaxRows
  BY Tables
<1> HIDE DEF c, pairs
<1>3. Selected(pairs) = {i \in 1 .. MaxRows : MatchesCriteria(KeyColumn[i], c)}
  BY <1>1, <1>2 DEF Selected
<1>4. Matching(KeyColumn, c) = {i \in 1 .. MaxRows : MatchesCriteria(KeyColumn[i], c)}
  BY <1>2 DEF Matching
<1> QED
  BY <1>3, <1>4 DEF Picked, pairs, c

\* Rows without errors make cells without errors.
LEMMA NoErrorsFlattened ==
  ASSUME NEW t \in Seq(Seq(Values)), t # <<>>, \A r \in DOMAIN t : NoErrors(t[r])
  PROVE  FlattenSeq(t) \in Seq(Values) /\ NoErrors(FlattenSeq(t))
<1>1. FlattenSeq(t) \in Seq(Values)
  BY Flattened
<1>2. \A x : (\E i \in DOMAIN FlattenSeq(t) : FlattenSeq(t)[i] = x)
            <=> \E r \in DOMAIN t : \E i \in DOMAIN t[r] : t[r][i] = x
  BY Flattened
<1>3. NoErrors(FlattenSeq(t))
  <2> SUFFICES ASSUME NEW i \in 1 .. Len(FlattenSeq(t))
               PROVE  ~Is("error", FlattenSeq(t)[i])
    BY DEF NoErrors
  <2>1. i \in DOMAIN FlattenSeq(t)
    BY <1>1
  <2>2. PICK r \in DOMAIN t : \E j \in DOMAIN t[r] : t[r][j] = FlattenSeq(t)[i]
    BY <1>2, <2>1
  <2>3. PICK j \in DOMAIN t[r] : t[r][j] = FlattenSeq(t)[i]
    BY <2>2
  <2>4. j \in 1 .. Len(t[r])
    <3>1. t[r] \in Seq(Values)
      OBVIOUS
    <3> QED
      BY <3>1
  <2> QED
    BY <2>3, <2>4 DEF NoErrors
<1> QED
  BY <1>1, <1>3

\* Without errors in the table, none among the arguments.
LEMMA ArgumentsSound ==
  ASSUME Recorded, Broken = {}, NEW c \in Proper
  PROVE  /\ \A r : Propagated(Append(KeyColumn, c), r) = r
         /\ \A r : Propagated(KeyColumn \o <<c>> \o AmountColumn, r) = r
         /\ \A r : Alike(KeyColumn, <<Pair(KeyColumn, c)>>, r) = r
         /\ \A r : Alike(AmountColumn, <<Pair(KeyColumn, c)>>, r) = r
<1>1. /\ KeyColumn \in Seq(Values) /\ AmountColumn \in Seq(Values)
      /\ NoErrors(KeyColumn) /\ NoErrors(AmountColumn)
      /\ Len(KeyColumn) = MaxRows /\ Len(AmountColumn) = MaxRows
  BY Tables, CellsOf
<1>2. <<c>> \in Seq(Values) /\ NoErrors(<<c>>)
  <2>1. c \in Values /\ ~Is("error", c)
    BY DEF Proper
  <2>2. Len(<<c>>) = 1 /\ <<c>>[1] = c
    OBVIOUS
  <2> QED
    BY <2>1, <2>2 DEF NoErrors
<1>3. /\ KeyColumn \o <<c>> \in Seq(Values) /\ NoErrors(KeyColumn \o <<c>>)
  BY <1>1, <1>2, Joined
<1>4. Append(KeyColumn, c) = KeyColumn \o <<c>>
  BY <1>1, <1>2
<1>5. \A r : Propagated(Append(KeyColumn, c), r) = r
  BY <1>3, <1>4, Sound DEF NoErrors
<1>6. \A r : Propagated(KeyColumn \o <<c>> \o AmountColumn, r) = r
  <2>1. /\ KeyColumn \o <<c>> \o AmountColumn \in Seq(Values)
        /\ NoErrors(KeyColumn \o <<c>> \o AmountColumn)
    BY <1>1, <1>3, Joined
  <2> QED
    BY <2>1, Sound DEF NoErrors
<1> DEFINE pairs == <<Pair(KeyColumn, c)>>
           t == [k \in DOMAIN pairs |-> Append(pairs[k].range, pairs[k].criteria)]
<1>7. pairs[1].range = KeyColumn /\ pairs[1].criteria = c /\ DOMAIN pairs = 1 .. 1
  BY DEF Pair
<1>8. Arguments(pairs) \in Seq(Values) /\ NoErrors(Arguments(pairs))
  <2>1. t[1] = KeyColumn \o <<c>> /\ DOMAIN t = 1 .. 1 /\ t = [k \in 1 .. 1 |-> t[k]]
    BY <1>4, <1>7
  <2>2. Arguments(pairs) = FlattenSeq(t)
    BY DEF Arguments
  <2> HIDE DEF t
  <2>3. t \in Seq(Seq(Values)) /\ Len(t) = 1
    <3>1. t \in [1 .. 1 -> Seq(Values)]
      <4> DEFINE S == Seq(Values)
      <4>1. t[1] \in S
        BY <1>3, <2>1
      <4>2. \A k \in 1 .. 1 : k = 1
        OBVIOUS
      <4> HIDE DEF S
      <4>3. t \in [1 .. 1 -> S]
        BY <2>1, <4>1, <4>2
      <4> QED
        BY <4>3 DEF S
    <3>2. t \in Seq(Seq(Values))
      <4> DEFINE S == Seq(Values)
      <4>1. t \in [1 .. 1 -> S] /\ 1 \in Nat
        BY <3>1
      <4> HIDE DEF S
      <4>2. t \in Seq(S)
        BY <4>1, SeqDef
      <4> QED
        BY <4>2 DEF S
    <3> QED
      BY <2>1, <3>2
  <2>4. t # <<>>
    <3>1. Len(t) # Len(<<>>)
      BY <2>3
    <3> QED
      BY <3>1
  <2>5. \A r \in DOMAIN t : NoErrors(t[r])
    <3>1. \A r \in DOMAIN t : r = 1
      BY <2>1
    <3>2. NoErrors(t[1])
      BY <1>3, <2>1
    <3> QED
      BY <3>1, <3>2
  <2> QED
    BY <2>2, <2>3, <2>4, <2>5, NoErrorsFlattened
<1> HIDE DEF pairs
<1>9. ASSUME NEW s \in {KeyColumn, AmountColumn}
      PROVE  \A r : Alike(s, pairs, r) = r
  <2>1. s \o Arguments(pairs) \in Seq(Values) /\ NoErrors(s \o Arguments(pairs))
    BY <1>1, <1>8, Joined
  <2>2. \A r : Propagated(s \o Arguments(pairs), r) = r
    BY <2>1, Sound DEF NoErrors
  <2>3. ~\E k \in DOMAIN pairs : Len(pairs[k].range) # Len(s)
    BY <1>1, <1>7
  <2> QED
    BY <2>2, <2>3 DEF Alike
<1> QED
  BY <1>5, <1>6, <1>9 DEF pairs

------------------------------------------------------------------------------
(* Counts and totals.                                                      *)

\* There are MaxRows rows.
LEMMA RowsAreFinite == IsFiniteSet(1 .. MaxRows) /\ Cardinality(1 .. MaxRows) = MaxRows
<1>1. MaxRows \in Int /\ 1 \in Int /\ MaxRows >= 1
  BY RecordsAreRows
<1>2. /\ IsFiniteSet(1 .. MaxRows)
      /\ Cardinality(1 .. MaxRows) = IF 1 > MaxRows THEN 0 ELSE MaxRows - 1 + 1
  BY <1>1, FS_Interval
<1> QED
  BY <1>1, <1>2

\* Two sets apart count for what each of them counts.
LEMMA CountApart ==
  ASSUME NEW D, IsFiniteSet(D), NEW A \in SUBSET D, NEW B \in SUBSET D,
         A \cap B = {}
  PROVE  Cardinality(A \cup B) = Cardinality(A) + Cardinality(B)
<1>1. IsFiniteSet(A) /\ IsFiniteSet(B)
  BY FS_Subset
<1>2. Cardinality(A) \in Nat /\ Cardinality(B) \in Nat
  BY <1>1, FS_CardinalityType
<1>3. Cardinality(A \cup B) = Cardinality(A) + Cardinality(B) - Cardinality(A \cap B)
  BY <1>1, FS_Union
<1>4. Cardinality(A \cap B) = 0
  BY FS_EmptySet
<1> QED
  BY <1>2, <1>3, <1>4

\* What the cells of a table without errors are.
LEMMA CellsCount ==
  ASSUME Recorded, Broken = {}
  PROVE  \A i \in 1 .. MaxRows : /\ KeyColumn[i] \in Proper
                                 /\ AmountColumn[i] \in Values
                                 /\ ~Is("error", AmountColumn[i])
                                 /\ SumNumber(AmountColumn[i]) \in Int
<1> SUFFICES ASSUME NEW i \in 1 .. MaxRows
             PROVE  /\ KeyColumn[i] \in Proper
                    /\ AmountColumn[i] \in Values
                    /\ ~Is("error", AmountColumn[i])
                    /\ SumNumber(AmountColumn[i]) \in Int
  OBVIOUS
<1>1. /\ KeyColumn \in Seq(Values) /\ AmountColumn \in Seq(Values)
      /\ NoErrors(KeyColumn) /\ NoErrors(AmountColumn)
      /\ Len(KeyColumn) = MaxRows /\ Len(AmountColumn) = MaxRows
  BY Tables, CellsOf
<1>2. /\ KeyColumn[i] \in Values /\ ~Is("error", KeyColumn[i])
      /\ AmountColumn[i] \in Values /\ ~Is("error", AmountColumn[i])
  BY <1>1 DEF NoErrors
<1>3. SumNumber(AmountColumn[i]) \in Int
  <2>1. Is("number", AmountColumn[i]) => AmountColumn[i].number \in Int
    BY <1>2, Kinds
  <2> QED
    BY <2>1 DEF SumNumber
<1> QED
  BY <1>2, <1>3 DEF Proper

\* COUNTIF counts the picked keys and SUMIF adds up the amounts beside them.
LEMMA CountedIs ==
  ASSUME Recorded, Broken = {}, NEW op \in OperatorNames, NEW operand, Operand(operand)
  PROVE  /\ Counted(op, operand) = Cardinality(Picked(op, operand))
         /\ Summed(op, operand) = Total(AmountColumn, Picked(op, operand))
<1> DEFINE c == Criteria(op, operand)
           S == Picked(op, operand)
<1>1. c \in Proper
  BY CriteriaIs
<1>2. Matching(KeyColumn, c) = S
  BY SelectedIs
<1>3. DOMAIN AmountColumn = 1 .. MaxRows /\ S \subseteq 1 .. MaxRows
  BY Tables DEF Picked
<1> HIDE DEF c, S
<1>4. COUNTIF(KeyColumn, c) = Number(Cardinality(S))
  BY <1>1, <1>2, ArgumentsSound DEF COUNTIF
<1>5. SUMIF(KeyColumn, c, AmountColumn) = Number(Total(AmountColumn, S))
  BY <1>1, <1>2, <1>3, ArgumentsSound DEF SUMIF
<1>6. \A n : Number(n).number = n
  BY DEF Number
<1> QED
  BY <1>4, <1>5, <1>6 DEF Counted, Summed, c, S

\* Below, equal and above, for an operand without wildcards.
LEMMA PickedApart ==
  ASSUME Recorded, Broken = {}, NEW operand, Operand(operand),
         ~UsesWildcards(operand)
  PROVE  \A i \in 1 .. MaxRows :
           \E order \in {-1, 0, 1} :
             \A op \in OperatorNames : i \in Picked(op, operand) <=> Holds(op, order)
<1> SUFFICES ASSUME NEW i \in 1 .. MaxRows
             PROVE  \E order \in {-1, 0, 1} : \A op \in OperatorNames :
                      i \in Picked(op, operand) <=> Holds(op, order)
  OBVIOUS
<1> DEFINE order == CompareOrder(KeyColumn[i], OperandValue(KeyColumn[i], operand))
<1>1. KeyColumn[i] \in Proper
  BY CellsCount
<1>2. order \in {-1, 0, 1}
  BY <1>1, OperandIs, CompareOrderIs
<1>3. ASSUME NEW op \in OperatorNames
      PROVE  i \in Picked(op, operand) <=> Holds(op, order)
  BY <1>1, OrderSelects DEF Picked
<1> HIDE DEF order
<1> QED
  BY <1>2, <1>3

\* When an operator holds of an order.
LEMMA PickedWhen ==
  ASSUME NEW order \in {-1, 0, 1}
  PROVE  /\ Holds("=", order) <=> order = 0
         /\ Holds("<>", order) <=> order # 0
         /\ Holds("<", order) <=> order = -1
         /\ Holds(">", order) <=> order = 1
         /\ Holds("<=", order) <=> order # 1
         /\ Holds(">=", order) <=> order # -1
BY DEF Holds

\* Below, equal and above are all cells, each once.
LEMMA TrichotomyHolds ==
  ASSUME Recorded, Broken = {}, NEW operand, Operand(operand),
         ~UsesWildcards(operand)
  PROVE  Trichotomy(operand)
<1> DEFINE D == 1 .. MaxRows
           Eq == Picked("=", operand)
           Lt == Picked("<", operand)
           Gt == Picked(">", operand)
           Le == Picked("<=", operand)
           Ge == Picked(">=", operand)
<1>1. /\ Eq \in SUBSET D /\ Lt \in SUBSET D /\ Gt \in SUBSET D
      /\ Le \in SUBSET D /\ Ge \in SUBSET D
  BY DEF Picked
<1>2. \A i \in D : \E order \in {-1, 0, 1} :
        /\ i \in Eq <=> order = 0
        /\ i \in Lt <=> order = -1
        /\ i \in Gt <=> order = 1
        /\ i \in Le <=> order # 1
        /\ i \in Ge <=> order # -1
  <2> SUFFICES ASSUME NEW i \in D
               PROVE  \E order \in {-1, 0, 1} :
                        /\ i \in Eq <=> order = 0
                        /\ i \in Lt <=> order = -1
                        /\ i \in Gt <=> order = 1
                        /\ i \in Le <=> order # 1
                        /\ i \in Ge <=> order # -1
    OBVIOUS
  <2>1. PICK order \in {-1, 0, 1} :
          \A op \in OperatorNames : i \in Picked(op, operand) <=> Holds(op, order)
    BY PickedApart
  <2>2. /\ "=" \in OperatorNames /\ "<" \in OperatorNames /\ ">" \in OperatorNames
        /\ "<=" \in OperatorNames /\ ">=" \in OperatorNames
    BY DEF OperatorNames
  <2> QED
    BY <2>1, <2>2, PickedWhen
<1>3. /\ Counted("=", operand) = Cardinality(Eq)
      /\ Counted("<", operand) = Cardinality(Lt)
      /\ Counted(">", operand) = Cardinality(Gt)
      /\ Counted("<=", operand) = Cardinality(Le)
      /\ Counted(">=", operand) = Cardinality(Ge)
      /\ Summed("<=", operand) = Total(AmountColumn, Le)
      /\ Summed(">", operand) = Total(AmountColumn, Gt)
  BY CountedIs DEF OperatorNames
<1>4. IsFiniteSet(D) /\ Cardinality(D) = MaxRows
  BY RowsAreFinite
<1>5. \A i \in D : SumNumber(AmountColumn[i]) \in Int
  BY CellsCount
<1> HIDE DEF D, Eq, Lt, Gt, Le, Ge
<1>6. /\ Lt \cup Eq = Le /\ Lt \cap Eq = {} /\ Gt \cup Eq = Ge /\ Gt \cap Eq = {}
      /\ Le \cup Gt = D /\ Le \cap Gt = {}
  <2>1. Lt \cap Eq = {} /\ Gt \cap Eq = {} /\ Le \cap Gt = {}
    BY <1>1, <1>2
  <2>2. Lt \cup Eq = Le
    BY <1>1, <1>2
  <2>3. Gt \cup Eq = Ge
    BY <1>1, <1>2
  <2>4. Le \cup Gt = D
    BY <1>1, <1>2
  <2> QED
    BY <2>1, <2>2, <2>3, <2>4
<1>7. Cardinality(Le) = Cardinality(Lt) + Cardinality(Eq)
  BY <1>1, <1>4, <1>6, CountApart
<1>8. Cardinality(Ge) = Cardinality(Gt) + Cardinality(Eq)
  BY <1>1, <1>4, <1>6, CountApart
<1>9. Cardinality(D) = Cardinality(Le) + Cardinality(Gt)
  BY <1>1, <1>4, <1>6, CountApart
<1>10. Total(AmountColumn, D) = Total(AmountColumn, Le) + Total(AmountColumn, Gt)
  BY <1>1, <1>4, <1>5, <1>6, TotalApart
<1> QED
  BY <1>3, <1>4, <1>7, <1>8, <1>9, <1>10 DEF Trichotomy, D

\* So are equal and different, for patterns too.
LEMMA ComplementHolds ==
  ASSUME Recorded, Broken = {}, NEW operand, Operand(operand)
  PROVE  Complement(operand)
<1> DEFINE D == 1 .. MaxRows
           Eq == Picked("=", operand)
           Ne == Picked("<>", operand)
<1>1. ASSUME NEW i \in D PROVE i \in Eq <=> i \notin Ne
  <2>1. CASE UsesWildcards(operand)
    <3>1. KeyColumn[i] \in Proper
      BY CellsCount
    <3> QED
      BY <2>1, <3>1, PatternSelects DEF Picked
  <2>2. CASE ~UsesWildcards(operand)
    <3>1. PICK order \in {-1, 0, 1} :
            \A op \in OperatorNames : i \in Picked(op, operand) <=> Holds(op, order)
      BY <2>2, PickedApart
    <3>2. "=" \in OperatorNames /\ "<>" \in OperatorNames
      BY DEF OperatorNames
    <3> QED
      BY <3>1, <3>2, PickedWhen
  <2> QED
    BY <2>1, <2>2
<1>2. Eq \in SUBSET D /\ Ne \in SUBSET D
  BY DEF Picked
<1>3. Counted("=", operand) = Cardinality(Eq) /\ Counted("<>", operand) = Cardinality(Ne)
  BY CountedIs DEF OperatorNames
<1>4. IsFiniteSet(D) /\ Cardinality(D) = MaxRows
  BY RowsAreFinite
<1> HIDE DEF D, Eq, Ne
<1>5. Eq \cup Ne = D /\ Eq \cap Ne = {}
  BY <1>1, <1>2
<1>6. Cardinality(D) = Cardinality(Eq) + Cardinality(Ne)
  BY <1>2, <1>4, <1>5, CountApart
<1> QED
  BY <1>3, <1>4, <1>6 DEF Complement

------------------------------------------------------------------------------
(* Averages and extremes.                                                  *)

\* The smallest and the largest of finitely many numbers.
LEMMA Extremes ==
  ASSUME NEW D, IsFiniteSet(D), D # {}, NEW a \in [D -> Int],
         NEW S, S = {a[i] : i \in D}
  PROVE  /\ Min(S) \in Int /\ Max(S) \in Int
         /\ \A i \in D : Min(S) <= a[i] /\ a[i] <= Max(S)
<1> DEFINE P == {T \in SUBSET D :
                   T = {} \/ \E l, h \in T : \A i \in T : a[l] <= a[i] /\ a[i] <= a[h]}
<1>1. {} \in P
  OBVIOUS
<1>2. ASSUME NEW T \in SUBSET D, T # {}, \A x \in T : T \ {x} \in P
      PROVE  T \in P
  <2>1. PICK x \in T : TRUE
    BY <1>2
  <2>2. CASE T \ {x} = {}
    <3>1. T = {x} /\ a[x] \in Int
      BY <2>1, <2>2
    <3>2. \A i \in T : a[x] <= a[i] /\ a[i] <= a[x]
      BY <3>1
    <3> QED
      BY <3>2
  <2>3. CASE T \ {x} # {}
    <3>1. PICK l \in T \ {x}, h \in T \ {x} :
            \A i \in T \ {x} : a[l] <= a[i] /\ a[i] <= a[h]
      BY <1>2, <2>1, <2>3
    <3>2. \A i \in T : a[i] \in Int
      OBVIOUS
    <3>3. PICK m \in T : \A i \in T : a[m] <= a[i]
      <4>1. CASE a[l] <= a[x]
        <5>1. \A i \in T : a[l] <= a[i]
          BY <3>1, <4>1
        <5> QED
          BY <5>1
      <4>2. CASE ~(a[l] <= a[x])
        <5>1. \A i \in T : a[x] <= a[i]
          BY <3>1, <3>2, <4>2
        <5> QED
          BY <5>1
      <4> QED
        BY <4>1, <4>2
    <3>4. PICK n \in T : \A i \in T : a[i] <= a[n]
      <4>1. CASE a[x] <= a[h]
        <5>1. \A i \in T : a[i] <= a[h]
          BY <3>1, <4>1
        <5> QED
          BY <5>1
      <4>2. CASE ~(a[x] <= a[h])
        <5>1. \A i \in T : a[i] <= a[x]
          BY <3>1, <3>2, <4>2
        <5> QED
          BY <5>1
      <4> QED
        BY <4>1, <4>2
    <3> QED
      BY <3>3, <3>4
  <2> QED
    BY <2>2, <2>3
<1>3. D \in P
  <2> HIDE DEF P
  <2> QED
    BY <1>1, <1>2, Removing
<1>4. PICK l \in D, h \in D : \A i \in D : a[l] <= a[i] /\ a[i] <= a[h]
  BY <1>3
<1>5. \A x \in S : \E i \in D : x = a[i]
  OBVIOUS
<1>6. \A i \in D : a[i] \in S
  OBVIOUS
<1>7. a[l] \in S /\ \A x \in S : a[l] <= x
  BY <1>4, <1>5, <1>6
<1>8. a[h] \in S /\ \A x \in S : a[h] >= x
  BY <1>4, <1>5, <1>6
<1>9. Min(S) \in S /\ \A x \in S : Min(S) <= x
  BY <1>7 DEF Min
<1>10. Max(S) \in S /\ \A x \in S : Max(S) >= x
  BY <1>8 DEF Max
<1>11. \A x \in S : x \in Int
  BY <1>5
<1> QED
  BY <1>6, <1>9, <1>10, <1>11

\* A sum over nothing but texts and blanks is zero.
LEMMA NothingAdded ==
  ASSUME NEW range, NEW D, IsFiniteSet(D), \A i \in D : SumNumber(range[i]) = 0
  PROVE  Total(range, D) = 0
<1> DEFINE t == Total(range, D)
           n == Cardinality(D)
<1>1. t \in Int
  BY TotalOf
<1>2. t >= 0 * n /\ t <= 0 * n
  <2> DEFINE zero == 0
  <2>1. \A i \in D : /\ SumNumber(range[i]) \in Int
                     /\ zero <= SumNumber(range[i]) /\ SumNumber(range[i]) <= zero
    OBVIOUS
  <2>2. zero \in Int
    OBVIOUS
  <2> HIDE DEF zero
  <2>3. t >= zero * n /\ t <= zero * n
    BY <2>1, <2>2, TotalBounds
  <2> QED
    BY <2>3 DEF zero
<1>3. n \in Nat
  BY FS_CardinalityType
<1> HIDE DEF t, n
<1>4. t = 0
  BY <1>1, <1>2, <1>3
<1> QED
  BY <1>4 DEF t

\* The numbers among the chosen cells: how many, and what they add up to.
LEMMA NumbersChosen ==
  ASSUME Recorded, Broken = {}, NEW S \in SUBSET (1 .. MaxRows)
  PROVE  LET N == NumbersIn(AmountColumn, S)
             total == Total(AmountColumn, N)
             count == Cardinality(N)
             numbers == NumbersOf(AmountColumn, S)
         IN  /\ total \in Int /\ count \in Nat
             /\ count = 0 <=> N = {}
             /\ count # 0 =>
                  /\ numbers # {}
                  /\ total >= Min(numbers) * count /\ total <= Max(numbers) * count
             /\ (\A i \in 1 .. MaxRows : ~Is("boolean", AmountColumn[i])) =>
                  /\ NumbersOrBooleansIn(AmountColumn, S) = N
                  /\ total = Total(AmountColumn, S)
<1> DEFINE N == NumbersIn(AmountColumn, S)
           total == Total(AmountColumn, N)
           count == Cardinality(N)
           numbers == NumbersOf(AmountColumn, S)
           D == 1 .. MaxRows
           plain == \A i \in D : ~Is("boolean", AmountColumn[i])
<1>1. IsFiniteSet(D) /\ \A i \in D : /\ AmountColumn[i] \in Values
                                     /\ SumNumber(AmountColumn[i]) \in Int
  BY RowsAreFinite, CellsCount
<1>2. N \in SUBSET S /\ N \in SUBSET D /\ IsFiniteSet(N) /\ S \in SUBSET D
  <2>1. N \in SUBSET S /\ N \in SUBSET D
    BY DEF NumbersIn
  <2> QED
    BY <1>1, <2>1, FS_Subset
<1>3. \A i \in N : SumNumber(AmountColumn[i]) = AmountColumn[i].number
  <2> SUFFICES ASSUME NEW i \in N
               PROVE  SumNumber(AmountColumn[i]) = AmountColumn[i].number
    OBVIOUS
  <2>1. AmountColumn[i] \in Values /\ Is("number", AmountColumn[i])
    BY <1>1, <1>2 DEF NumbersIn
  <2>2. ~Is("boolean", AmountColumn[i])
    BY <2>1, OneKind
  <2> QED
    BY <2>1, <2>2 DEF SumNumber
<1>4. total \in Int /\ count \in Nat /\ (count = 0 <=> N = {})
  BY <1>1, <1>2, TotalOf, FS_CardinalityType, FS_EmptySet
<1>5. ASSUME N # {}
      PROVE  /\ numbers # {}
             /\ total >= Min(numbers) * count /\ total <= Max(numbers) * count
  <2> DEFINE a == [i \in N |-> AmountColumn[i].number]
  <2>1. a \in [N -> Int]
    BY <1>1, <1>2, <1>3
  <2>2. numbers = {a[i] : i \in N}
    BY DEF NumbersOf
  <2>3. \A i \in N : a[i] = SumNumber(AmountColumn[i])
    BY <1>3
  <2> HIDE DEF a, N, numbers, D
  <2>4. /\ Min(numbers) \in Int /\ Max(numbers) \in Int
        /\ \A i \in N : Min(numbers) <= a[i] /\ a[i] <= Max(numbers)
    BY <1>2, <1>5, <2>1, <2>2, Extremes
  <2>5. \A i \in N : /\ SumNumber(AmountColumn[i]) \in Int
                     /\ Min(numbers) <= SumNumber(AmountColumn[i])
                     /\ SumNumber(AmountColumn[i]) <= Max(numbers)
    BY <1>1, <1>2, <2>3, <2>4
  <2>6. total >= Min(numbers) * count /\ total <= Max(numbers) * count
    BY <1>2, <2>4, <2>5, TotalBounds
  <2> QED
    BY <1>5, <2>2, <2>6
<1>6. ASSUME plain
      PROVE  /\ NumbersOrBooleansIn(AmountColumn, S) = N
             /\ total = Total(AmountColumn, S)
  <2>1. NumbersOrBooleansIn(AmountColumn, S) = N
    BY <1>6 DEF NumbersOrBooleansIn, NumbersIn
  <2>2. \A i \in S \ N : SumNumber(AmountColumn[i]) = 0
    BY <1>6 DEF NumbersIn, SumNumber
  <2> DEFINE rest == S \ N
             sum == Total(AmountColumn, S)
  <2>3. \A i \in rest : SumNumber(AmountColumn[i]) = 0
    BY <2>2
  <2>4. rest \in SUBSET D /\ N \cup rest = S /\ N \cap rest = {}
    BY <1>2
  <2>5. IsFiniteSet(rest)
    BY <1>1, <2>4, FS_Subset
  <2> HIDE DEF N, D, rest
  <2>6. Total(AmountColumn, rest) = 0
    BY <2>3, <2>5, NothingAdded
  <2>7. Total(AmountColumn, N \cup rest)
          = Total(AmountColumn, N) + Total(AmountColumn, rest)
    <3>1. N \in SUBSET D /\ rest \in SUBSET D /\ N \cap rest = {} /\ IsFiniteSet(D)
      BY <1>1, <1>2, <2>4
    <3>2. \A i \in D : SumNumber(AmountColumn[i]) \in Int
      BY <1>1
    <3> HIDE DEF total
    <3> QED
      BY <3>1, <3>2, TotalApart
  <2>8. sum = total + 0
    BY <2>4, <2>6, <2>7
  <2> HIDE DEF sum, total
  <2>9. sum = total
    BY <1>4, <2>8
  <2> QED
    BY <2>1, <2>9 DEF sum
<1> QED
  BY <1>4, <1>5, <1>6

\* Functions of one criterion and of several agree, and an average lies between
\* the extremes.
LEMMA OneSelectionHolds ==
  ASSUME Recorded, Broken = {}, NEW op \in OperatorNames, NEW operand,
         Operand(operand)
  PROVE  OneSelection(op, operand)
<1> DEFINE c == Criteria(op, operand)
           pairs == <<Pair(KeyColumn, c)>>
           S == Picked(op, operand)
           N == NumbersIn(AmountColumn, S)
           total == Total(AmountColumn, N)
           count == Cardinality(N)
           numbers == NumbersOf(AmountColumn, S)
           plain == \A i \in 1 .. MaxRows : ~Is("boolean", AmountColumn[i])
<1>1. c \in Proper
  BY CriteriaIs
<1>2. Selected(pairs) = S /\ pairs[1].range = KeyColumn
  BY SelectedIs DEF Pair
<1>3. DOMAIN AmountColumn = 1 .. MaxRows /\ S \in SUBSET (1 .. MaxRows)
  BY Tables DEF Picked
<1>4. /\ \A r : Propagated(Append(KeyColumn, c), r) = r
      /\ \A r : Propagated(KeyColumn \o <<c>> \o AmountColumn, r) = r
      /\ \A r : Alike(KeyColumn, pairs, r) = r
      /\ \A r : Alike(AmountColumn, pairs, r) = r
  BY <1>1, ArgumentsSound
<1>5. /\ total \in Int /\ count \in Nat
      /\ count # 0 => /\ numbers # {}
                      /\ total >= Min(numbers) * count
                      /\ total <= Max(numbers) * count
      /\ plain => /\ NumbersOrBooleansIn(AmountColumn, S) = N
                  /\ total = Total(AmountColumn, S)
  BY <1>3, NumbersChosen
<1>6. Matching(KeyColumn, c) = S
  BY SelectedIs
<1> HIDE DEF c, pairs, S, N, total, count, numbers, plain
<1>7. \A n : Number(n).number = n
  BY DEF Number
<1>8. /\ COUNTIF(KeyColumn, c) = Number(Cardinality(S))
      /\ COUNTIFS(pairs) = Number(Cardinality(S))
  BY <1>2, <1>4, <1>6 DEF COUNTIF, COUNTIFS
<1>9. /\ SUMIF(KeyColumn, c, AmountColumn) = Number(Total(AmountColumn, S))
      /\ SUMIFS(AmountColumn, pairs) = Number(Total(AmountColumn, S))
  BY <1>2, <1>3, <1>4, <1>6 DEF SUMIF, SUMIFS
<1>10. AVERAGEIF(KeyColumn, c, AmountColumn) = Average(total, count)
  BY <1>3, <1>4, <1>6 DEF AVERAGEIF, total, count, N
<1>11. plain => AVERAGEIFS(AmountColumn, pairs) = Average(total, count)
  BY <1>2, <1>4, <1>5 DEF AVERAGEIFS, total, count
<1>12. /\ MINIFS(AmountColumn, pairs) = Number(IF numbers = {} THEN 0 ELSE Min(numbers))
       /\ MAXIFS(AmountColumn, pairs) = Number(IF numbers = {} THEN 0 ELSE Max(numbers))
  BY <1>2, <1>4 DEF MINIFS, MAXIFS, numbers
<1>13. ASSUME Is("total", Average(total, count))
       PROVE  /\ count # 0
              /\ Average(total, count) = [total |-> total, count |-> count]
  BY <1>13, Made DEF Average, DivZero, Is
<1>14. ASSUME Is("total", Average(total, count))
       PROVE  LET average == Average(total, count)
              IN  /\ average.total >= MINIFS(AmountColumn, pairs).number * average.count
                  /\ average.total <= MAXIFS(AmountColumn, pairs).number * average.count
                  /\ plain => average.total = SUMIFS(AmountColumn, pairs).number
  <2>1. Average(total, count).total = total /\ Average(total, count).count = count
    BY <1>13, <1>14
  <2>2. /\ MINIFS(AmountColumn, pairs).number = Min(numbers)
        /\ MAXIFS(AmountColumn, pairs).number = Max(numbers)
    BY <1>5, <1>7, <1>12, <1>13, <1>14
  <2>3. SUMIFS(AmountColumn, pairs).number = Total(AmountColumn, S)
    BY <1>7, <1>9
  <2> QED
    BY <1>5, <1>13, <1>14, <2>1, <2>2, <2>3
<1>15. COUNTIF(KeyColumn, c) = Number(COUNTIFS(pairs).number)
  BY <1>7, <1>8
<1>16. SUMIF(KeyColumn, c, AmountColumn) = SUMIFS(AmountColumn, pairs)
  BY <1>9
<1> QED
  BY <1>10, <1>11, <1>14, <1>15, <1>16 DEF OneSelection, c, pairs, plain

\* Criteria split any mix of cells without counting one twice or leaving one
\* out, and all functions that take them speak of the same cells.
THEOREM CriteriaAlwaysAgree == Spec => []CriteriaAgree
<1>1. ASSUME NEW s \in Operands \cup Patterns
      PROVE  Operand(s)
  BY OperandsAreTexts, CodesAre DEF Operand
<1>2. RecordsInv => CriteriaAgree
  <2> SUFFICES ASSUME RecordsInv, sheet = "records", Broken = {}
               PROVE  /\ \A operand \in Operands : Trichotomy(operand)
                      /\ \A operand \in Operands \cup Patterns :
                           /\ Complement(operand)
                           /\ \A op \in DOMAIN Codes : OneSelection(op, operand)
    BY DEF CriteriaAgree
  <2>1. Recorded
    BY DEF RecordsInv
  <2>2. \A operand \in Operands : Trichotomy(operand)
    BY <1>1, <2>1, OperandsAreTexts, TrichotomyHolds
  <2>3. \A operand \in Operands \cup Patterns : Complement(operand)
    BY <1>1, <2>1, ComplementHolds
  <2>4. \A operand \in Operands \cup Patterns :
          \A op \in DOMAIN Codes : OneSelection(op, operand)
    BY <1>1, <2>1, CodesAre, OneSelectionHolds
  <2> QED
    BY <2>2, <2>3, <2>4
<1> QED
  BY <1>2, RecordsStay, PTL
=============================================================================
