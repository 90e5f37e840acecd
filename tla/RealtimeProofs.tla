--------------------------- MODULE RealtimeProofs ---------------------------
(***************************************************************************)
(* Proofs about Realtime: the resume contract holds for every set of       *)
(* events, window, buffer and batch size, and for any number of faults.    *)
(*                                                                         *)
(* The invariant follows what is on its way to the agent, the frames of    *)
(* the connection and on SSE the buffer behind them, as one sequence.      *)
(***************************************************************************)
EXTENDS Realtime, FiniteSetTheorems, SequenceTheorems, TLAPS

-----------------------------------------------------------------------------
(* The invariant's vocabulary, for a sequence s on its way, the events L in *)
(* the log, the agent's start o, the events S it has seen and R it was     *)
(* refused, and the checkpoint p.                                          *)

EventAt(s, k) == s[k].type = "event"

\* e is settled by the first n elements of s.
Settled(e, s, n, S, R) ==
  e \in S \cup R \/ \E k \in 1 .. n : EventAt(s, k) /\ s[k].cursor = e

\* Each element on its way that has a cursor may become the agent's cursor when
\* it is read: what it covers is settled by then, and nothing seen is repeated.
GoodAt(i, s, L, o, S, R, p) ==
  /\ s[i].cursor \in Nat
  /\ s[i].cursor <= p
  /\ \A e \in L : o < e /\ e <= s[i].cursor => Settled(e, s, i, S, R)
  /\ \A e \in S : e <= s[i].cursor /\ (EventAt(s, i) => e < s[i].cursor)
  /\ \A k \in 1 .. i - 1 : EventAt(s, k) =>
       /\ s[k].cursor <= s[i].cursor
       /\ EventAt(s, i) => s[k].cursor < s[i].cursor

Good(s, L, o, S, R, p) ==
  \A i \in 1 .. Len(s) :
    s[i].cursor # NoCursor \/ EventAt(s, i) => GoodAt(i, s, L, o, S, R, p)

\* The loop or producer has dealt with the feed up to q.
DealtWith(q, s, L, o, S, R, p) ==
  /\ q \in Nat
  /\ q <= p
  /\ \A e \in L : o < e /\ e <= q => Settled(e, s, Len(s), S, R)
  /\ \A e \in S : e <= q
  /\ \A k \in 1 .. Len(s) : EventAt(s, k) => s[k].cursor <= q

\* The batch holds the next events of the feed after q, without a gap.
NextBatch(b, q, L, p) ==
  \A e \in b : /\ e \in L /\ q < e /\ e <= p
               /\ \A f \in L : q < f /\ f < e => f \in b

\* The agent's cursor.
GoodCursor(c, L, o, S, R, p) ==
  c # NoCursor =>
    /\ c \in Nat
    /\ c <= p
    /\ \A e \in L : o < e /\ e <= c => e \in S \cup R
    /\ \A e \in S : e <= c

-----------------------------------------------------------------------------
(* Sequences.                                                              *)

LEMMA OneElement ==
  ASSUME NEW T, NEW m \in T
  PROVE  <<m>> \in Seq(T) /\ \A s \in Seq(T) : Append(s, m) \in Seq(T)
OBVIOUS

\* Appending m, which covers no more than has been dealt with or than itself.
LEMMA GoodAppend ==
  ASSUME NEW T, NEW s \in Seq(T), NEW m \in T,
         NEW L, NEW o, NEW S, NEW R, NEW p,
         Good(s, L, o, S, R, p),
         m.cursor # NoCursor \/ m.type = "event" =>
           /\ m.cursor \in Nat
           /\ m.cursor <= p
           /\ \A e \in L : o < e /\ e <= m.cursor =>
                \/ Settled(e, s, Len(s), S, R)
                \/ m.type = "event" /\ e = m.cursor
           /\ \A e \in S : e <= m.cursor /\ (m.type = "event" => e < m.cursor)
           /\ \A k \in 1 .. Len(s) : EventAt(s, k) =>
                /\ s[k].cursor <= m.cursor
                /\ m.type = "event" => s[k].cursor < m.cursor
  PROVE  Good(Append(s, m), L, o, S, R, p)
<1> DEFINE t == Append(s, m)
<1>1. /\ Len(s) \in Nat
      /\ Len(t) = Len(s) + 1
      /\ \A i \in 1 .. Len(s) : t[i] = s[i]
      /\ t[Len(t)] = m
  OBVIOUS
<1> HIDE DEF t
<1> SUFFICES ASSUME NEW i \in 1 .. Len(t),
                    t[i].cursor # NoCursor \/ EventAt(t, i)
             PROVE  GoodAt(i, t, L, o, S, R, p)
  BY DEF Good, t
<1>2. CASE i \in 1 .. Len(s)
  <2>1. GoodAt(i, s, L, o, S, R, p)
    BY <1>1, <1>2 DEF Good, EventAt
  <2>2. \A k \in 1 .. i : k \in 1 .. Len(s) /\ t[k] = s[k]
    BY <1>1, <1>2
  <2> QED BY <1>1, <1>2, <2>1, <2>2 DEF GoodAt, EventAt, Settled
<1>3. CASE i = Len(t)
  <2>1. \A k \in 1 .. Len(s) : t[k] = s[k] /\ k \in 1 .. i
    BY <1>1, <1>3
  <2>2. \A e \in L : o < e /\ e <= t[i].cursor => Settled(e, t, i, S, R)
    BY <1>1, <1>3, <2>1 DEF Settled, EventAt
  <2> QED BY <1>1, <1>3, <2>1, <2>2 DEF GoodAt, EventAt
<1> QED BY <1>1, <1>2, <1>3

\* What is dealt with stays so when the appended element is not an event, and
\* an event extends it.
LEMMA DealtWithAppend ==
  ASSUME NEW T, NEW s \in Seq(T), NEW m \in T,
         NEW L, NEW o, NEW S, NEW R, NEW p, NEW q,
         DealtWith(q, s, L, o, S, R, p),
         m.type # "event"
  PROVE  DealtWith(q, Append(s, m), L, o, S, R, p)
<1> DEFINE t == Append(s, m)
<1>1. /\ Len(s) \in Nat
      /\ Len(t) = Len(s) + 1
      /\ \A i \in 1 .. Len(s) : t[i] = s[i] /\ i \in 1 .. Len(t)
      /\ t[Len(t)] = m
  OBVIOUS
<1> HIDE DEF t
<1>2. DealtWith(q, t, L, o, S, R, p)
  BY <1>1 DEF DealtWith, Settled, EventAt
<1> QED BY <1>2 DEF t

LEMMA DealtWithEvent ==
  ASSUME NEW T, NEW s \in Seq(T), NEW m \in T,
         NEW L \in SUBSET Nat, NEW o \in Nat, NEW S \in SUBSET Nat, NEW R,
         NEW p \in Nat, NEW q, NEW b,
         DealtWith(q, s, L, o, S, R, p),
         Good(s, L, o, S, R, p),
         NextBatch(b, q, L, p),
         m.type = "event", m.cursor \in b,
         \A other \in b : m.cursor <= other
  PROVE  /\ DealtWith(m.cursor, Append(s, m), L, o, S, R, p)
         /\ Good(Append(s, m), L, o, S, R, p)
         /\ NextBatch(b \ {m.cursor}, m.cursor, L, p)
<1> DEFINE t == Append(s, m)
<1>1. /\ Len(s) \in Nat
      /\ Len(t) = Len(s) + 1
      /\ \A i \in 1 .. Len(s) : t[i] = s[i] /\ i \in 1 .. Len(t)
      /\ t[Len(t)] = m
      /\ Len(t) \in 1 .. Len(t)
  OBVIOUS
<1> HIDE DEF t
<1>2. /\ m.cursor \in L /\ m.cursor \in Nat /\ q \in Nat /\ q < m.cursor
      /\ m.cursor <= p
      /\ b \subseteq Nat
  BY DEF NextBatch, DealtWith
<1>3. \A e \in L : e < m.cursor => e <= q
  BY <1>2 DEF NextBatch
<1>4. \A e \in L : o < e /\ e <= m.cursor =>
        Settled(e, s, Len(s), S, R) \/ e = m.cursor
  BY <1>2, <1>3 DEF DealtWith
<1>5. \A k \in 1 .. Len(s) :
        EventAt(s, k) => /\ s[k].cursor \in Nat
                         /\ s[k].cursor <= m.cursor
                         /\ s[k].cursor < m.cursor
  BY <1>2 DEF Good, GoodAt, DealtWith, EventAt
<1>6. ASSUME NEW e \in S
      PROVE  e \in Nat /\ e <= m.cursor /\ e < m.cursor
  <2>1. e \in Nat /\ e <= q
    BY DEF DealtWith
  <2> QED BY <1>2, <2>1
<1>7. Good(t, L, o, S, R, p)
  <2>1. \A e \in L : o < e /\ e <= m.cursor =>
          \/ Settled(e, s, Len(s), S, R)
          \/ m.type = "event" /\ e = m.cursor
    BY <1>4
  <2> QED BY <1>2, <1>5, <1>6, <2>1, GoodAppend DEF t
<1>8. DealtWith(m.cursor, t, L, o, S, R, p)
  <2>1. \A e \in L : o < e /\ e <= m.cursor => Settled(e, t, Len(t), S, R)
    BY <1>1, <1>4 DEF Settled, EventAt
  <2>2. \A k \in 1 .. Len(t) : EventAt(t, k) => t[k].cursor <= m.cursor
    BY <1>1, <1>2, <1>5 DEF EventAt
  <2> QED BY <1>2, <1>6, <2>1, <2>2 DEF DealtWith
<1>9. NextBatch(b \ {m.cursor}, m.cursor, L, p)
  BY <1>2 DEF NextBatch
<1> QED BY <1>7, <1>8, <1>9 DEF t

\* An event that the agent may not read.
LEMMA DealtWithRefused ==
  ASSUME NEW s, NEW L \in SUBSET Nat, NEW o \in Nat, NEW S \in SUBSET Nat,
         NEW R, NEW p \in Nat, NEW q, NEW b, NEW x \in b,
         DealtWith(q, s, L, o, S, R, p),
         Good(s, L, o, S, R, p),
         NextBatch(b, q, L, p),
         \A other \in b : x <= other
  PROVE  /\ DealtWith(x, s, L, o, S, R \cup {x}, p)
         /\ Good(s, L, o, S, R \cup {x}, p)
         /\ NextBatch(b \ {x}, x, L, p)
<1>1. /\ x \in L /\ x \in Nat /\ q \in Nat /\ q < x /\ x <= p
      /\ b \subseteq Nat
  BY DEF NextBatch, DealtWith
<1>2. \A e \in L : e < x => e <= q
  BY <1>1 DEF NextBatch
<1>3. \A k \in 1 .. Len(s) : EventAt(s, k) => s[k].cursor \in Nat
  BY DEF Good, GoodAt
<1>4. DealtWith(x, s, L, o, S, R \cup {x}, p)
  BY <1>1, <1>2, <1>3 DEF DealtWith, Settled
<1>5. Good(s, L, o, S, R \cup {x}, p)
  BY DEF Good, GoodAt, Settled
<1>6. NextBatch(b \ {x}, x, L, p)
  BY <1>1 DEF NextBatch
<1> QED BY <1>4, <1>5, <1>6

\* The log grows beyond the checkpoint, and the checkpoint advances.
LEMMA FeedGrows ==
  ASSUME NEW s, NEW L \in SUBSET Nat, NEW L2 \in SUBSET Nat, NEW o, NEW S, NEW R,
         NEW p \in Nat, NEW p2 \in Nat, p <= p2, L \subseteq L2,
         \A e \in L2 \ L : p < e
  PROVE  /\ Good(s, L, o, S, R, p) => Good(s, L2, o, S, R, p2)
         /\ \A q : DealtWith(q, s, L, o, S, R, p)
                    => DealtWith(q, s, L2, o, S, R, p2)
         /\ \A b : \A q \in Nat :
              NextBatch(b, q, L, p) => NextBatch(b, q, L2, p2)
         /\ \A c : GoodCursor(c, L, o, S, R, p)
                    => GoodCursor(c, L2, o, S, R, p2)
<1>1. Good(s, L, o, S, R, p) => Good(s, L2, o, S, R, p2)
  <2>1. ASSUME NEW i, GoodAt(i, s, L, o, S, R, p)
        PROVE  GoodAt(i, s, L2, o, S, R, p2)
    <3>1. s[i].cursor \in Nat /\ s[i].cursor <= p
      BY <2>1 DEF GoodAt
    <3>2. ASSUME NEW e \in L2, e <= s[i].cursor, e \notin L
          PROVE  FALSE
      <4>1. e \in L2 \ L
        BY <3>2
      <4>2. e \in Nat /\ p < e
        BY <4>1
      <4> QED BY <3>1, <3>2, <4>2
    <3>3. s[i].cursor <= p2
      BY <3>1
    <3>4. \A e \in L2 : o < e /\ e <= s[i].cursor => Settled(e, s, i, S, R)
      BY <2>1, <3>2 DEF GoodAt
    <3> QED BY <2>1, <3>1, <3>3, <3>4 DEF GoodAt
  <2> QED BY <2>1 DEF Good
<1>2. ASSUME NEW q, DealtWith(q, s, L, o, S, R, p)
      PROVE  DealtWith(q, s, L2, o, S, R, p2)
  <2>1. q \in Nat /\ q <= p
    BY <1>2 DEF DealtWith
  <2>2. ASSUME NEW e \in L2, e <= q, e \notin L
        PROVE  FALSE
    <3>1. e \in L2 \ L
      BY <2>2
    <3>2. e \in Nat /\ p < e
      BY <3>1
    <3> QED BY <2>1, <2>2, <3>2
  <2>3. \A e \in L2 : o < e /\ e <= q => Settled(e, s, Len(s), S, R)
    BY <1>2, <2>2 DEF DealtWith
  <2>4. q <= p2
    BY <2>1
  <2> QED BY <1>2, <2>1, <2>3, <2>4 DEF DealtWith
<1>3. ASSUME NEW b, NEW q \in Nat, NextBatch(b, q, L, p)
      PROVE  NextBatch(b, q, L2, p2)
  <2> SUFFICES ASSUME NEW e \in b
               PROVE  /\ e \in L2 /\ q < e /\ e <= p2
                      /\ \A f \in L2 : q < f /\ f < e => f \in b
    BY DEF NextBatch
  <2>1. e \in L /\ e \in Nat /\ q < e /\ e <= p
    BY <1>3 DEF NextBatch
  <2>2. ASSUME NEW f \in L2, q < f, f < e
        PROVE  f \in b
    <3>1. f \in L
      BY <2>1, <2>2
    <3> QED BY <1>3, <2>2, <3>1 DEF NextBatch
  <2> QED BY <2>1, <2>2
<1>4. ASSUME NEW c, GoodCursor(c, L, o, S, R, p)
      PROVE  GoodCursor(c, L2, o, S, R, p2)
  <2>1. c # NoCursor => \A e \in L2 : e <= c => e \in L
    BY <1>4 DEF GoodCursor
  <2> QED BY <1>4, <2>1 DEF GoodCursor
<1> QED BY <1>1, <1>2, <1>3, <1>4

\* The agent reads the first element on its way.
LEMMA GoodRead ==
  ASSUME NEW T, NEW s \in Seq(T), s # <<>>,
         NEW L \in SUBSET Nat, NEW o, NEW S \in SUBSET Nat, NEW R, NEW p, NEW c,
         Good(s, L, o, S, R, p),
         GoodCursor(c, L, o, S, R, p)
  PROVE  LET S2 == IF Head(s).type = "event" THEN S \cup {Head(s).cursor} ELSE S
             c2 == IF Head(s).cursor = NoCursor THEN c ELSE Head(s).cursor
         IN  /\ Good(Tail(s), L, o, S2, R, p)
             /\ GoodCursor(c2, L, o, S2, R, p)
             /\ \A q : DealtWith(q, s, L, o, S, R, p)
                        => DealtWith(q, Tail(s), L, o, S2, R, p)
<1> DEFINE t == Tail(s)
           S2 == IF Head(s).type = "event" THEN S \cup {Head(s).cursor} ELSE S
           c2 == IF Head(s).cursor = NoCursor THEN c ELSE Head(s).cursor
<1>1. /\ Len(s) \in Nat \ {0}
      /\ Len(t) = Len(s) - 1
      /\ \A i \in 1 .. Len(t) : t[i] = s[i + 1]
      /\ Head(s) = s[1]
  OBVIOUS
<1> HIDE DEF t
<1>2. EventAt(s, 1) => s[1].cursor \in Nat /\ s[1].cursor # NoCursor
  BY <1>1, RealtimeConstants DEF Good, GoodAt
<1>3. ASSUME NEW e, NEW n \in 0 .. Len(t), Settled(e, s, n + 1, S, R)
      PROVE  Settled(e, t, n, S2, R)
  <2>1. CASE e \in S \cup R
    BY <2>1 DEF Settled
  <2>2. ASSUME NEW k \in 1 .. n + 1, EventAt(s, k), s[k].cursor = e
        PROVE  Settled(e, t, n, S2, R)
    <3>1. CASE k = 1
      BY <1>1, <2>2, <3>1 DEF Settled, EventAt
    <3>2. CASE k # 1
      <4>1. k - 1 \in 1 .. n /\ t[k - 1] = s[k]
        BY <1>1, <3>2
      <4> QED BY <2>2, <4>1 DEF Settled, EventAt
    <3> QED BY <3>1, <3>2
  <2> QED BY <1>3, <2>1, <2>2 DEF Settled
<1>4. Good(t, L, o, S2, R, p)
  <2> SUFFICES ASSUME NEW i \in 1 .. Len(t),
                      t[i].cursor # NoCursor \/ EventAt(t, i)
               PROVE  GoodAt(i, t, L, o, S2, R, p)
    BY DEF Good
  <2>1. t[i] = s[i + 1] /\ i + 1 \in 1 .. Len(s) /\ i \in 0 .. Len(t)
    BY <1>1
  <2>2. GoodAt(i + 1, s, L, o, S, R, p)
    BY <2>1 DEF Good, EventAt
  <2>3. \A e \in L : o < e /\ e <= t[i].cursor => Settled(e, t, i, S2, R)
    BY <1>3, <2>1, <2>2 DEF GoodAt
  <2>4. EventAt(s, 1) => /\ s[1].cursor <= t[i].cursor
                         /\ EventAt(t, i) => s[1].cursor < t[i].cursor
    <3>1. 1 \in 1 .. (i + 1) - 1
      OBVIOUS
    <3> QED BY <2>1, <2>2, <3>1 DEF GoodAt, EventAt
  <2>5. \A e \in S2 : e <= t[i].cursor /\ (EventAt(t, i) => e < t[i].cursor)
    BY <1>1, <2>1, <2>2, <2>4 DEF GoodAt, EventAt
  <2>6. ASSUME NEW k \in 1 .. i - 1, EventAt(t, k)
        PROVE  /\ t[k].cursor <= t[i].cursor
               /\ EventAt(t, i) => t[k].cursor < t[i].cursor
    <3>1. k + 1 \in 1 .. (i + 1) - 1 /\ t[k] = s[k + 1]
      BY <1>1
    <3> QED BY <2>1, <2>2, <2>6, <3>1 DEF GoodAt, EventAt
  <2> QED BY <2>1, <2>2, <2>3, <2>5, <2>6 DEF GoodAt
<1>5. GoodCursor(c2, L, o, S2, R, p)
  <2>1. CASE s[1].cursor = NoCursor
    BY <1>1, <1>2, <2>1 DEF GoodCursor, EventAt
  <2>2. CASE s[1].cursor # NoCursor
    <3>1. GoodAt(1, s, L, o, S, R, p) /\ c2 = s[1].cursor
      BY <1>1, <2>2 DEF Good
    <3>2. \A e \in L : o < e /\ e <= c2 => e \in S2 \cup R
      BY <1>1, <3>1 DEF GoodAt, Settled, EventAt
    <3> QED BY <1>1, <3>1, <3>2 DEF GoodAt, GoodCursor, EventAt
  <2> QED BY <2>1, <2>2
<1>6. ASSUME NEW q, DealtWith(q, s, L, o, S, R, p)
      PROVE  DealtWith(q, t, L, o, S2, R, p)
  <2>1. \A e \in L : o < e /\ e <= q => Settled(e, t, Len(t), S2, R)
    <3>1. Len(t) \in 0 .. Len(t) /\ Len(s) = Len(t) + 1
      BY <1>1
    <3>2. \A e \in L : o < e /\ e <= q => Settled(e, s, Len(t) + 1, S, R)
      BY <1>6, <3>1 DEF DealtWith
    <3> QED BY <1>3, <3>1, <3>2
  <2>2. \A e \in S2 : e <= q
    <3>1. 1 \in 1 .. Len(s)
      BY <1>1
    <3>2. EventAt(s, 1) => s[1].cursor <= q
      BY <1>6, <3>1 DEF DealtWith
    <3>3. \A e \in S : e <= q
      BY <1>6 DEF DealtWith
    <3> QED BY <1>1, <3>2, <3>3 DEF EventAt
  <2>3. ASSUME NEW k \in 1 .. Len(t), EventAt(t, k)
        PROVE  t[k].cursor <= q
    <3>1. k + 1 \in 1 .. Len(s) /\ t[k] = s[k + 1]
      BY <1>1
    <3> QED BY <1>6, <2>3, <3>1 DEF DealtWith, EventAt
  <2> QED BY <1>6, <2>1, <2>2, <2>3 DEF DealtWith
<1> QED BY <1>4, <1>5, <1>6 DEF t

\* What is left on its way when the end of it is lost.
LEMMA GoodPrefix ==
  ASSUME NEW T, NEW s \in Seq(T), NEW t \in Seq(T),
         NEW L, NEW o, NEW S, NEW R, NEW p,
         Good(s \o t, L, o, S, R, p)
  PROVE  Good(s, L, o, S, R, p)
<1> DEFINE u == s \o t
<1>1. /\ Len(s) \in Nat /\ Len(t) \in Nat
      /\ Len(u) = Len(s) + Len(t)
      /\ \A i \in 1 .. Len(s) : u[i] = s[i] /\ i \in 1 .. Len(u)
  OBVIOUS
<1> HIDE DEF u
<1> SUFFICES ASSUME NEW i \in 1 .. Len(s),
                    s[i].cursor # NoCursor \/ EventAt(s, i)
             PROVE  GoodAt(i, s, L, o, S, R, p)
  BY DEF Good
<1>2. GoodAt(i, u, L, o, S, R, p)
  BY <1>1 DEF Good, EventAt, u
<1>3. \A k \in 1 .. i : k \in 1 .. Len(s) /\ u[k] = s[k]
  BY <1>1
<1>4. i \in 1 .. i /\ \A k \in 1 .. i - 1 : k \in 1 .. i
  BY <1>1
<1>5. u[i] = s[i]
  BY <1>3, <1>4
<1>6. \A e \in L : o < e /\ e <= s[i].cursor => Settled(e, s, i, S, R)
  BY <1>2, <1>3, <1>5 DEF GoodAt, Settled, EventAt
<1>7. \A k \in 1 .. i - 1 : EventAt(s, k) =>
        /\ s[k].cursor <= s[i].cursor
        /\ EventAt(s, i) => s[k].cursor < s[i].cursor
  BY <1>2, <1>3, <1>4, <1>5 DEF GoodAt, EventAt
<1> QED BY <1>2, <1>5, <1>6, <1>7 DEF GoodAt, EventAt

\* A connection opens at q.
LEMMA GoodOpen ==
  ASSUME NEW L, NEW o, NEW S, NEW R, NEW p, NEW q \in Nat, q <= p,
         \A e \in L : o < e /\ e <= q => e \in S \cup R,
         \A e \in S : e <= q
  PROVE  LET s == <<[type |-> "ready", cursor |-> q]>>
         IN  Good(s, L, o, S, R, p) /\ DealtWith(q, s, L, o, S, R, p)
<1> DEFINE s == <<[type |-> "ready", cursor |-> q]>>
<1>1. /\ Len(s) = 1
      /\ s[1].cursor = q
      /\ ~EventAt(s, 1)
  BY DEF EventAt
<1> HIDE DEF s
<1>2. Good(s, L, o, S, R, p)
  BY <1>1 DEF Good, GoodAt, Settled
<1>3. DealtWith(q, s, L, o, S, R, p)
  BY <1>1 DEF DealtWith, Settled
<1> QED BY <1>2, <1>3 DEF s

\* FeedAfter: the first events of the feed after q leave no gap.
LEMMA FeedAfterIsNext ==
  ASSUME NEW L \in SUBSET Nat, IsFiniteSet(L), NEW q \in Nat, NEW p \in Nat,
         NEW later, NEW b,
         later = {e \in L : e <= p /\ e > q},
         b = {e \in later : Cardinality({f \in later : f < e}) < BatchSize}
  PROVE  NextBatch(b, q, L, p)
<1> DEFINE before(e) == {f \in later : f < e}
<1>0. IsFiniteSet(later)
  BY FS_Subset
<1> SUFFICES ASSUME NEW e \in b
             PROVE  /\ e \in L /\ q < e /\ e <= p
                    /\ \A f \in L : q < f /\ f < e => f \in b
  BY DEF NextBatch
<1>1. e \in later /\ Cardinality(before(e)) < BatchSize
  OBVIOUS
<1>2. ASSUME NEW f \in L, q < f, f < e
      PROVE  f \in b
  <2>1. f \in later
    BY <1>1, <1>2
  <2>2. before(f) \subseteq before(e)
    <3>1. e \in Nat /\ f \in Nat /\ later \subseteq Nat
      BY <1>1, <2>1
    <3>2. ASSUME NEW g \in later, g < f PROVE g < e
      BY <1>2, <3>1, <3>2
    <3> QED BY <3>2
  <2>3. IsFiniteSet(before(e)) /\ IsFiniteSet(before(f))
    BY <1>0, FS_Subset
  <2>4. /\ Cardinality(before(f)) <= Cardinality(before(e))
        /\ Cardinality(before(f)) \in Nat
        /\ Cardinality(before(e)) \in Nat
    BY <2>2, <2>3, FS_Subset, FS_CardinalityType
  <2>5. Cardinality(before(f)) < BatchSize
    BY <1>1, <2>4, RealtimeConstants
  <2> QED BY <2>1, <2>5
<1> QED BY <1>1, <1>2

-----------------------------------------------------------------------------
(* The inductive invariant.                                                *)

\* What is on its way to the agent.
Way == IF transport = "sse" THEN frames \o messages ELSE frames

\* The goroutines and the loop of a connection are gone when it is closed, and
\* those of the other transport always.
Shape ==
  /\ transport \in {"websocket", "sse"}
  /\ IsFiniteSet(log)
  /\ transport = "websocket" => producer = "ended"
  /\ handler = "closed" =>
       producer = "ended" /\ messages = <<>> /\ terminal = <<>>
  /\ phase = "closed" => pending = {}
  /\ GivenUpIsTold

\* TypeOK speaks of one transport at a time; the other's channels are empty.
LEMMA InitShape == Init => TypeOK /\ Shape
<1> SUFFICES ASSUME Init PROVE TypeOK /\ Shape
  OBVIOUS
<1> USE RealtimeConstants
    DEF Init, Socket!Init, Stream!Init, Socket!FeedInit, Stream!FeedInit
<1>1. <<>> \in Seq(Socket!Frame) /\ <<>> \in Seq(Stream!Message)
      /\ <<>> \in Seq(Stream!Message \cup Stream!Terminal) /\ Len(<<>>) = 0
  OBVIOUS
<1>2. Socket!TypeOK
  BY <1>1 DEF Socket!TypeOK, Socket!Positions
<1>3. Stream!TypeOK
  BY <1>1 DEF Stream!TypeOK, Stream!Positions
<1>4. Shape
  BY FS_EmptySet DEF Shape, GivenUpIsTold, Stream!GivenUpIsTold
<1> QED BY <1>2, <1>3, <1>4 DEF TypeOK

LEMMA SocketShape ==
  TypeOK /\ Shape /\ Socket!Next /\ OnSocket /\ transport = "websocket"
    => TypeOK' /\ Shape'
<1> SUFFICES ASSUME TypeOK, Shape, Socket!Next, OnSocket
             PROVE  Socket!TypeOK' /\ Shape'
  BY DEF TypeOK, OnSocket, streamVars
<1> USE RealtimeConstants DEF OnSocket, streamVars, Shape, GivenUpIsTold
<1>1. Socket!TypeOK /\ handler = "closed" /\ transport = "websocket"
  BY DEF TypeOK
<1>2. /\ \A p \in Socket!Positions :
           /\ [type |-> "ready", cursor |-> p] \in Socket!Frame
           /\ [type |-> "heartbeat", cursor |-> p] \in Socket!Frame
           /\ [type |-> "rate_limited", cursor |-> p] \in Socket!Frame
      /\ \A e \in Sequences : [type |-> "event", cursor |-> e] \in Socket!Frame
  BY DEF Socket!Frame
<1>3. CASE Socket!FeedStep
  <2> USE <1>1, <1>3 DEF Socket!FeedStep, Socket!serverVars, Socket!clientVars
  <2>1. CASE \E e \in Sequences \ log : Socket!CommitEvents({e})
    <3>1. PICK e \in Sequences \ log : log' = log \cup {e} /\ position' = position
      BY <2>1 DEF Socket!CommitEvents
    <3>2. IsFiniteSet(log')
      BY <3>1, FS_AddElement
    <3> QED BY <3>1, <3>2 DEF Socket!TypeOK
  <2>2. CASE \E e \in log : Socket!AdvanceTo(Reader, e)
    BY <2>2 DEF Socket!AdvanceTo, Socket!TypeOK, Socket!Positions
  <2> QED BY <2>1, <2>2
<1>4. CASE \E m \in Socket!Positions : Socket!MoveWindow(m)
  BY <1>1, <1>4 DEF Socket!MoveWindow, Socket!serverVars, Socket!clientVars,
       Socket!TypeOK, Socket!feedVars
<1>5. CASE Socket!ConnectFresh \/ Socket!Resume
  <2> SUFFICES ASSUME NEW p \in Socket!Positions, Socket!Open(p)
               PROVE  <<[type |-> "ready", cursor |-> p]>> \in Seq(Socket!Frame)
    BY <1>1, <1>5 DEF Socket!ConnectFresh, Socket!Resume, Socket!Open,
         Socket!TypeOK, Socket!feedVars
  <2>1. [type |-> "ready", cursor |-> p] \in Socket!Frame
    BY <1>2
  <2> QED BY <2>1, OneElement
<1>6. CASE Socket!SnapshotRequired
  BY <1>1, <1>6 DEF Socket!SnapshotRequired, Socket!serverVars, Socket!TypeOK,
       Socket!feedVars
<1>7. CASE Socket!Poll
  BY <1>1, <1>7 DEF Socket!Poll, Socket!Drain, Socket!FeedAfter, Socket!Feed,
       Socket!clientVars, Socket!TypeOK, Socket!feedVars
<1>8. CASE Socket!EndBatch
  <2>1. [type |-> "heartbeat", cursor |-> current] \in Socket!Frame
    BY <1>1, <1>2 DEF Socket!TypeOK
  <2> QED BY <1>1, <1>8, <2>1 DEF Socket!EndBatch, Socket!clientVars,
            Socket!TypeOK, Socket!feedVars
<1>9. CASE \E e \in Sequences : Socket!Examine(e)
  <2> PICK e \in Sequences : Socket!Examine(e)
    BY <1>9
  <2>1. CASE Socket!StepOver(e)
    BY <1>1, <2>1 DEF Socket!StepOver, Socket!Positions, Socket!clientVars,
         Socket!TypeOK, Socket!feedVars
  <2>2. CASE Socket!WriteEvent(e)
    <3>1. /\ e \in Socket!Positions
          /\ [type |-> "event", cursor |-> e] \in Socket!Frame
      BY <1>1, <1>2 DEF Socket!TypeOK, Socket!Positions
    <3> QED BY <1>1, <2>2, <3>1 DEF Socket!WriteEvent, Socket!clientVars,
              Socket!TypeOK, Socket!feedVars
  <2>3. CASE Socket!RateLimit(e)
    <3>1. [type |-> "rate_limited", cursor |-> lastDelivered] \in Socket!Frame
      BY <1>1, <1>2 DEF Socket!TypeOK
    <3> QED BY <1>1, <2>3, <3>1 DEF Socket!RateLimit, Socket!CloseConnection,
              Socket!clientVars, Socket!TypeOK, Socket!feedVars
  <2> QED BY <2>1, <2>2, <2>3 DEF Socket!Examine
<1>10. CASE Socket!EndLoop
  BY <1>1, <1>10 DEF Socket!EndLoop, Socket!CloseConnection,
       Socket!clientVars, Socket!TypeOK, Socket!feedVars
<1>11. CASE Socket!ReadFrame
  <2>1. Head(frames) \in Socket!Frame /\ Tail(frames) \in Seq(Socket!Frame)
    BY <1>1, <1>11 DEF Socket!ReadFrame, Socket!TypeOK
  <2>2. /\ Head(frames).cursor \in Socket!Positions
        /\ Head(frames).type = "event" => Head(frames).cursor \in Sequences
    BY <2>1 DEF Socket!Frame, Socket!Positions
  <2> QED BY <1>1, <1>11, <2>1, <2>2 DEF Socket!ReadFrame, Socket!serverVars,
            Socket!TypeOK, Socket!feedVars
<1>12. CASE \E e \in Sequences : Socket!Acknowledge(e)
  BY <1>1, <1>12 DEF Socket!Acknowledge, Socket!serverVars, Socket!TypeOK,
       Socket!feedVars, Socket!Positions
<1>13. CASE Socket!LoseConnection
  <2>1. <<>> \in Seq(Socket!Frame)
    OBVIOUS
  <2> QED BY <1>1, <1>13, <2>1 DEF Socket!LoseConnection, Socket!CloseConnection,
       Socket!clientVars, Socket!TypeOK, Socket!feedVars
<1> QED BY <1>3, <1>4, <1>5, <1>6, <1>7, <1>8, <1>9, <1>10, <1>11, <1>12, <1>13
        DEF Socket!Next, Socket!Connect, Socket!Loop

LEMMA StreamShape ==
  TypeOK /\ Shape /\ Stream!Next /\ OnStream /\ transport = "sse"
    => TypeOK' /\ Shape'
<1> SUFFICES ASSUME TypeOK, Shape, Stream!Next, OnStream, transport = "sse"
             PROVE  Stream!TypeOK' /\ Shape'
  BY DEF TypeOK, OnStream, socketVars
<1> USE RealtimeConstants DEF OnStream, socketVars, Shape, GivenUpIsTold,
      Stream!GivenUpIsTold
<1>1. Stream!TypeOK /\ phase = "closed" /\ transport = "sse"
  BY DEF TypeOK
<1>2. /\ \A p \in Stream!Positions :
           /\ [type |-> "ready", cursor |-> p] \in Stream!Message
           /\ [type |-> "heartbeat", cursor |-> p] \in Stream!Message
      /\ \A e \in Sequences : [type |-> "event", cursor |-> e] \in Stream!Message
      /\ [type |-> "rate_limited", cursor |-> NoCursor] \in Stream!Terminal
      /\ [type |-> "ended", cursor |-> NoCursor] \in Stream!Terminal
      /\ Stream!Message \subseteq Stream!Message \cup Stream!Terminal
      /\ Stream!Terminal \subseteq Stream!Message \cup Stream!Terminal
  BY DEF Stream!Message, Stream!Terminal
<1> USE DEF Stream!producerVars, Stream!channelVars, Stream!agentVars,
      Stream!feedVars
<1>3. CASE Stream!FeedStep
  <2>1. CASE \E e \in Sequences \ log : Stream!CommitEvents({e})
    <3>1. PICK e \in Sequences \ log :
            log' = log \cup {e} /\ position' = position
      BY <2>1 DEF Stream!CommitEvents
    <3>2. IsFiniteSet(log')
      BY <3>1, FS_AddElement
    <3> QED BY <1>1, <1>3, <3>1, <3>2 DEF Stream!FeedStep, Stream!TypeOK
  <2>2. CASE \E e \in log : Stream!AdvanceTo(Reader, e)
    BY <1>1, <1>3, <2>2 DEF Stream!FeedStep, Stream!AdvanceTo, Stream!TypeOK,
         Stream!Positions
  <2> QED BY <1>3, <2>1, <2>2 DEF Stream!FeedStep
<1>4. CASE \E m \in Stream!Positions : Stream!MoveWindow(m)
  BY <1>1, <1>4 DEF Stream!MoveWindow, Stream!TypeOK
<1>5. CASE Stream!ConnectFresh \/ Stream!Resume
  <2>1. PICK p \in Stream!Positions : Stream!Open(p)
    BY <1>1, <1>5 DEF Stream!ConnectFresh, Stream!Resume, Stream!TypeOK
  <2>2. [type |-> "ready", cursor |-> p]
          \in Stream!Message \cup Stream!Terminal
    BY <1>2
  <2>3. <<[type |-> "ready", cursor |-> p]>>
          \in Seq(Stream!Message \cup Stream!Terminal)
    BY <2>2, OneElement
  <2>4. <<>> \in Seq(Stream!Message) /\ Len(<<>>) <= BufferSize
    OBVIOUS
  <2> QED BY <1>1, <1>5, <2>1, <2>3, <2>4 DEF Stream!ConnectFresh,
            Stream!Resume, Stream!Open, Stream!TypeOK
<1>6. CASE Stream!SnapshotRequired
  BY <1>1, <1>6 DEF Stream!SnapshotRequired, Stream!TypeOK
<1>7. CASE Stream!Poll
  BY <1>1, <1>7 DEF Stream!Poll, Stream!FeedAfter, Stream!Feed, Stream!TypeOK
<1>8. CASE Stream!PollFails
  BY <1>1, <1>2, <1>8 DEF Stream!PollFails, Stream!TypeOK
<1>9. ASSUME NEW type, NEW p, NEW next \in {"polling", "offering"},
             Stream!Offer(type, p, next),
             [type |-> type, cursor |-> p] \in Stream!Message
      PROVE  /\ producer' \in {"ended", "polling", "offering"}
             /\ messages' \in Seq(Stream!Message)
             /\ Len(messages') <= BufferSize
             /\ terminal' \in {<<>>} \cup {<<m>> : m \in Stream!Terminal}
             /\ producer' = "ended" => terminal' # <<>>
  <2>1. CASE Stream!BufferFull
    BY <1>1, <1>2, <1>9, <2>1 DEF Stream!Offer, Stream!TypeOK
  <2>2. CASE ~Stream!BufferFull
    <3> DEFINE m == [type |-> type, cursor |-> p]
    <3>1. m \in Stream!Message
      BY <1>9
    <3>2. messages' = Append(messages, m)
      BY <1>9, <2>2 DEF Stream!Offer
    <3> HIDE DEF m
    <3>3. /\ messages' \in Seq(Stream!Message)
          /\ Len(messages') = Len(messages) + 1
          /\ Len(messages) \in Nat
      BY <1>1, <3>1, <3>2 DEF Stream!TypeOK
    <3>4. Len(messages') <= BufferSize
      BY <2>2, <3>3 DEF Stream!BufferFull
    <3> QED BY <1>1, <1>9, <2>2, <3>3, <3>4 DEF Stream!Offer, Stream!TypeOK
  <2> QED BY <2>1, <2>2
<1>10. CASE \E e \in Sequences : Stream!StepOver(e)
  BY <1>1, <1>10 DEF Stream!StepOver, Stream!Positions, Stream!TypeOK
<1>11. CASE \E e \in Sequences : Stream!OfferEvent(e)
  <2> PICK e \in Sequences : Stream!OfferEvent(e)
    BY <1>11
  <2>1. [type |-> "event", cursor |-> e] \in Stream!Message
    BY <1>2
  <2>2. handler # "closed"
    BY <1>1 DEF Stream!OfferEvent
  <2> QED BY <1>1, <1>9, <2>1, <2>2 DEF Stream!OfferEvent, Stream!Positions,
            Stream!TypeOK
<1>12. CASE Stream!EndBatch
  BY <1>1, <1>12 DEF Stream!EndBatch, Stream!TypeOK
<1>13. CASE Stream!Heartbeat
  <2>1. [type |-> "heartbeat", cursor |-> current] \in Stream!Message
    BY <1>1, <1>2 DEF Stream!TypeOK
  <2>2. handler # "closed"
    BY <1>1, <1>13 DEF Stream!Heartbeat
  <2> QED BY <1>1, <1>9, <1>13, <2>1, <2>2 DEF Stream!Heartbeat, Stream!TypeOK
<1>14. CASE Stream!WriteMessage
  <2>1. /\ Head(messages) \in Stream!Message
        /\ Tail(messages) \in Seq(Stream!Message)
        /\ Len(Tail(messages)) <= BufferSize
    BY <1>1, <1>14 DEF Stream!WriteMessage, Stream!TypeOK
  <2>2. Append(frames, Head(messages))
          \in Seq(Stream!Message \cup Stream!Terminal)
    BY <1>1, <2>1, OneElement DEF Stream!TypeOK
  <2>3. handler # "closed"
    BY <1>14 DEF Stream!WriteMessage
  <2> QED BY <1>1, <1>14, <2>1, <2>2, <2>3 DEF Stream!WriteMessage, Stream!TypeOK
<1>15. <<>> \in Seq(Stream!Message) /\ Len(<<>>) <= BufferSize
       /\ <<>> \in Seq(Stream!Message \cup Stream!Terminal)
  OBVIOUS
<1>16. CASE Stream!WriteTerminal
  <2>1. Head(terminal) \in Stream!Terminal
    BY <1>1, <1>16 DEF Stream!WriteTerminal, Stream!TypeOK
  <2>2. Append(frames, Head(terminal))
          \in Seq(Stream!Message \cup Stream!Terminal)
    BY <1>1, <2>1, OneElement DEF Stream!TypeOK
  <2> QED BY <1>1, <1>15, <1>16, <2>2 DEF Stream!WriteTerminal,
            Stream!CloseStream, Stream!TypeOK
<1>17. CASE Stream!EndHandler
  BY <1>1, <1>15, <1>17 DEF Stream!EndHandler, Stream!CloseStream, Stream!TypeOK
<1>18. CASE Stream!ReadFrame
  <2>1. /\ Head(frames) \in Stream!Message \cup Stream!Terminal
        /\ Tail(frames) \in Seq(Stream!Message \cup Stream!Terminal)
    BY <1>1, <1>18 DEF Stream!ReadFrame, Stream!TypeOK
  <2>2. /\ Head(frames).cursor \in Stream!Positions \cup {NoCursor}
        /\ Head(frames).type = "event" => Head(frames).cursor \in Sequences
    BY <2>1 DEF Stream!Message, Stream!Terminal, Stream!Positions
  <2> QED BY <1>1, <1>18, <2>1, <2>2 DEF Stream!ReadFrame, Stream!TypeOK
<1>19. CASE Stream!LoseConnection
  BY <1>1, <1>15, <1>19 DEF Stream!LoseConnection, Stream!CloseStream,
       Stream!TypeOK
<1> QED BY <1>3, <1>4, <1>5, <1>6, <1>7, <1>8, <1>10, <1>11, <1>12, <1>13,
           <1>14, <1>16, <1>17, <1>18, <1>19
        DEF Stream!Next, Stream!Connect, Stream!Produce

LEMMA SwitchShape == TypeOK /\ Shape /\ Switch => TypeOK' /\ Shape'
<1> SUFFICES ASSUME TypeOK, Shape, Switch PROVE TypeOK' /\ Shape'
  OBVIOUS
<1> USE RealtimeConstants DEF Switch, streamVars, Socket!MayConnect,
      Stream!MayConnect, Shape, GivenUpIsTold, Stream!GivenUpIsTold
<1>1. /\ <<>> \in Seq(Socket!Frame)
      /\ <<>> \in Seq(Stream!Message) /\ Len(<<>>) <= BufferSize
      /\ <<>> \in Seq(Stream!Message \cup Stream!Terminal)
  OBVIOUS
<1>2. CASE transport = "websocket"
  <2>1. Stream!TypeOK'
    BY <1>1, <1>2 DEF TypeOK, Socket!TypeOK, Stream!TypeOK, feedVars,
         Socket!Positions, Stream!Positions
  <2> QED BY <1>2, <2>1 DEF TypeOK, feedVars
<1>3. CASE transport = "sse"
  <2>1. Socket!TypeOK'
    BY <1>1, <1>3 DEF TypeOK, Socket!TypeOK, Stream!TypeOK, feedVars,
         Socket!Positions, Stream!Positions
  <2> QED BY <1>3, <2>1 DEF TypeOK, feedVars
<1> QED BY <1>2, <1>3

\* What the server, the connection and the agent have between them.
Contract ==
  /\ GoodCursor(cursor, log, origin, seen, refused, position[Reader])
  /\ Good(Way, log, origin, seen, refused, position[Reader])
  /\ phase # "closed" \/ producer # "ended" =>
       /\ DealtWith(current, Way, log, origin, seen, refused, position[Reader])
       /\ NextBatch(batch, current, log, position[Reader])

\* The cursor rate_limited repeats is that of the last event written, or that
\* of "ready".
Delivered ==
  phase # "closed" =>
    /\ lastDelivered <= current
    /\ \A e \in seen : e <= lastDelivered
    /\ \A k \in 1 .. Len(frames) :
         EventAt(frames, k) => frames[k].cursor <= lastDelivered

\* Cardinality as the instances see it.
LEMMA SameCardinality ==
  ASSUME NEW S
  PROVE  /\ Socket!Cardinality(S) = Cardinality(S)
         /\ Stream!Cardinality(S) = Cardinality(S)
BY DEF Socket!Cardinality, Stream!Cardinality, Cardinality

LEMMA PositionsAreNat == \A p \in Sequences \cup {0} : p \in Nat
BY RealtimeConstants

\* The types a step's proof needs.
LEMMA Typed ==
  ASSUME TypeOK, Shape
  PROVE  /\ log \in SUBSET Nat /\ IsFiniteSet(log)
         /\ position[Reader] \in Nat /\ minimum \in Nat
         /\ current \in Nat
         /\ batch \subseteq Nat
         /\ seen \in SUBSET Nat
         /\ origin \in Nat
         /\ cursor \in Nat \cup {NoCursor}
         /\ transport = "websocket" =>
              /\ frames \in Seq(Socket!Frame) /\ lastDelivered \in Nat
              /\ start \in Nat /\ pending \subseteq Nat /\ acks \subseteq Nat
              /\ Way = frames /\ producer = "ended"
         /\ transport = "sse" =>
              /\ messages \in Seq(Stream!Message \cup Stream!Terminal)
              /\ frames \in Seq(Stream!Message \cup Stream!Terminal)
              /\ Way \in Seq(Stream!Message \cup Stream!Terminal)
              /\ Way = frames \o messages /\ phase = "closed"
<1>1. /\ log \subseteq Sequences
      /\ position \in [Consumers -> Sequences \cup {0}]
      /\ minimum \in Sequences \cup {0}
      /\ current \in Sequences \cup {0}
      /\ batch \subseteq Sequences
      /\ seen \subseteq Sequences
      /\ origin \in Sequences \cup {0}
      /\ cursor \in Sequences \cup {0, NoCursor}
  BY DEF TypeOK, Shape, Socket!TypeOK, Socket!Positions, Stream!TypeOK,
       Stream!Positions
<1>2. position[Reader] \in Sequences \cup {0}
  BY <1>1, RealtimeConstants
<1>3. Sequences \subseteq Nat
  BY RealtimeConstants
<1>4. ASSUME transport = "websocket"
      PROVE  /\ frames \in Seq(Socket!Frame) /\ lastDelivered \in Nat
             /\ start \in Nat /\ pending \subseteq Nat /\ acks \subseteq Nat
             /\ Way = frames /\ producer = "ended"
  <2>1. Socket!TypeOK
    BY <1>4 DEF TypeOK
  <2>2. /\ lastDelivered \in Sequences \cup {0} /\ start \in Sequences \cup {0}
        /\ pending \subseteq Sequences /\ acks \subseteq Sequences \cup {0}
        /\ frames \in Seq(Socket!Frame)
    BY <2>1 DEF Socket!TypeOK, Socket!Positions
  <2>3. Way = frames /\ producer = "ended"
    BY <1>4 DEF Way, Shape
  <2> QED BY <1>3, <2>2, <2>3
<1>5. ASSUME transport = "sse"
      PROVE  /\ messages \in Seq(Stream!Message \cup Stream!Terminal)
             /\ frames \in Seq(Stream!Message \cup Stream!Terminal)
             /\ Way \in Seq(Stream!Message \cup Stream!Terminal)
             /\ Way = frames \o messages /\ phase = "closed"
  <2>1. Stream!TypeOK /\ phase = "closed"
    BY <1>5 DEF TypeOK
  <2>2. messages \in Seq(Stream!Message \cup Stream!Terminal)
    <3>1. messages \in Seq(Stream!Message)
      BY <2>1 DEF Stream!TypeOK
    <3> QED BY <3>1
  <2>3. /\ frames \in Seq(Stream!Message \cup Stream!Terminal)
        /\ Way = frames \o messages
    BY <1>5, <2>1 DEF Stream!TypeOK, Way
  <2>4. Way \in Seq(Stream!Message \cup Stream!Terminal)
    BY <2>2, <2>3
  <2> QED BY <2>1, <2>2, <2>3, <2>4
<1>6. IsFiniteSet(log)
  BY DEF Shape
<1>7. /\ log \in SUBSET Nat
      /\ position[Reader] \in Nat /\ minimum \in Nat
      /\ current \in Nat
      /\ batch \subseteq Nat
      /\ seen \in SUBSET Nat
      /\ origin \in Nat
      /\ cursor \in Nat \cup {NoCursor}
  <2>2. \A x \in Sequences \cup {0} : x \in Nat
    BY PositionsAreNat
  <2>3. log \in SUBSET Nat /\ batch \subseteq Nat /\ seen \in SUBSET Nat
    BY <1>1, <1>3
  <2>4. position[Reader] \in Nat
    BY <1>2, <2>2
  <2>5. minimum \in Nat /\ current \in Nat /\ origin \in Nat
    BY <1>1, <2>2
  <2>6. cursor \in Nat \cup {NoCursor}
    BY <1>1, <2>2
  <2> QED BY <2>3, <2>4, <2>5, <2>6
<1> QED BY <1>4, <1>5, <1>6, <1>7

LEMMA SocketContract ==
  ASSUME TypeOK, Shape, Contract, Delivered, TypeOK', Shape',
         Socket!Next, OnSocket, transport = "websocket"
  PROVE  Contract' /\ Delivered'
<1>1. transport' = "websocket" /\ producer' = producer
  BY DEF OnSocket, streamVars
<1>2. /\ log \in SUBSET Nat /\ IsFiniteSet(log)
      /\ position[Reader] \in Nat /\ current \in Nat /\ lastDelivered \in Nat
      /\ batch \subseteq Nat /\ seen \in SUBSET Nat /\ origin \in Nat
      /\ cursor \in Nat \cup {NoCursor}
      /\ frames \in Seq(Socket!Frame)
      /\ Way = frames /\ producer = "ended"
  BY Typed
<1>3. /\ log' \in SUBSET Nat
      /\ frames' \in Seq(Socket!Frame)
      /\ Way' = frames'
      /\ position'[Reader] \in Nat
  <2>1. Socket!TypeOK'
    BY <1>1 DEF TypeOK
  <2>2. Way' = frames'
    BY <1>1 DEF Way
  <2>3. /\ log' \subseteq Sequences /\ Sequences \subseteq Nat
        /\ position' \in [Consumers -> Sequences \cup {0}]
        /\ frames' \in Seq(Socket!Frame)
    BY <2>1, RealtimeConstants DEF Socket!TypeOK, Socket!Positions
  <2>4. log' \in SUBSET Nat
    BY <2>3
  <2>5. position'[Reader] \in Sequences \cup {0}
    <3>1. Reader \in Consumers
      BY RealtimeConstants
    <3>2. position' \in [Consumers -> Sequences \cup {0}]
      BY <2>3
    <3> QED BY <3>1, <3>2
  <2>6. position'[Reader] \in Nat
    BY <2>5, PositionsAreNat
  <2> QED BY <2>2, <2>3, <2>4, <2>6
<1>4. /\ GoodCursor(cursor, log, origin, seen, refused, position[Reader])
      /\ Good(frames, log, origin, seen, refused, position[Reader])
      /\ phase # "closed" =>
           /\ DealtWith(current, frames, log, origin, seen, refused,
                        position[Reader])
           /\ NextBatch(batch, current, log, position[Reader])
  BY <1>2 DEF Contract
<1>5. SUFFICES
        /\ GoodCursor(cursor', log', origin', seen', refused',
                      position'[Reader])
        /\ Good(frames', log', origin', seen', refused', position'[Reader])
        /\ phase' # "closed" =>
             /\ DealtWith(current', frames', log', origin', seen', refused',
                          position'[Reader])
             /\ NextBatch(batch', current', log', position'[Reader])
             /\ Delivered'
  BY <1>1, <1>2, <1>3 DEF Contract, Delivered
<1>6. CASE Socket!FeedStep
  <2>1. /\ UNCHANGED <<cursor, origin, seen, refused, frames, phase, current,
                       batch, lastDelivered>>
    BY <1>6 DEF Socket!FeedStep, Socket!serverVars, Socket!clientVars
  <2>2. /\ log \subseteq log'
        /\ position[Reader] <= position'[Reader]
        /\ \A e \in log' \ log : position[Reader] < e
    <3>1. CASE \E e \in Sequences \ log : Socket!CommitEvents({e})
      BY <1>2, <3>1, RealtimeConstants DEF Socket!CommitEvents
    <3>2. CASE \E e \in log : Socket!AdvanceTo(Reader, e)
      <4>1. PICK e \in log : Socket!AdvanceTo(Reader, e)
        BY <3>2
      <4>2. position' = [position EXCEPT ![Reader] = e] /\ log' = log
            /\ position[Reader] < e /\ e \in Nat
        BY <1>2, <4>1 DEF Socket!AdvanceTo
      <4>3. position'[Reader] = e \/ position'[Reader] = position[Reader]
        BY <4>2
      <4> QED BY <1>2, <4>2, <4>3
    <3> QED BY <1>6, <3>1, <3>2 DEF Socket!FeedStep
  <2>3. /\ GoodCursor(cursor, log', origin, seen, refused, position'[Reader])
        /\ Good(frames, log', origin, seen, refused, position'[Reader])
        /\ phase # "closed" =>
             /\ DealtWith(current, frames, log', origin, seen, refused,
                          position'[Reader])
             /\ NextBatch(batch, current, log', position'[Reader])
    BY <1>2, <1>3, <1>4, <2>2, FeedGrows
  <2>4. phase' # "closed" => Delivered'
    BY <2>1 DEF Delivered
  <2> QED BY <2>1, <2>3, <2>4
<1>7. CASE \/ \E m \in Socket!Positions : Socket!MoveWindow(m)
           \/ \E e \in Sequences : Socket!Acknowledge(e)
  <2>1. UNCHANGED <<cursor, origin, seen, refused, frames, phase, current,
                    batch, lastDelivered, log, position>>
    BY <1>7 DEF Socket!MoveWindow, Socket!Acknowledge, Socket!serverVars,
         Socket!clientVars, Socket!feedVars
  <2>2. Delivered'
    BY <2>1 DEF Delivered
  <2> QED BY <1>4, <2>1, <2>2
<1>8. CASE Socket!ConnectFresh \/ Socket!Resume
  <2>1. PICK p \in Nat :
          /\ p <= position[Reader]
          /\ \A e \in log : origin' < e /\ e <= p => e \in seen' \cup refused'
          /\ \A e \in seen' : e <= p
          /\ Socket!Open(p)
          /\ UNCHANGED <<log, position, cursor>>
          /\ cursor = NoCursor
               \/ UNCHANGED <<origin, seen, refused>>
    <3>1. CASE Socket!ConnectFresh
      BY <1>2, <3>1 DEF Socket!ConnectFresh, Socket!feedVars
    <3>2. CASE Socket!Resume
      BY <1>2, <1>4, <3>2 DEF Socket!Resume, Socket!Resumable, GoodCursor,
           Socket!feedVars
    <3> QED BY <1>8, <3>1, <3>2
  <2>2. /\ Good(frames', log, origin', seen', refused', position[Reader])
        /\ DealtWith(p, frames', log, origin', seen', refused',
                     position[Reader])
    BY <1>2, <2>1, GoodOpen DEF Socket!Open
  <2>3. GoodCursor(cursor', log, origin', seen', refused', position[Reader])
    BY <1>4, <2>1 DEF GoodCursor
  <2>4. NextBatch(batch', current', log, position[Reader])
    BY <2>1 DEF Socket!Open, NextBatch
  <2>5. Delivered'
    <3>1. /\ lastDelivered' = p /\ current' = p
          /\ frames' = <<[type |-> "ready", cursor |-> p]>>
      BY <2>1 DEF Socket!Open
    <3>2. ~ \E k \in 1 .. Len(frames') : EventAt(frames', k)
      BY <3>1 DEF EventAt
    <3> QED BY <2>1, <3>1, <3>2 DEF Delivered
  <2> QED BY <2>1, <2>2, <2>3, <2>4, <2>5 DEF Socket!Open
<1>9. CASE Socket!SnapshotRequired
  <2>1. /\ phase' = "closed" /\ cursor' = NoCursor
        /\ UNCHANGED <<origin, seen, refused, frames, log, position>>
    BY <1>9 DEF Socket!SnapshotRequired, Socket!MayConnect, Socket!serverVars,
         Socket!feedVars
  <2> QED BY <1>4, <2>1 DEF GoodCursor
<1>10. CASE Socket!Poll
  <2>1. /\ UNCHANGED <<cursor, origin, seen, refused, frames, current,
                       lastDelivered, log, position>>
        /\ phase = "polling"
        /\ batch' = Socket!FeedAfter(current)
    BY <1>10 DEF Socket!Poll, Socket!clientVars, Socket!feedVars
  <2>2. NextBatch(batch', current, log, position[Reader])
    <3> DEFINE later == {e \in Socket!Feed(Reader) : e > current}
    <3>1. batch' = {e \in later :
                      Cardinality({f \in later : f < e}) < BatchSize}
      BY <2>1, SameCardinality DEF Socket!FeedAfter
    <3>2. later = {e \in log : e <= position[Reader] /\ e > current}
      BY DEF Socket!Feed
    <3> HIDE DEF later
    <3> QED BY <1>2, <3>1, <3>2, FeedAfterIsNext
  <2>3. Delivered'
    BY <2>1 DEF Delivered
  <2> QED BY <1>4, <2>1, <2>2, <2>3
<1>11. CASE \E e \in Sequences : Socket!StepOver(e)
  <2> PICK e \in Sequences : Socket!StepOver(e)
    BY <1>11
  <2>1. /\ UNCHANGED <<cursor, origin, seen, frames, lastDelivered, log,
                       position, phase>>
        /\ phase = "writing"
        /\ e \in batch /\ \A other \in batch : e <= other
        /\ batch' = batch \ {e} /\ current' = e
        /\ refused' = refused \cup {e}
    BY DEF Socket!StepOver, Socket!Examining, Socket!clientVars,
         Socket!feedVars
  <2>2. /\ DealtWith(e, frames, log, origin, seen, refused \cup {e},
                     position[Reader])
        /\ Good(frames, log, origin, seen, refused \cup {e}, position[Reader])
        /\ NextBatch(batch \ {e}, e, log, position[Reader])
    BY <1>2, <1>4, <2>1, DealtWithRefused
  <2>3. GoodCursor(cursor, log, origin, seen, refused \cup {e},
                   position[Reader])
    BY <1>4 DEF GoodCursor
  <2>4. Delivered'
    <3>1. lastDelivered <= current /\ current < e /\ e \in Nat
      BY <1>2, <1>4, <2>1 DEF Delivered, NextBatch
    <3> QED BY <1>2, <2>1, <3>1 DEF Delivered
  <2> QED BY <2>1, <2>2, <2>3, <2>4
<1>12. CASE \E e \in Sequences : Socket!WriteEvent(e)
  <2> PICK e \in Sequences : Socket!WriteEvent(e)
    BY <1>12
  <2> DEFINE m == [type |-> "event", cursor |-> e]
  <2>1. /\ UNCHANGED <<cursor, origin, seen, refused, log, position, phase>>
        /\ phase = "writing"
        /\ e \in batch /\ \A other \in batch : e <= other
        /\ batch' = batch \ {e} /\ current' = e /\ lastDelivered' = e
        /\ frames' = Append(frames, m)
    BY DEF Socket!WriteEvent, Socket!Examining, Socket!clientVars,
         Socket!feedVars
  <2>2. m \in Socket!Frame /\ m.type = "event" /\ m.cursor = e
    BY DEF Socket!Frame
  <2> HIDE DEF m
  <2>3. /\ DealtWith(e, frames', log, origin, seen, refused, position[Reader])
        /\ Good(frames', log, origin, seen, refused, position[Reader])
        /\ NextBatch(batch \ {e}, e, log, position[Reader])
    BY <1>2, <1>4, <2>1, <2>2, DealtWithEvent
  <2>4. Delivered'
    BY <1>2, <2>1, <2>3 DEF Delivered, DealtWith
  <2> QED BY <1>4, <2>1, <2>3, <2>4
<1>13. CASE \E e \in Sequences : Socket!RateLimit(e)
  <2> PICK e \in Sequences : Socket!RateLimit(e)
    BY <1>13
  <2> DEFINE m == [type |-> "rate_limited", cursor |-> lastDelivered]
  <2>1. /\ UNCHANGED <<cursor, origin, seen, refused, log, position>>
        /\ phase = "writing" /\ phase' = "closed"
        /\ frames' = Append(frames, m)
    BY DEF Socket!RateLimit, Socket!CloseConnection, Socket!clientVars,
         Socket!feedVars
  <2>2. lastDelivered \in Socket!Positions
    BY <1>2, <2>1 DEF TypeOK, Socket!TypeOK
  <2>3. m \in Socket!Frame /\ m.type # "event" /\ m.cursor = lastDelivered
    BY <2>2 DEF Socket!Frame
  <2> HIDE DEF m
  <2>4. /\ lastDelivered <= current /\ current <= position[Reader]
        /\ \A f \in seen : f <= lastDelivered
        /\ \A k \in 1 .. Len(frames) :
             EventAt(frames, k) => frames[k].cursor <= lastDelivered
    BY <1>4, <2>1 DEF Delivered, DealtWith
  <2>5. \A f \in log : origin < f /\ f <= lastDelivered =>
          Settled(f, frames, Len(frames), seen, refused)
    <3>1. \A f \in log : f <= lastDelivered => f <= current
      BY <1>2, <2>4
    <3>2. DealtWith(current, frames, log, origin, seen, refused,
                    position[Reader])
      BY <1>4, <2>1
    <3> QED BY <3>1, <3>2 DEF DealtWith
  <2>6. lastDelivered \in Nat /\ lastDelivered <= position[Reader]
    BY <1>2, <2>4
  <2>7. Good(Append(frames, m), log, origin, seen, refused, position[Reader])
    BY <1>2, <1>4, <2>3, <2>4, <2>5, <2>6, GoodAppend
  <2>8. Good(frames', log, origin, seen, refused, position[Reader])
    BY <2>1, <2>7
  <2> QED BY <1>4, <2>1, <2>8 DEF Delivered
<1>14. CASE Socket!EndBatch
  <2> DEFINE m == [type |-> "heartbeat", cursor |-> current]
  <2>1. /\ UNCHANGED <<cursor, origin, seen, refused, current, lastDelivered,
                       batch, log, position>>
        /\ phase = "writing" /\ batch = {}
        /\ frames' = frames \/ frames' = Append(frames, m)
    BY <1>14 DEF Socket!EndBatch, Socket!clientVars, Socket!feedVars
  <2>2. current \in Socket!Positions
    BY <1>2, <2>1 DEF TypeOK, Socket!TypeOK
  <2>3. m \in Socket!Frame /\ m.type # "event" /\ m.cursor = current
    BY <2>2 DEF Socket!Frame
  <2> HIDE DEF m
  <2>4. CASE frames' = frames
    BY <1>4, <2>1, <2>4 DEF Delivered
  <2>5. CASE frames' = Append(frames, m)
    <3>1. DealtWith(current, frames, log, origin, seen, refused,
                    position[Reader])
      BY <1>4, <2>1
    <3>2. Good(frames', log, origin, seen, refused, position[Reader])
      BY <1>2, <1>4, <2>3, <2>5, <3>1, GoodAppend DEF DealtWith
    <3>3. DealtWith(current, frames', log, origin, seen, refused,
                    position[Reader])
      BY <1>2, <2>3, <2>5, <3>1, DealtWithAppend
    <3>4. \A k \in 1 .. Len(frames') : EventAt(frames', k) =>
            k \in 1 .. Len(frames) /\ EventAt(frames, k)
              /\ frames'[k] = frames[k]
      BY <1>2, <2>3, <2>5 DEF EventAt
    <3>5. Delivered'
      BY <2>1, <3>4 DEF Delivered
    <3> QED BY <1>4, <2>1, <3>2, <3>3, <3>5
  <2> QED BY <2>1, <2>4, <2>5
<1>15. CASE Socket!EndLoop
  <2>1. /\ phase' = "closed"
        /\ UNCHANGED <<cursor, origin, seen, refused, frames, log, position>>
    BY <1>15 DEF Socket!EndLoop, Socket!CloseConnection, Socket!clientVars,
         Socket!feedVars
  <2> QED BY <1>4, <2>1
<1>16. CASE Socket!ReadFrame
  <2>1. /\ UNCHANGED <<origin, refused, phase, current, batch, lastDelivered,
                       log, position>>
        /\ frames # <<>> /\ frames' = Tail(frames)
        /\ cursor' = Head(frames).cursor
        /\ seen' = IF Head(frames).type = "event"
                     THEN seen \cup {Head(frames).cursor} ELSE seen
    BY <1>16 DEF Socket!ReadFrame, Socket!serverVars, Socket!feedVars
  <2>2. Head(frames) \in Socket!Frame
    BY <1>2, <2>1
  <2>3. Head(frames).cursor \in Sequences \cup {0}
    BY <2>2 DEF Socket!Frame, Socket!Positions
  <2>4. Head(frames).cursor # NoCursor
    BY <2>3, PositionsAreNat, RealtimeConstants
  <2>5. /\ Good(frames', log, origin, seen', refused, position[Reader])
        /\ GoodCursor(cursor', log, origin, seen', refused, position[Reader])
        /\ \A q : DealtWith(q, frames, log, origin, seen, refused,
                            position[Reader])
                   => DealtWith(q, frames', log, origin, seen', refused,
                                position[Reader])
    <3>1. cursor' = IF Head(frames).cursor = NoCursor THEN cursor
                                                     ELSE Head(frames).cursor
      BY <2>1, <2>4
    <3>2. /\ frames \in Seq(Socket!Frame) /\ frames # <<>>
          /\ log \in SUBSET Nat /\ seen \in SUBSET Nat
          /\ Good(frames, log, origin, seen, refused, position[Reader])
          /\ GoodCursor(cursor, log, origin, seen, refused, position[Reader])
          /\ frames' = Tail(frames)
          /\ seen' = IF Head(frames).type = "event"
                       THEN seen \cup {Head(frames).cursor} ELSE seen
      BY <1>2, <1>4, <2>1
    <3> DEFINE S2 == IF Head(frames).type = "event"
                       THEN seen \cup {Head(frames).cursor} ELSE seen
               c2 == IF Head(frames).cursor = NoCursor THEN cursor
                                                       ELSE Head(frames).cursor
    <3>3. /\ Good(Tail(frames), log, origin, S2, refused, position[Reader])
          /\ GoodCursor(c2, log, origin, S2, refused, position[Reader])
          /\ \A q : DealtWith(q, frames, log, origin, seen, refused,
                              position[Reader])
                     => DealtWith(q, Tail(frames), log, origin, S2, refused,
                                  position[Reader])
      BY <3>2, GoodRead
    <3> QED BY <3>1, <3>2, <3>3
  <2>6. phase' # "closed" => Delivered'
    <3>1. /\ Len(frames) \in Nat \ {0} /\ Head(frames) = frames[1]
          /\ Len(frames') = Len(frames) - 1
          /\ \A k \in 1 .. Len(frames') :
               k + 1 \in 1 .. Len(frames) /\ frames'[k] = frames[k + 1]
          /\ 1 \in 1 .. Len(frames)
      BY <1>2, <2>1
    <3>2. SUFFICES ASSUME phase # "closed" PROVE Delivered'
      BY <2>1
    <3>3. \A k \in 1 .. Len(frames') :
            EventAt(frames', k) => frames'[k].cursor <= lastDelivered
      BY <3>1, <3>2 DEF Delivered, EventAt
    <3>4. \A e \in seen' : e <= lastDelivered
      <4>1. EventAt(frames, 1) => frames[1].cursor <= lastDelivered
        BY <3>1, <3>2 DEF Delivered
      <4> QED BY <2>1, <3>1, <3>2, <4>1 DEF Delivered, EventAt
    <3> QED BY <2>1, <3>2, <3>3, <3>4 DEF Delivered
  <2> QED BY <1>4, <2>1, <2>5, <2>6
<1>17. CASE Socket!LoseConnection
  <2>1. /\ phase' = "closed" /\ frames' = <<>>
        /\ UNCHANGED <<cursor, origin, seen, refused, log, position>>
    BY <1>17 DEF Socket!LoseConnection, Socket!CloseConnection,
         Socket!clientVars, Socket!feedVars
  <2>2. Good(frames', log, origin, seen, refused, position[Reader])
    BY <2>1 DEF Good
  <2> QED BY <1>4, <2>1, <2>2
<1> QED BY <1>6, <1>7, <1>8, <1>9, <1>10, <1>11, <1>12, <1>13, <1>14, <1>15,
           <1>16, <1>17
        DEF Socket!Next, Socket!Connect, Socket!Loop, Socket!Examine

LEMMA HeadThenTail ==
  ASSUME NEW T, NEW s \in Seq(T)
  PROVE  /\ s # <<>> => s = <<Head(s)>> \o Tail(s)
         /\ \A h \in T : /\ <<h>> \o s # <<>>
                         /\ Head(<<h>> \o s) = h
                         /\ Tail(<<h>> \o s) = s
<1>1. ASSUME s # <<>>
      PROVE  s = <<Head(s)>> \o Tail(s)
  <2>1. /\ Head(s) \in T /\ Tail(s) \in Seq(T) /\ Head(s) = s[1]
        /\ Len(s) \in Nat \ {0}
        /\ Len(Tail(s)) = Len(s) - 1
        /\ \A i \in 1 .. Len(Tail(s)) : Tail(s)[i] = s[i + 1]
    BY <1>1, HeadTailProperties, EmptySeq
  <2>2. <<Head(s)>> \in Seq(T) /\ Len(<<Head(s)>>) = 1
        /\ <<Head(s)>>[1] = s[1]
    BY <2>1, OneElement
  <2> DEFINE u == <<Head(s)>> \o Tail(s)
  <2>3. /\ u \in Seq(T)
        /\ Len(u) = 1 + Len(Tail(s))
        /\ \A i \in 1 .. 1 + Len(Tail(s)) :
             u[i] = IF i <= 1 THEN <<Head(s)>>[i] ELSE Tail(s)[i - 1]
    BY <2>1, <2>2, ConcatProperties
  <2> HIDE DEF u
  <2>4. \A i \in 1 .. Len(s) : s[i] = u[i]
    BY <2>1, <2>2, <2>3
  <2>5. s = u
    BY <2>1, <2>3, <2>4, SeqEqual
  <2> QED BY <2>5 DEF u
<1>2. ASSUME NEW h \in T
      PROVE  /\ <<h>> \o s # <<>>
             /\ Head(<<h>> \o s) = h
             /\ Tail(<<h>> \o s) = s
  <2>1. <<h>> \in Seq(T) /\ Len(<<h>>) = 1 /\ <<h>>[1] = h
        /\ Len(s) \in Nat
    BY OneElement, LenProperties
  <2> DEFINE u == <<h>> \o s
  <2>2. /\ u \in Seq(T)
        /\ Len(u) = 1 + Len(s)
        /\ \A i \in 1 .. 1 + Len(s) : u[i] = IF i <= 1 THEN <<h>>[i] ELSE s[i - 1]
    BY <2>1, ConcatProperties
  <2> HIDE DEF u
  <2>3. u # <<>>
    BY <2>1, <2>2, EmptySeq
  <2>4. Head(u) = h
    BY <2>1, <2>2, <2>3
  <2>5. /\ Tail(u) \in Seq(T) /\ Len(Tail(u)) = Len(s)
        /\ \A i \in 1 .. Len(s) : Tail(u)[i] = s[i]
    <3>1. /\ Tail(u) \in Seq(T) /\ Len(Tail(u)) = Len(u) - 1
          /\ \A i \in 1 .. Len(Tail(u)) : Tail(u)[i] = u[i + 1]
      BY <2>2, <2>3, HeadTailProperties
    <3> QED BY <2>1, <2>2, <3>1
  <2>6. Tail(u) = s
    BY <2>5, SeqEqual
  <2> QED BY <2>3, <2>4, <2>6 DEF u
<1> QED BY <1>1, <1>2

\* Buffering, writing and reading an element of what is on its way.
LEMMA ConcatFacts ==
  ASSUME NEW T, NEW s \in Seq(T), NEW t \in Seq(T), NEW m \in T
  PROVE  /\ s \o Append(t, m) = Append(s \o t, m)
         /\ t # <<>> => Append(s, Head(t)) \o Tail(t) = s \o t
         /\ s # <<>> => /\ s \o t # <<>>
                        /\ Head(s \o t) = Head(s)
                        /\ Tail(s \o t) = Tail(s) \o t
         /\ s \o <<>> = s
<1>1. s \o Append(t, m) = Append(s \o t, m)
  <2>1. <<m>> \in Seq(T) /\ s \o t \in Seq(T)
    BY OneElement, ConcatProperties
  <2>2. Append(t, m) = t \o <<m>> /\ Append(s \o t, m) = (s \o t) \o <<m>>
    BY <2>1, AppendIsConcat
  <2> QED BY <2>1, <2>2, ConcatAssociative
<1>2. ASSUME t # <<>>
      PROVE  Append(s, Head(t)) \o Tail(t) = s \o t
  <2>1. Head(t) \in T /\ Tail(t) \in Seq(T)
    BY <1>2, HeadTailProperties
  <2>2. <<Head(t)>> \in Seq(T)
    BY <2>1, OneElement
  <2>3. Append(s, Head(t)) = s \o <<Head(t)>>
    BY <2>1, AppendIsConcat
  <2>4. (s \o <<Head(t)>>) \o Tail(t) = s \o (<<Head(t)>> \o Tail(t))
    BY <2>1, <2>2, ConcatAssociative
  <2>5. t = <<Head(t)>> \o Tail(t)
    BY <1>2, HeadThenTail
  <2> QED BY <2>3, <2>4, <2>5
<1>3. ASSUME s # <<>>
      PROVE  /\ s \o t # <<>>
             /\ Head(s \o t) = Head(s)
             /\ Tail(s \o t) = Tail(s) \o t
  <2>1. Head(s) \in T /\ Tail(s) \in Seq(T) /\ <<Head(s)>> \in Seq(T)
    BY <1>3, HeadTailProperties, OneElement
  <2>2. Tail(s) \o t \in Seq(T)
    BY <2>1, ConcatProperties
  <2>3. s \o t = <<Head(s)>> \o (Tail(s) \o t)
    <3>1. s = <<Head(s)>> \o Tail(s)
      BY <1>3, HeadThenTail
    <3>2. (<<Head(s)>> \o Tail(s)) \o t = <<Head(s)>> \o (Tail(s) \o t)
      BY <2>1, ConcatAssociative
    <3> QED BY <3>1, <3>2
  <2> QED BY <2>1, <2>2, <2>3, HeadThenTail
<1>4. s \o <<>> = s
  BY ConcatEmptySeq
<1> QED BY <1>1, <1>2, <1>3, <1>4

LEMMA StreamContract ==
  ASSUME TypeOK, Shape, Contract, TypeOK', Shape',
         Stream!Next, OnStream, transport = "sse"
  PROVE  Contract'
<1> DEFINE U == Stream!Message \cup Stream!Terminal
<1>1. transport' = "sse" /\ phase' = phase
  BY DEF OnStream, socketVars
<1>2. /\ log \in SUBSET Nat /\ IsFiniteSet(log)
      /\ position[Reader] \in Nat /\ current \in Nat
      /\ batch \subseteq Nat /\ seen \in SUBSET Nat /\ origin \in Nat
      /\ cursor \in Nat \cup {NoCursor}
      /\ frames \in Seq(U) /\ messages \in Seq(U) /\ Way \in Seq(U)
      /\ Way = frames \o messages /\ phase = "closed"
  BY Typed
<1>3. /\ log' \in SUBSET Nat
      /\ Way' = frames' \o messages'
      /\ position'[Reader] \in Nat
  <2>1. Stream!TypeOK'
    BY <1>1 DEF TypeOK
  <2>2. Way' = frames' \o messages'
    BY <1>1 DEF Way
  <2>3. /\ log' \subseteq Sequences /\ Sequences \subseteq Nat
        /\ position' \in [Consumers -> Sequences \cup {0}]
    BY <2>1, RealtimeConstants DEF Stream!TypeOK, Stream!Positions
  <2>4. log' \in SUBSET Nat
    BY <2>3
  <2>5. position'[Reader] \in Sequences \cup {0}
    <3>1. Reader \in Consumers
      BY RealtimeConstants
    <3>2. position' \in [Consumers -> Sequences \cup {0}]
      BY <2>3
    <3> QED BY <3>1, <3>2
  <2>6. position'[Reader] \in Nat
    BY <2>5, PositionsAreNat
  <2> QED BY <2>2, <2>4, <2>6
<1>4. /\ GoodCursor(cursor, log, origin, seen, refused, position[Reader])
      /\ Good(Way, log, origin, seen, refused, position[Reader])
      /\ producer # "ended" =>
           /\ DealtWith(current, Way, log, origin, seen, refused,
                        position[Reader])
           /\ NextBatch(batch, current, log, position[Reader])
  BY DEF Contract
<1>5. SUFFICES
        /\ GoodCursor(cursor', log', origin', seen', refused',
                      position'[Reader])
        /\ Good(Way', log', origin', seen', refused', position'[Reader])
        /\ producer' # "ended" =>
             /\ DealtWith(current', Way', log', origin', seen', refused',
                          position'[Reader])
             /\ NextBatch(batch', current', log', position'[Reader])
  BY <1>1, <1>2 DEF Contract
<1> USE DEF Stream!producerVars, Stream!channelVars, Stream!agentVars,
      Stream!feedVars
<1>6. CASE Stream!FeedStep
  <2>1. /\ UNCHANGED <<cursor, origin, seen, refused, frames, messages,
                       producer, current, batch>>
    BY <1>6 DEF Stream!FeedStep
  <2>2. /\ log \subseteq log'
        /\ position[Reader] <= position'[Reader]
        /\ \A e \in log' \ log : position[Reader] < e
    <3>1. CASE \E e \in Sequences \ log : Stream!CommitEvents({e})
      BY <1>2, <3>1, RealtimeConstants DEF Stream!CommitEvents
    <3>2. CASE \E e \in log : Stream!AdvanceTo(Reader, e)
      <4>1. PICK e \in log : Stream!AdvanceTo(Reader, e)
        BY <3>2
      <4>2. position' = [position EXCEPT ![Reader] = e] /\ log' = log
            /\ position[Reader] < e /\ e \in Nat
        BY <1>2, <4>1 DEF Stream!AdvanceTo
      <4>3. position'[Reader] = e \/ position'[Reader] = position[Reader]
        BY <4>2
      <4> QED BY <1>2, <4>2, <4>3
    <3> QED BY <1>6, <3>1, <3>2 DEF Stream!FeedStep
  <2>3. Way' = Way
    BY <1>2, <1>3, <2>1
  <2>4. /\ GoodCursor(cursor, log', origin, seen, refused, position'[Reader])
        /\ Good(Way, log', origin, seen, refused, position'[Reader])
        /\ producer # "ended" =>
             /\ DealtWith(current, Way, log', origin, seen, refused,
                          position'[Reader])
             /\ NextBatch(batch, current, log', position'[Reader])
    BY <1>2, <1>3, <1>4, <2>2, FeedGrows
  <2> QED BY <2>1, <2>3, <2>4
<1>7. CASE \/ \E m \in Stream!Positions : Stream!MoveWindow(m)
           \/ Stream!SnapshotRequired
           \/ Stream!PollFails
  <2>1. /\ UNCHANGED <<origin, seen, refused, frames, messages, current, batch,
                       log, position>>
        /\ cursor' \in {cursor, NoCursor}
        /\ producer' \in {producer, "ended"}
    BY <1>7 DEF Stream!MoveWindow, Stream!SnapshotRequired, Stream!PollFails
  <2>2. Way' = Way
    BY <1>2, <1>3, <2>1
  <2> QED BY <1>4, <2>1, <2>2 DEF GoodCursor
<1>8. CASE Stream!ConnectFresh \/ Stream!Resume
  <2>1. PICK p \in Nat :
          /\ p <= position[Reader]
          /\ \A e \in log : origin' < e /\ e <= p => e \in seen' \cup refused'
          /\ \A e \in seen' : e <= p
          /\ Stream!Open(p)
          /\ UNCHANGED <<log, position, cursor>>
          /\ cursor = NoCursor
               \/ UNCHANGED <<origin, seen, refused>>
    <3>1. CASE Stream!ConnectFresh
      <4>1. /\ Stream!Open(position[Reader])
            /\ origin' = position[Reader]
            /\ UNCHANGED <<log, position, cursor>>
            /\ cursor = NoCursor
            /\ seen' = {}
        BY <3>1 DEF Stream!ConnectFresh
      <4>2. /\ position[Reader] \in Nat
            /\ position[Reader] <= position[Reader]
            /\ \A e \in log : ~(origin' < e /\ e <= position[Reader])
        BY <1>2, <4>1
      <4>3. \A e \in seen' : e <= position[Reader]
        BY <4>1
      <4> QED BY <4>1, <4>2, <4>3
    <3>2. CASE Stream!Resume
      BY <1>2, <1>4, <3>2 DEF Stream!Resume, Stream!Resumable, GoodCursor
    <3> QED BY <1>8, <3>1, <3>2
  <2> DEFINE r == <<[type |-> "ready", cursor |-> p]>>
  <2>2. Way' = r
    BY <1>3, <2>1 DEF Stream!Open
  <2>3. /\ Good(r, log, origin', seen', refused', position[Reader])
        /\ DealtWith(p, r, log, origin', seen', refused', position[Reader])
    BY <1>2, <2>1, GoodOpen
  <2>4. GoodCursor(cursor', log, origin', seen', refused', position[Reader])
    BY <1>4, <2>1 DEF GoodCursor
  <2>5. NextBatch(batch', current', log, position[Reader])
    BY <2>1 DEF Stream!Open, NextBatch
  <2> HIDE DEF r
  <2> QED BY <2>1, <2>2, <2>3, <2>4, <2>5 DEF Stream!Open
<1>9. CASE Stream!Poll
  <2>1. /\ UNCHANGED <<cursor, origin, seen, refused, frames, messages, current,
                       log, position>>
        /\ producer = "polling"
        /\ batch' = Stream!FeedAfter(current)
    BY <1>9 DEF Stream!Poll
  <2>2. NextBatch(batch', current, log, position[Reader])
    <3> DEFINE later == {e \in Stream!Feed(Reader) : e > current}
    <3>1. batch' = {e \in later :
                      Cardinality({f \in later : f < e}) < BatchSize}
      BY <2>1, SameCardinality DEF Stream!FeedAfter
    <3>2. later = {e \in log : e <= position[Reader] /\ e > current}
      BY DEF Stream!Feed
    <3> HIDE DEF later
    <3> QED BY <1>2, <3>1, <3>2, FeedAfterIsNext
  <2>3. Way' = Way
    BY <1>2, <1>3, <2>1
  <2> QED BY <1>4, <2>1, <2>2, <2>3
<1>10. CASE \E e \in Sequences : Stream!StepOver(e)
  <2> PICK e \in Sequences : Stream!StepOver(e)
    BY <1>10
  <2>1. /\ UNCHANGED <<cursor, origin, seen, frames, messages, log, position,
                       producer>>
        /\ producer = "offering"
        /\ e \in batch /\ \A other \in batch : e <= other
        /\ batch' = batch \ {e} /\ current' = e
        /\ refused' = refused \cup {e}
    BY DEF Stream!StepOver, Stream!Examining
  <2>2. /\ DealtWith(e, Way, log, origin, seen, refused \cup {e},
                     position[Reader])
        /\ Good(Way, log, origin, seen, refused \cup {e}, position[Reader])
        /\ NextBatch(batch \ {e}, e, log, position[Reader])
    BY <1>2, <1>4, <2>1, DealtWithRefused
  <2>3. GoodCursor(cursor, log, origin, seen, refused \cup {e},
                   position[Reader])
    BY <1>4 DEF GoodCursor
  <2>4. Way' = Way
    BY <1>2, <1>3, <2>1
  <2> QED BY <2>1, <2>2, <2>3, <2>4
<1>11. CASE \E e \in Sequences : Stream!OfferEvent(e)
  <2> PICK e \in Sequences : Stream!OfferEvent(e)
    BY <1>11
  <2> DEFINE m == [type |-> "event", cursor |-> e]
  <2>1. /\ UNCHANGED <<cursor, origin, seen, refused, frames, log, position>>
        /\ producer = "offering"
        /\ e \in batch /\ \A other \in batch : e <= other
        /\ batch' = batch \ {e} /\ current' = e
        /\ \/ messages' = Append(messages, m)
           \/ messages' = messages /\ producer' = "ended"
    BY DEF Stream!OfferEvent, Stream!Examining, Stream!Offer
  <2>2. m \in U /\ m.type = "event" /\ m.cursor = e
    BY DEF Stream!Message
  <2> HIDE DEF m
  <2>3. CASE messages' = Append(messages, m)
    <3>1. Way' = Append(Way, m)
      <4>1. frames \o Append(messages, m) = Append(frames \o messages, m)
        BY <1>2, <2>2, ConcatFacts
      <4> QED BY <1>2, <1>3, <2>1, <2>3, <4>1
    <3>2. /\ DealtWith(e, Append(Way, m), log, origin, seen, refused,
                       position[Reader])
          /\ Good(Append(Way, m), log, origin, seen, refused,
                  position[Reader])
          /\ NextBatch(batch \ {e}, e, log, position[Reader])
      BY <1>2, <1>4, <2>1, <2>2, DealtWithEvent
    <3> QED BY <1>4, <2>1, <3>1, <3>2
  <2>4. CASE messages' = messages /\ producer' = "ended"
    <3>1. Way' = Way
      BY <1>2, <1>3, <2>1, <2>4
    <3> QED BY <1>4, <2>1, <2>4, <3>1
  <2> QED BY <2>1, <2>3, <2>4
<1>12. CASE Stream!EndBatch
  <2>1. /\ UNCHANGED <<cursor, origin, seen, refused, frames, messages,
                       current, batch, log, position>>
        /\ producer = "offering"
    BY <1>12 DEF Stream!EndBatch
  <2>2. Way' = Way
    BY <1>2, <1>3, <2>1
  <2> QED BY <1>4, <2>1, <2>2
<1>13. CASE Stream!Heartbeat
  <2> DEFINE m == [type |-> "heartbeat", cursor |-> current]
  <2>1. /\ UNCHANGED <<cursor, origin, seen, refused, frames, current, batch,
                       log, position>>
        /\ producer = "offering" /\ batch = {}
        /\ \/ messages' = Append(messages, m)
           \/ messages' = messages /\ producer' = "ended"
    BY <1>13 DEF Stream!Heartbeat, Stream!Offer
  <2>2. current \in Stream!Positions
    BY <1>1 DEF TypeOK, Stream!TypeOK
  <2>3. m \in U /\ m.type # "event" /\ m.cursor = current
    BY <2>2 DEF Stream!Message
  <2> HIDE DEF m
  <2>4. CASE messages' = Append(messages, m)
    <3>1. Way' = Append(Way, m)
      <4>1. frames \o Append(messages, m) = Append(frames \o messages, m)
        BY <1>2, <2>3, ConcatFacts
      <4> QED BY <1>2, <1>3, <2>1, <2>4, <4>1
    <3>2. DealtWith(current, Way, log, origin, seen, refused, position[Reader])
      BY <1>4, <2>1
    <3>3. Good(Append(Way, m), log, origin, seen, refused, position[Reader])
      BY <1>2, <1>4, <2>3, <3>2, GoodAppend DEF DealtWith
    <3>4. DealtWith(current, Append(Way, m), log, origin, seen, refused,
                    position[Reader])
      BY <1>2, <2>3, <3>2, DealtWithAppend
    <3> QED BY <1>4, <2>1, <3>1, <3>3, <3>4
  <2>5. CASE messages' = messages /\ producer' = "ended"
    <3>1. Way' = Way
      BY <1>2, <1>3, <2>1, <2>5
    <3> QED BY <1>4, <2>1, <2>5, <3>1
  <2> QED BY <2>1, <2>4, <2>5
<1>14. CASE Stream!WriteMessage
  <2>1. /\ UNCHANGED <<cursor, origin, seen, refused, producer, current, batch,
                       log, position>>
        /\ messages # <<>>
        /\ frames' = Append(frames, Head(messages))
        /\ messages' = Tail(messages)
    BY <1>14 DEF Stream!WriteMessage
  <2>2. Way' = Way
    <3>1. Append(frames, Head(messages)) \o Tail(messages)
            = frames \o messages
      BY <1>2, <2>1, ConcatFacts, HeadTailProperties
    <3> QED BY <1>2, <1>3, <2>1, <3>1
  <2> QED BY <1>4, <2>1, <2>2
<1>15. Good(frames, log, origin, seen, refused, position[Reader])
  BY <1>2, <1>4, GoodPrefix
<1>16. CASE Stream!WriteTerminal
  <2>1. /\ UNCHANGED <<cursor, origin, seen, refused, log, position>>
        /\ terminal # <<>>
        /\ producer' = "ended" /\ messages' = <<>>
        /\ frames' = Append(frames, Head(terminal))
    BY <1>16 DEF Stream!WriteTerminal, Stream!CloseStream
  <2>2. Head(terminal) \in Stream!Terminal
    BY <1>1, <2>1 DEF TypeOK, Stream!TypeOK
  <2>3. /\ Head(terminal) \in U
        /\ Head(terminal).cursor = NoCursor
        /\ Head(terminal).type # "event"
    BY <2>2 DEF Stream!Terminal
  <2>4. Good(Append(frames, Head(terminal)), log, origin, seen, refused,
             position[Reader])
    BY <1>2, <1>15, <2>3, GoodAppend
  <2>5. Way' = Append(frames, Head(terminal))
    <3>1. Append(frames, Head(terminal)) \in Seq(U)
      BY <1>2, <2>3, OneElement
    <3> QED BY <1>3, <2>1, <3>1, ConcatEmptySeq
  <2> QED BY <1>4, <2>1, <2>4, <2>5
<1>17. CASE Stream!EndHandler
  <2>1. /\ UNCHANGED <<cursor, origin, seen, refused, frames, log, position>>
        /\ producer' = "ended" /\ messages' = <<>>
    BY <1>17 DEF Stream!EndHandler, Stream!CloseStream
  <2>2. Way' = frames
    BY <1>2, <1>3, <2>1, ConcatEmptySeq
  <2> QED BY <1>4, <1>15, <2>1, <2>2
<1>18. CASE Stream!ReadFrame
  <2> DEFINE S2 == IF Head(Way).type = "event"
                     THEN seen \cup {Head(Way).cursor} ELSE seen
             c2 == IF Head(Way).cursor = NoCursor THEN cursor
                                                  ELSE Head(Way).cursor
  <2>1. /\ UNCHANGED <<origin, refused, producer, messages, current, batch,
                       log, position>>
        /\ frames # <<>> /\ frames' = Tail(frames)
        /\ cursor' = IF Head(frames).cursor = NoCursor
                       THEN cursor ELSE Head(frames).cursor
        /\ seen' = IF Head(frames).type = "event"
                     THEN seen \cup {Head(frames).cursor} ELSE seen
    BY <1>18 DEF Stream!ReadFrame
  <2>2. /\ Way # <<>> /\ Head(Way) = Head(frames)
        /\ Way' = Tail(Way)
    <3>1. Head(frames) \in U
      BY <1>2, <2>1
    <3>2. /\ frames \o messages # <<>>
          /\ Head(frames \o messages) = Head(frames)
          /\ Tail(frames \o messages) = Tail(frames) \o messages
      BY <1>2, <2>1, <3>1, ConcatFacts
    <3> QED BY <1>2, <1>3, <2>1, <3>2
  <2>3. seen' = S2 /\ cursor' = c2
    BY <2>1, <2>2
  <2>4. /\ Good(Tail(Way), log, origin, S2, refused, position[Reader])
        /\ GoodCursor(c2, log, origin, S2, refused, position[Reader])
        /\ \A q : DealtWith(q, Way, log, origin, seen, refused,
                            position[Reader])
                   => DealtWith(q, Tail(Way), log, origin, S2, refused,
                                position[Reader])
    BY <1>2, <1>4, <2>2, GoodRead
  <2> HIDE DEF S2, c2
  <2> QED BY <1>4, <2>1, <2>2, <2>3, <2>4
<1>19. CASE Stream!LoseConnection
  <2>1. /\ UNCHANGED <<cursor, origin, seen, refused, log, position>>
        /\ producer' = "ended" /\ messages' = <<>> /\ frames' = <<>>
    BY <1>19 DEF Stream!LoseConnection, Stream!CloseStream
  <2>2. Way' = <<>>
    BY <1>3, <2>1, ConcatEmptySeq, EmptySeq
  <2>3. Good(<<>>, log, origin, seen, refused, position[Reader])
    BY DEF Good
  <2> QED BY <1>4, <2>1, <2>2, <2>3
<1> QED BY <1>6, <1>7, <1>8, <1>9, <1>10, <1>11, <1>12, <1>13, <1>14, <1>16,
           <1>17, <1>18, <1>19
        DEF Stream!Next, Stream!Connect, Stream!Produce

LEMMA SwitchContract ==
  ASSUME TypeOK, Shape, Contract, Switch
  PROVE  Contract' /\ Delivered'
<1>1. /\ phase = "closed" /\ phase' = "closed"
      /\ producer = "ended" /\ producer' = "ended"
      /\ frames' = <<>> /\ messages' = <<>>
      /\ cursor' = NoCursor
  BY DEF Switch, Socket!MayConnect, Stream!MayConnect, Shape, streamVars
<1>2. Way' = <<>>
  BY <1>1, ConcatEmptySeq, EmptySeq DEF Way
<1> QED BY <1>1, <1>2 DEF Contract, Delivered, GoodCursor, Good

ContractInv == TypeOK /\ Shape /\ Contract /\ Delivered

LEMMA InitContract == Init => ContractInv
<1> SUFFICES ASSUME Init PROVE ContractInv
  OBVIOUS
<1>1. /\ cursor = NoCursor /\ frames = <<>> /\ messages = <<>>
      /\ phase = "closed" /\ producer = "ended"
  BY DEF Init, Socket!Init, Stream!Init
<1>2. Way = <<>>
  BY <1>1, ConcatEmptySeq, EmptySeq DEF Way
<1>3. Contract /\ Delivered
  BY <1>1, <1>2 DEF Contract, Delivered, GoodCursor, Good
<1> QED BY <1>3, InitShape DEF ContractInv

LEMMA NextContract == ContractInv /\ [Next]_vars => ContractInv'
<1> SUFFICES ASSUME ContractInv, [Next]_vars PROVE ContractInv'
  OBVIOUS
<1> USE DEF ContractInv
<1>1. CASE Socket!Next /\ OnSocket
  <2>1. TypeOK' /\ Shape'
    BY <1>1, SocketShape DEF OnSocket
  <2> QED BY <1>1, <2>1, SocketContract DEF OnSocket
<1>2. CASE Stream!Next /\ OnStream
  <2>1. TypeOK' /\ Shape'
    BY <1>2, StreamShape DEF OnStream
  <2>2. Delivered'
    BY <1>2, <2>1 DEF OnStream, socketVars, Delivered, TypeOK
  <2> QED BY <1>2, <2>1, <2>2, StreamContract DEF OnStream
<1>3. CASE Switch
  BY <1>3, SwitchShape, SwitchContract
<1>4. CASE UNCHANGED vars
  BY <1>4 DEF vars, feedVars, socketVars, streamVars, TypeOK, Socket!TypeOK,
       Stream!TypeOK, Shape, GivenUpIsTold, Stream!GivenUpIsTold, Contract,
       Delivered, Way
<1> QED BY <1>1, <1>2, <1>3, <1>4 DEF Next

LEMMA ContractAlways == Spec => []ContractInv
<1> QED BY InitContract, NextContract, PTL DEF Spec

-----------------------------------------------------------------------------
(* The theorems.                                                           *)

\* The state has the types declared, on either transport.
THEOREM TypesOfRealtime == Spec => []TypeOK
<1>1. ContractInv => TypeOK
  BY DEF ContractInv
<1> QED BY <1>1, ContractAlways, PTL

\* realtime.go's resume contract, for every feed, window, buffer and batch
\* size and however often connections are lost or the transport changes: an
\* agent that holds a cursor has read, or was refused, every event between its
\* start and the cursor.
THEOREM ResumeSkipsNothing == Spec => []NothingSkipped
<1>1. ContractInv => NothingSkipped
  BY DEF ContractInv, Contract, GoodCursor, NothingSkipped,
       Socket!NothingSkipped
<1> QED BY <1>1, ContractAlways, PTL

\* What is on its way to the agent, through the connection and on SSE the
\* buffer, is in order and beyond everything it has read.
THEOREM ResumeRepeatsNothing == Spec => []NothingRepeated
<1>1. ContractInv => NothingRepeated
  <2> SUFFICES ASSUME ContractInv PROVE NothingRepeated
    OBVIOUS
  <2>1. Good(Way, log, origin, seen, refused, position[Reader])
    BY DEF ContractInv, Contract
  <2>2. ASSUME NEW T, Way \in Seq(T)
        PROVE  /\ \A i \in DOMAIN Way : \A e \in seen :
                    Way[i].type = "event" => e < Way[i].cursor
               /\ \A i, j \in DOMAIN Way :
                    i < j /\ Way[i].type = "event" /\ Way[j].type = "event"
                      => Way[i].cursor < Way[j].cursor
    <3>1. DOMAIN Way = 1 .. Len(Way) /\ Len(Way) \in Nat
      BY <2>2, LenProperties
    <3>2. \A i, j \in 1 .. Len(Way) : i < j => i \in 1 .. j - 1
      BY <3>1
    <3> QED BY <2>1, <3>1, <3>2 DEF Good, GoodAt, EventAt
  <2>3. /\ transport = "websocket" => Way \in Seq(Socket!Frame) /\ Way = frames
        /\ transport = "sse" =>
             /\ Way \in Seq(Stream!Message \cup Stream!Terminal)
             /\ Way = frames \o messages
    BY Typed DEF ContractInv
  <2>4. transport = "websocket" => Socket!NothingRepeated
    BY <2>2, <2>3 DEF Socket!NothingRepeated
  <2>5. transport = "sse" => Stream!NothingRepeated
    BY <2>2, <2>3 DEF Stream!NothingRepeated, Stream!OnTheWay, Stream!IsEvent
  <2> QED BY <2>4, <2>5 DEF NothingRepeated
<1> QED BY <1>1, ContractAlways, PTL

\* An SSE stream whose producer has given up still has its terminal message.
THEOREM GivenUpIsAlwaysTold == Spec => []GivenUpIsTold
<1>1. ContractInv => GivenUpIsTold
  BY DEF ContractInv, Shape
<1> QED BY <1>1, ContractAlways, PTL

-----------------------------------------------------------------------------
(* The window of the WebSocket loop.                                       *)

Flying(s) == {s[k].cursor : k \in {j \in 1 .. Len(s) : EventAt(s, j)}}

\* What the agent counts against the window.
Outstanding == {e \in Flying(frames) \cup seen :
                  start < e /\ \A a \in acks : a < e}

\* The loop's own count, pending, never runs below the agent's while the
\* connection is open; afterwards the agent's can only shrink.
Window ==
  transport = "websocket" =>
    /\ IsFiniteSet(pending) /\ Cardinality(pending) <= MaxUnacked
    /\ IsFiniteSet(Outstanding) /\ Cardinality(Outstanding) <= MaxUnacked
    /\ phase # "closed" => Outstanding \subseteq pending

LEMMA FlyingUnchanged ==
  ASSUME NEW T, NEW s \in Seq(T), NEW m \in T, m.type # "event"
  PROVE  Flying(Append(s, m)) = Flying(s)
<1> DEFINE t == Append(s, m)
<1>1. /\ Len(s) \in Nat
      /\ Len(t) = Len(s) + 1
      /\ \A i \in 1 .. Len(s) : t[i] = s[i]
      /\ t[Len(t)] = m
  OBVIOUS
<1> HIDE DEF t
<1>2. \A k : k \in 1 .. Len(t) /\ EventAt(t, k)
               <=> k \in 1 .. Len(s) /\ EventAt(s, k)
  BY <1>1 DEF EventAt
<1>3. ASSUME NEW x \in Flying(t) PROVE x \in Flying(s)
  BY <1>1, <1>2, <1>3 DEF Flying
<1>4. ASSUME NEW x \in Flying(s) PROVE x \in Flying(t)
  BY <1>1, <1>2, <1>4 DEF Flying
<1> QED BY <1>3, <1>4 DEF t

LEMMA FlyingFacts ==
  ASSUME NEW T, NEW s \in Seq(T), NEW m \in T
  PROVE  /\ Flying(<<>>) = {}
         /\ m.type # "event" => Flying(<<m>>) = {}
         /\ Flying(Append(s, m)) \subseteq Flying(s) \cup {m.cursor}
         /\ s # <<>> => /\ Flying(Tail(s)) \subseteq Flying(s)
                        /\ Head(s).type = "event" => Head(s).cursor \in Flying(s)
<1>1. Flying(<<>>) = {}
  BY DEF Flying
<1>2. m.type # "event" => Flying(<<m>>) = {}
  BY DEF Flying, EventAt
<1> DEFINE t == Append(s, m)
<1>3. /\ Len(s) \in Nat
      /\ Len(t) = Len(s) + 1
      /\ \A i \in 1 .. Len(s) : t[i] = s[i]
      /\ t[Len(t)] = m
  OBVIOUS
<1> HIDE DEF t
<1>4. Flying(t) \subseteq Flying(s) \cup {m.cursor}
  <2> SUFFICES ASSUME NEW k \in 1 .. Len(t), EventAt(t, k)
               PROVE  t[k].cursor \in Flying(s) \cup {m.cursor}
    BY DEF Flying
  <2>1. CASE k \in 1 .. Len(s)
    BY <1>3, <2>1 DEF Flying, EventAt
  <2>2. CASE k = Len(t)
    BY <1>3, <2>2
  <2> QED BY <1>3, <2>1, <2>2
<1>5. ASSUME s # <<>>
      PROVE  /\ Flying(Tail(s)) \subseteq Flying(s)
             /\ Head(s).type = "event" => Head(s).cursor \in Flying(s)
  <2> DEFINE u == Tail(s)
  <2>1. /\ Len(s) \in Nat \ {0} /\ Head(s) = s[1]
        /\ Len(u) = Len(s) - 1
        /\ \A i \in 1 .. Len(u) : i + 1 \in 1 .. Len(s) /\ u[i] = s[i + 1]
        /\ 1 \in 1 .. Len(s)
    BY <1>5
  <2> HIDE DEF u
  <2>2. ASSUME NEW k \in 1 .. Len(u), EventAt(u, k)
        PROVE  u[k].cursor \in Flying(s)
    BY <2>1, <2>2 DEF Flying, EventAt
  <2>3. Flying(u) \subseteq Flying(s)
    BY <2>2 DEF Flying
  <2>4. Head(s).type = "event" => Head(s).cursor \in Flying(s)
    BY <2>1 DEF Flying, EventAt
  <2> QED BY <2>3, <2>4 DEF u
<1> QED BY <1>1, <1>2, <1>4, <1>5 DEF t

\* Outstanding is what WindowRespected counts.
LEMMA OutstandingCounts ==
  ASSUME NEW T, frames \in Seq(T)
  PROVE  Socket!Unacknowledged = Outstanding
<1>1. DOMAIN frames = 1 .. Len(frames)
  BY LenProperties
<1>2. Socket!InFlight = Flying(frames)
  BY <1>1 DEF Socket!InFlight, Flying, EventAt
<1> QED BY <1>2 DEF Socket!Unacknowledged, Outstanding

\* Steps that add nothing to what is outstanding.
LEMMA WindowShrinks ==
  ASSUME Window, transport = "websocket", transport' = "websocket",
         Outstanding' \subseteq Outstanding,
         pending' \subseteq pending,
         phase' # "closed" =>
           /\ phase # "closed"
           /\ Outstanding \subseteq pending => Outstanding' \subseteq pending'
  PROVE  Window'
<1>1. /\ IsFiniteSet(pending) /\ Cardinality(pending) <= MaxUnacked
      /\ IsFiniteSet(Outstanding) /\ Cardinality(Outstanding) <= MaxUnacked
      /\ phase # "closed" => Outstanding \subseteq pending
  BY DEF Window
<1>2. ASSUME NEW S, NEW T, IsFiniteSet(S), Cardinality(S) <= MaxUnacked,
             T \subseteq S
      PROVE  IsFiniteSet(T) /\ Cardinality(T) <= MaxUnacked
  <2>1. /\ IsFiniteSet(T) /\ Cardinality(T) <= Cardinality(S)
        /\ Cardinality(T) \in Nat /\ Cardinality(S) \in Nat
    BY <1>2, FS_Subset, FS_CardinalityType
  <2> QED BY <1>2, <2>1, RealtimeConstants
<1>3. IsFiniteSet(pending') /\ Cardinality(pending') <= MaxUnacked
  BY <1>1, <1>2
<1>4. IsFiniteSet(Outstanding') /\ Cardinality(Outstanding') <= MaxUnacked
  BY <1>1, <1>2
<1>5. phase' # "closed" => Outstanding' \subseteq pending'
  BY <1>1
<1> HIDE DEF Outstanding
<1> QED BY <1>3, <1>4, <1>5 DEF Window

LEMMA SocketWindow ==
  ASSUME ContractInv, Window, Socket!Next, OnSocket, transport = "websocket"
  PROVE  Window'
<1>1. transport' = "websocket"
  BY DEF OnSocket
<1>2. /\ position[Reader] \in Nat
      /\ current \in Nat /\ lastDelivered \in Nat /\ start \in Nat
      /\ batch \subseteq Nat /\ seen \in SUBSET Nat /\ origin \in Nat
      /\ acks \subseteq Nat /\ pending \subseteq Nat
      /\ cursor \in Nat \cup {NoCursor}
      /\ frames \in Seq(Socket!Frame)
  BY Typed DEF ContractInv
<1>3. /\ IsFiniteSet(pending) /\ Cardinality(pending) <= MaxUnacked
      /\ IsFiniteSet(Outstanding) /\ Cardinality(Outstanding) <= MaxUnacked
      /\ phase # "closed" => Outstanding \subseteq pending
  BY DEF Window
<1>4. \A type, p : [type |-> type, cursor |-> p].type = type
                     /\ [type |-> type, cursor |-> p].cursor = p
  OBVIOUS
\* Nothing that the window is about.
<1>5. ASSUME UNCHANGED <<frames, seen, start, acks, pending>>,
             phase' # "closed" => phase # "closed"
      PROVE  Window'
  <2>1. Outstanding' = Outstanding
    BY <1>5 DEF Outstanding
  <2> QED BY <1>1, <1>5, <2>1, WindowShrinks
<1>6. CASE Socket!FeedStep \/ \E m \in Socket!Positions : Socket!MoveWindow(m)
  BY <1>5, <1>6 DEF Socket!FeedStep, Socket!MoveWindow, Socket!serverVars,
       Socket!clientVars
<1>7. CASE Socket!SnapshotRequired
  BY <1>5, <1>7 DEF Socket!SnapshotRequired, Socket!serverVars,
       Socket!clientVars
<1>8. CASE \E e \in Sequences : Socket!StepOver(e)
  BY <1>5, <1>8 DEF Socket!StepOver, Socket!clientVars
<1>9. CASE Socket!ConnectFresh \/ Socket!Resume
  <2>1. PICK p \in Nat :
          Socket!Open(p) /\ \A e \in seen' : e \in Nat /\ e <= p
    <3>1. CASE Socket!ConnectFresh
      <4>1. Socket!Open(position[Reader]) /\ seen' = {}
        BY <3>1 DEF Socket!ConnectFresh
      <4> QED BY <1>2, <4>1
    <3>2. CASE Socket!Resume
      BY <1>2, <3>2 DEF Socket!Resume, ContractInv, Contract, GoodCursor
    <3> QED BY <1>9, <3>1, <3>2
  <2> DEFINE m == [type |-> "ready", cursor |-> p]
  <2>2. /\ phase' = "polling" /\ pending' = {} /\ acks' = {} /\ start' = p
        /\ frames' = <<m>>
    BY <2>1 DEF Socket!Open
  <2>3. m \in {m} /\ m.type # "event" /\ <<>> \in Seq({m})
    BY <1>4
  <2> HIDE DEF m
  <2>4. Flying(frames') = {}
    BY <2>2, <2>3, FlyingFacts
  <2>5. Outstanding' = {}
    BY <2>1, <2>2, <2>4 DEF Outstanding
  <2> QED BY <2>2, <2>5, FS_EmptySet, RealtimeConstants DEF Window
<1>10. CASE Socket!Poll
  <2>1. PICK taken \in SUBSET acks : Socket!Drain(taken)
    BY <1>10 DEF Socket!Poll
  <2>2. UNCHANGED <<frames, seen, start, acks>> /\ phase = "polling"
    BY <1>10 DEF Socket!Poll, Socket!clientVars
  <2>3. Outstanding' = Outstanding
    BY <2>2 DEF Outstanding
  <2>4. pending' = {e \in pending : \A a \in taken : e > a}
    BY <2>1 DEF Socket!Drain
  <2>5. Outstanding \subseteq pending => Outstanding' \subseteq pending'
    BY <1>2, <2>1, <2>3, <2>4 DEF Outstanding
  <2> QED BY <1>1, <2>2, <2>3, <2>4, <2>5, WindowShrinks
<1>11. CASE \E e \in Sequences : Socket!WriteEvent(e)
  <2> PICK e \in Sequences : Socket!WriteEvent(e)
    BY <1>11
  <2> DEFINE m == [type |-> "event", cursor |-> e]
  <2>1. /\ UNCHANGED <<seen, start, acks, phase>> /\ phase = "writing"
        /\ frames' = Append(frames, m)
        /\ pending' = pending \cup {e}
        /\ ~(Socket!Cardinality(pending) >= MaxUnacked)
    BY DEF Socket!WriteEvent, Socket!WindowFull, Socket!clientVars
  <2>2. m \in Socket!Frame /\ m.cursor = e
    BY DEF Socket!Frame
  <2> HIDE DEF m
  <2>3. Flying(frames') \subseteq Flying(frames) \cup {e}
    BY <1>2, <2>1, <2>2, FlyingFacts
  <2>4. Outstanding' \subseteq pending'
    <3>1. Outstanding' \subseteq Outstanding \cup {e}
      BY <2>1, <2>3 DEF Outstanding
    <3> QED BY <1>3, <2>1, <3>1
  <2>5. IsFiniteSet(pending') /\ Cardinality(pending') <= MaxUnacked
    <3>1. /\ IsFiniteSet(pending')
          /\ Cardinality(pending') <= Cardinality(pending) + 1
          /\ Cardinality(pending) \in Nat /\ Cardinality(pending') \in Nat
      <4>1. Cardinality(pending) \in Nat
        BY <1>3, FS_CardinalityType
      <4>2. /\ IsFiniteSet(pending \cup {e})
            /\ Cardinality(pending \cup {e}) \in
                 {Cardinality(pending), Cardinality(pending) + 1}
        BY <1>3, <4>1, FS_AddElement
      <4> QED BY <2>1, <4>1, <4>2
    <3>2. ~(Cardinality(pending) >= MaxUnacked)
      BY <2>1, SameCardinality
    <3> QED BY <3>1, <3>2, RealtimeConstants
  <2>6. IsFiniteSet(Outstanding') /\ Cardinality(Outstanding') <= MaxUnacked
    <3>1. /\ IsFiniteSet(Outstanding')
          /\ Cardinality(Outstanding') <= Cardinality(pending')
          /\ Cardinality(Outstanding') \in Nat
          /\ Cardinality(pending') \in Nat
      BY <2>4, <2>5, FS_Subset, FS_CardinalityType
    <3> QED BY <2>5, <3>1, RealtimeConstants
  <2> HIDE DEF Outstanding
  <2> QED BY <2>4, <2>5, <2>6 DEF Window
\* The connection is over: the frames may stay, shrink or end with rate_limited.
<1>12. ASSUME UNCHANGED <<seen, start, acks>>, pending' = {}, phase' = "closed",
              Flying(frames') \subseteq Flying(frames)
       PROVE  Window'
  <2>1. Outstanding' \subseteq Outstanding
    BY <1>12 DEF Outstanding
  <2> QED BY <1>1, <1>12, <2>1, WindowShrinks
<1>13. CASE \E e \in Sequences : Socket!RateLimit(e)
  <2> PICK e \in Sequences : Socket!RateLimit(e)
    BY <1>13
  <2> DEFINE m == [type |-> "rate_limited", cursor |-> lastDelivered]
  <2>1. /\ UNCHANGED <<seen, start, acks>> /\ pending' = {}
        /\ phase' = "closed" /\ phase = "writing"
        /\ frames' = Append(frames, m)
    BY DEF Socket!RateLimit, Socket!CloseConnection, Socket!clientVars
  <2>2. m \in Socket!Frame /\ m.type # "event"
    <3>1. lastDelivered \in Socket!Positions
      BY DEF ContractInv, TypeOK, Socket!TypeOK
    <3> QED BY <3>1 DEF Socket!Frame
  <2> HIDE DEF m
  <2>3. Flying(Append(frames, m)) = Flying(frames)
    BY <1>2, <2>2, FlyingUnchanged
  <2> QED BY <1>12, <2>1, <2>3
<1>14. CASE Socket!EndBatch
  <2> DEFINE m == [type |-> "heartbeat", cursor |-> current]
  <2>1. /\ UNCHANGED <<seen, start, acks, pending>> /\ phase = "writing"
        /\ frames' = frames \/ frames' = Append(frames, m)
    BY <1>14 DEF Socket!EndBatch, Socket!clientVars
  <2>2. m \in Socket!Frame /\ m.type # "event"
    <3>1. current \in Socket!Positions
      BY DEF ContractInv, TypeOK, Socket!TypeOK
    <3> QED BY <3>1 DEF Socket!Frame
  <2> HIDE DEF m
  <2>3. Flying(Append(frames, m)) = Flying(frames)
    BY <1>2, <2>2, FlyingUnchanged
  <2>4. Outstanding' = Outstanding
    BY <2>1, <2>3 DEF Outstanding
  <2> QED BY <1>1, <2>1, <2>4, WindowShrinks
<1>15. CASE Socket!EndLoop
  BY <1>12, <1>15 DEF Socket!EndLoop, Socket!CloseConnection,
       Socket!clientVars
<1>16. CASE Socket!LoseConnection
  <2>1. /\ UNCHANGED <<seen, start, acks>> /\ pending' = {}
        /\ phase' = "closed" /\ frames' = <<>>
    BY <1>16 DEF Socket!LoseConnection, Socket!CloseConnection,
         Socket!clientVars
  <2>2. Flying(frames') = {}
    BY <2>1 DEF Flying
  <2> QED BY <1>12, <2>1, <2>2
<1>17. CASE Socket!ReadFrame
  <2>1. /\ UNCHANGED <<start, acks, pending, phase>>
        /\ frames # <<>> /\ frames' = Tail(frames)
        /\ seen' = IF Head(frames).type = "event"
                     THEN seen \cup {Head(frames).cursor} ELSE seen
    BY <1>17 DEF Socket!ReadFrame, Socket!serverVars
  <2>2. Head(frames) \in Socket!Frame
    BY <1>2, <2>1
  <2>3. /\ Flying(frames') \subseteq Flying(frames)
        /\ Head(frames).type = "event" => Head(frames).cursor \in Flying(frames)
    BY <1>2, <2>1, <2>2, FlyingFacts
  <2>4. Flying(frames') \cup seen' \subseteq Flying(frames) \cup seen
    BY <2>1, <2>3
  <2>5. Outstanding' \subseteq Outstanding
    BY <2>1, <2>4 DEF Outstanding
  <2> QED BY <1>1, <2>1, <2>5, WindowShrinks
<1>18. CASE \E e \in Sequences : Socket!Acknowledge(e)
  <2>1. /\ UNCHANGED <<start, pending, phase, frames, seen>>
        /\ acks \subseteq acks'
    BY <1>18 DEF Socket!Acknowledge, Socket!serverVars
  <2>2. Outstanding' \subseteq Outstanding
    BY <2>1 DEF Outstanding
  <2> QED BY <1>1, <2>1, <2>2, WindowShrinks
<1> QED BY <1>6, <1>7, <1>8, <1>9, <1>10, <1>11, <1>13, <1>14, <1>15, <1>16,
           <1>17, <1>18
        DEF Socket!Next, Socket!Connect, Socket!Loop, Socket!Examine

LEMMA WindowAlways == Spec => []Window
<1>1. Init => Window
  <2> SUFFICES ASSUME Init PROVE Window
    OBVIOUS
  <2>1. frames = <<>> /\ seen = {} /\ pending = {} /\ phase = "closed"
    BY DEF Init, Socket!Init
  <2>2. Outstanding = {}
    BY <2>1 DEF Outstanding, Flying
  <2> QED BY <2>1, <2>2, FS_EmptySet, RealtimeConstants DEF Window
<1>2. ContractInv /\ Window /\ [Next]_vars => Window'
  <2> SUFFICES ASSUME ContractInv, Window, [Next]_vars PROVE Window'
    OBVIOUS
  <2>1. CASE Socket!Next /\ OnSocket
    BY <2>1, SocketWindow DEF OnSocket
  <2>2. CASE Stream!Next /\ OnStream
    BY <2>2 DEF OnStream, Window
  <2>3. CASE Switch
    <3>1. CASE transport' # "websocket"
      BY <3>1 DEF Window
    <3>2. CASE transport' = "websocket"
      <4>1. /\ frames' = <<>> /\ seen' = {} /\ pending' = {}
            /\ phase' = "closed"
        BY <2>3 DEF Switch, Socket!MayConnect, ContractInv, Shape
      <4>2. Outstanding' = {}
        BY <4>1 DEF Outstanding, Flying
      <4> QED BY <4>1, <4>2, FS_EmptySet, RealtimeConstants DEF Window
    <3> QED BY <3>1, <3>2
  <2>4. CASE UNCHANGED vars
    BY <2>4 DEF vars, socketVars, Window, Outstanding
  <2> QED BY <2>1, <2>2, <2>3, <2>4 DEF Next
<1> QED BY <1>1, <1>2, ContractAlways, PTL DEF Spec

\* The events on their way or read and not acknowledged never exceed the
\* window, for every MaxUnacked: what the loop drains lags behind the agent.
THEOREM WindowIsRespected == Spec => []WindowRespected
<1>1. ContractInv /\ Window => WindowRespected
  <2> SUFFICES ASSUME ContractInv, Window, transport = "websocket"
               PROVE  Socket!WindowRespected
    BY DEF WindowRespected
  <2>1. Socket!Unacknowledged = Outstanding
    BY Typed, OutstandingCounts DEF ContractInv
  <2>2. Cardinality(Outstanding) <= MaxUnacked
    BY DEF Window
  <2> QED BY <2>1, <2>2, SameCardinality DEF Socket!WindowRespected
<1> QED BY <1>1, ContractAlways, WindowAlways, PTL
=============================================================================
