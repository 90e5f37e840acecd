---------------------------- MODULE UciLoopProofs ----------------------------
(***************************************************************************)
(* UciLoop for every set of positions, options and commands and every      *)
(* length of the input, with and without faults: type correctness, the     *)
(* order of the commands, the answers, and that the engine is up to date.  *)
(***************************************************************************)
EXTENDS UciLoop, SequenceTheorems, TLAPS

(***************************************************************************)
(* The inductive invariant.  CommandsInOrder is spoken of place by place:  *)
(* Order says which line stands where.  The answers need to know that the  *)
(* settings are those of the commands carried out so far (SettingsCurrent) *)
(* and that nothing has changed them since the active search began         *)
(* (SearchUnderSettings).                                                  *)
(***************************************************************************)
Hand == IF current = 0 THEN 0 ELSE 1
\* How many lines have left the channel.
Had == Len(executed) + Hand + Len(pending)

Order ==
  /\ \A k \in DOMAIN executed : executed[k] = k
  /\ current # 0 => current = Len(executed) + 1
  /\ \A k \in DOMAIN pending : pending[k] = Len(executed) + Hand + k
  /\ Had <= Len(input)

\* The channel s holds the lines after the first h, in order.
InputAt(s, k) == s[k].type = "input"
RestInOrder(s, h, n) ==
  /\ \A i \in h + 1 .. n :
       \E k \in 1 .. Len(s) : InputAt(s, k) /\ s[k].index = i
  /\ \A k \in 1 .. Len(s) : InputAt(s, k) => s[k].index \in h + 1 .. n
  /\ \A j, k \in 1 .. Len(s) :
       j < k /\ InputAt(s, j) /\ InputAt(s, k) => s[j].index < s[k].index

ChannelOrder == RestInOrder(channel, Had, Len(input))

\* The end of the search is announced in s once if it is over, else not.
EndAnnounced(s, over) ==
  /\ \A j, k \in 1 .. Len(s) : ~ InputAt(s, j) /\ ~ InputAt(s, k) => j = k
  /\ (\E k \in 1 .. Len(s) : ~ InputAt(s, k)) <=> over

\* Only a running loop has a search thread whose search is not over.
ThreadSearches == thread => Searching

\* The engine's settings are those of the commands carried out.
SettingsCurrent ==
  /\ PositionIs(engine.position, input, Len(executed) + 1)
  /\ OptionIs(engine.option, input, Len(executed) + 1)

\* The engine has been told the position, and the option if one was set.
EngineTold ==
  /\ engine.position = state.position
  /\ engine.option = IF OptionSet THEN state.option ELSE OwnOption

\* The active search is that of a go already carried out, the last one, and
\* what was set before it is still set.
SearchUnderSettings == Searching =>
  /\ active.go \in 1 .. Len(executed) /\ Kind(active.go) = "go"
  /\ \A k \in DOMAIN answers : answers[k].go < active.go
  /\ PositionIs(engine.position, input, active.go)
  /\ OptionIs(engine.option, input, active.go)

Inv ==
  /\ TypeOK
  /\ Order
  /\ ChannelOrder
  /\ EngineUpToDate
  /\ ThreadSearches
  /\ SettingsCurrent
  /\ SearchUnderSettings
  /\ AnswersMatchSearches

-----------------------------------------------------------------------------
(* Lines already read stay what they are, and so do the settings that the  *)
(* lines before one of them make.                                          *)


LEMMA SettingsKept ==
  ASSUME NEW s, NEW t, NEW n \in Nat, \A j \in 1 .. n : t[j] = s[j],
         NEW i \in 1 .. n + 1
  PROVE  /\ \A p : PositionIs(p, s, i) => PositionIs(p, t, i)
         /\ \A o : OptionIs(o, s, i) => OptionIs(o, t, i)
<1>1. /\ PositionsBefore(t, i) = PositionsBefore(s, i)
      /\ OptionsBefore(t, i) = OptionsBefore(s, i)
  BY DEF PositionsBefore, OptionsBefore
<1>2. /\ \A j \in PositionsBefore(s, i) : t[j] = s[j]
      /\ \A j \in OptionsBefore(s, i) : t[j] = s[j]
  BY DEF PositionsBefore, OptionsBefore
<1> QED
  BY <1>1, <1>2 DEF PositionIs, OptionIs

\* A line that sets nothing leaves the settings, one that does makes them.
LEMMA PositionAfter ==
  ASSUME NEW s, NEW i \in Nat \ {0}, NEW p, PositionIs(p, s, i)
  PROVE  /\ SetsPosition(s[i]) => PositionIs(NewPosition(s[i]), s, i + 1)
         /\ ~ SetsPosition(s[i]) => PositionIs(p, s, i + 1)
<1>1. CASE SetsPosition(s[i])
  <2>1. IsLatest(i, PositionsBefore(s, i + 1))
    BY <1>1 DEF PositionsBefore, IsLatest
  <2> QED
    BY <1>1, <2>1 DEF PositionIs, IsLatest
<1>2. CASE ~ SetsPosition(s[i])
  <2>1. PositionsBefore(s, i + 1) = PositionsBefore(s, i)
    BY <1>2 DEF PositionsBefore
  <2> QED
    BY <1>2, <2>1 DEF PositionIs
<1> QED
  BY <1>1, <1>2

LEMMA OptionAfter ==
  ASSUME NEW s, NEW i \in Nat \ {0}, NEW o, OptionIs(o, s, i)
  PROVE  /\ SetsOption(s[i]) => OptionIs(s[i].value, s, i + 1)
         /\ ~ SetsOption(s[i]) => OptionIs(o, s, i + 1)
<1>1. CASE SetsOption(s[i])
  <2>1. IsLatest(i, OptionsBefore(s, i + 1))
    BY <1>1 DEF OptionsBefore, IsLatest
  <2> QED
    BY <1>1, <2>1 DEF OptionIs, IsLatest
<1>2. CASE ~ SetsOption(s[i])
  <2>1. OptionsBefore(s, i + 1) = OptionsBefore(s, i)
    BY <1>2 DEF OptionsBefore
  <2> QED
    BY <1>2, <2>1 DEF OptionIs
<1> QED
  BY <1>1, <1>2

-----------------------------------------------------------------------------
(* The channel.                                                            *)

LEMMA TailAt ==
  ASSUME NEW T, NEW s \in Seq(T), s # <<>>
  PROVE  /\ Len(s) \in Nat \ {0} /\ Len(Tail(s)) = Len(s) - 1
         /\ Head(s) = s[1]
         /\ \A k \in 1 .. Len(s) - 1 : Tail(s)[k] = s[k + 1]
OBVIOUS

LEMMA AppendAt ==
  ASSUME NEW T, NEW s \in Seq(T), NEW m \in T
  PROVE  /\ Len(s) \in Nat /\ Len(Append(s, m)) = Len(s) + 1
         /\ \A k \in 1 .. Len(s) : Append(s, m)[k] = s[k]
         /\ Append(s, m)[Len(s) + 1] = m
OBVIOUS

LEMMA RestAppendInput ==
  ASSUME NEW T, NEW s \in Seq(T), NEW h \in Nat, NEW n \in Nat, h <= n,
         NEW m \in T, m.type = "input", m.index = n + 1,
         RestInOrder(s, h, n)
  PROVE  RestInOrder(Append(s, m), h, n + 1)
<1> DEFINE t == Append(s, m)
<1>1. /\ Len(s) \in Nat /\ Len(t) = Len(s) + 1
      /\ \A k \in 1 .. Len(s) : t[k] = s[k]
      /\ t[Len(s) + 1] = m
  BY AppendAt
<1> HIDE DEF t
<1>2. \A i \in h + 1 .. n + 1 :
        \E k \in 1 .. Len(t) : InputAt(t, k) /\ t[k].index = i
  <2> SUFFICES ASSUME NEW i \in h + 1 .. n + 1
               PROVE  \E k \in 1 .. Len(t) : InputAt(t, k) /\ t[k].index = i
    OBVIOUS
  <2>1. CASE i = n + 1
    BY <1>1, <2>1 DEF InputAt
  <2>2. CASE i \in h + 1 .. n
    <3>1. PICK k \in 1 .. Len(s) : InputAt(s, k) /\ s[k].index = i
      BY <2>2 DEF RestInOrder
    <3> QED
      BY <1>1, <3>1 DEF InputAt
  <2> QED
    BY <2>1, <2>2
<1>3. \A k \in 1 .. Len(s) : InputAt(t, k) => t[k].index \in h + 1 .. n
  BY <1>1 DEF RestInOrder, InputAt
<1>4. \A j, k \in 1 .. Len(t) :
        j < k /\ InputAt(t, j) /\ InputAt(t, k) => t[j].index < t[k].index
  <2> SUFFICES ASSUME NEW j \in 1 .. Len(t), NEW k \in 1 .. Len(t),
                      j < k, InputAt(t, j), InputAt(t, k)
               PROVE  t[j].index < t[k].index
    OBVIOUS
  <2>1. j \in 1 .. Len(s) /\ t[j].index \in h + 1 .. n
    BY <1>1, <1>3
  <2>2. CASE k = Len(t)
    BY <1>1, <2>1, <2>2
  <2>3. CASE k \in 1 .. Len(s)
    BY <1>1, <2>1, <2>3 DEF RestInOrder, InputAt
  <2> QED
    BY <1>1, <2>2, <2>3
<1>5. \A k \in 1 .. Len(t) : InputAt(t, k) => t[k].index \in h + 1 .. n + 1
  BY <1>1, <1>3
<1> QED
  BY <1>2, <1>4, <1>5 DEF RestInOrder, t

LEMMA RestAppendEnd ==
  ASSUME NEW T, NEW s \in Seq(T), NEW h \in Nat, NEW n \in Nat,
         NEW m \in T, m.type # "input",
         RestInOrder(s, h, n)
  PROVE  RestInOrder(Append(s, m), h, n)
<1> DEFINE t == Append(s, m)
<1>1. /\ Len(s) \in Nat /\ Len(t) = Len(s) + 1
      /\ \A k \in 1 .. Len(s) : t[k] = s[k]
      /\ t[Len(s) + 1] = m
  BY AppendAt
<1> HIDE DEF t
<1>2. \A k \in 1 .. Len(t) :
        InputAt(t, k) => k \in 1 .. Len(s) /\ InputAt(s, k) /\ t[k] = s[k]
  BY <1>1 DEF InputAt
<1>3. \A k \in 1 .. Len(s) : k \in 1 .. Len(t) /\ t[k] = s[k]
  BY <1>1
<1>4. \A i \in h + 1 .. n :
        \E k \in 1 .. Len(t) : InputAt(t, k) /\ t[k].index = i
  BY <1>3 DEF RestInOrder, InputAt
<1>5. \A k \in 1 .. Len(t) : InputAt(t, k) => t[k].index \in h + 1 .. n
  BY <1>2 DEF RestInOrder
<1>6. \A j, k \in 1 .. Len(t) :
        j < k /\ InputAt(t, j) /\ InputAt(t, k) => t[j].index < t[k].index
  BY <1>2 DEF RestInOrder
<1> QED
  BY <1>4, <1>5, <1>6 DEF RestInOrder, t

\* The next input in the channel is the next line.
LEMMA RestTake ==
  ASSUME NEW T, NEW s \in Seq(T), NEW h \in Nat, NEW n \in Nat,
         s # <<>>, Head(s).type = "input",
         RestInOrder(s, h, n)
  PROVE  /\ Head(s).index = h + 1 /\ h + 1 <= n
         /\ RestInOrder(Tail(s), h + 1, n)
<1> DEFINE t == Tail(s)
<1>1. /\ Len(s) \in Nat \ {0} /\ Len(t) = Len(s) - 1
      /\ Head(s) = s[1]
      /\ \A k \in 1 .. Len(t) : t[k] = s[k + 1]
  BY TailAt
<1> HIDE DEF t
<1>2. InputAt(s, 1) /\ s[1].index \in h + 1 .. n
  BY <1>1 DEF RestInOrder, InputAt
<1>3. \A k \in 1 .. Len(s) : InputAt(s, k) => s[1].index <= s[k].index
  BY <1>1, <1>2 DEF RestInOrder
<1>4. s[1].index = h + 1
  BY <1>2, <1>3 DEF RestInOrder
<1>5. \A i \in h + 2 .. n :
        \E k \in 1 .. Len(t) : InputAt(t, k) /\ t[k].index = i
  <2> SUFFICES ASSUME NEW i \in h + 2 .. n
               PROVE  \E k \in 1 .. Len(t) : InputAt(t, k) /\ t[k].index = i
    OBVIOUS
  <2>1. PICK k \in 1 .. Len(s) : InputAt(s, k) /\ s[k].index = i
    BY DEF RestInOrder
  <2>2. k # 1
    BY <1>4, <2>1
  <2>3. k - 1 \in 1 .. Len(t) /\ t[k - 1] = s[k]
    BY <1>1, <2>1, <2>2
  <2> QED
    BY <2>1, <2>3 DEF InputAt
<1>6. \A k \in 1 .. Len(t) : InputAt(t, k) => t[k].index \in h + 2 .. n
  <2> SUFFICES ASSUME NEW k \in 1 .. Len(t), InputAt(t, k)
               PROVE  t[k].index \in h + 2 .. n
    OBVIOUS
  <2>1. k + 1 \in 1 .. Len(s) /\ 1 < k + 1 /\ t[k] = s[k + 1]
    BY <1>1
  <2>2. InputAt(s, k + 1)
    BY <2>1 DEF InputAt
  <2>3. s[1].index < s[k + 1].index /\ s[k + 1].index \in h + 1 .. n
    BY <1>1, <1>2, <2>1, <2>2 DEF RestInOrder
  <2> QED
    BY <1>4, <2>1, <2>3
<1>7. \A j, k \in 1 .. Len(t) :
        j < k /\ InputAt(t, j) /\ InputAt(t, k) => t[j].index < t[k].index
  <2> SUFFICES ASSUME NEW j \in 1 .. Len(t), NEW k \in 1 .. Len(t),
                      j < k, InputAt(t, j), InputAt(t, k)
               PROVE  t[j].index < t[k].index
    OBVIOUS
  <2>1. /\ j + 1 \in 1 .. Len(s) /\ k + 1 \in 1 .. Len(s) /\ j + 1 < k + 1
        /\ t[j] = s[j + 1] /\ t[k] = s[k + 1]
    BY <1>1
  <2> QED
    BY <2>1 DEF RestInOrder, InputAt
<1> QED
  BY <1>1, <1>2, <1>4, <1>5, <1>6, <1>7 DEF RestInOrder, t

LEMMA RestDrop ==
  ASSUME NEW T, NEW s \in Seq(T), NEW h \in Nat, NEW n \in Nat,
         s # <<>>, Head(s).type # "input",
         RestInOrder(s, h, n)
  PROVE  RestInOrder(Tail(s), h, n)
<1> DEFINE t == Tail(s)
<1>1. /\ Len(s) \in Nat \ {0} /\ Len(t) = Len(s) - 1
      /\ Head(s) = s[1]
      /\ \A k \in 1 .. Len(t) : t[k] = s[k + 1]
  BY TailAt
<1> HIDE DEF t
<1>2. \A k \in 1 .. Len(t) : k + 1 \in 1 .. Len(s)
  BY <1>1
<1>3. \A i \in h + 1 .. n :
        \E k \in 1 .. Len(t) : InputAt(t, k) /\ t[k].index = i
  <2> SUFFICES ASSUME NEW i \in h + 1 .. n
               PROVE  \E k \in 1 .. Len(t) : InputAt(t, k) /\ t[k].index = i
    OBVIOUS
  <2>1. PICK k \in 1 .. Len(s) : InputAt(s, k) /\ s[k].index = i
    BY DEF RestInOrder
  <2>2. k - 1 \in 1 .. Len(t) /\ t[k - 1] = s[k]
    BY <1>1, <2>1 DEF InputAt
  <2> QED
    BY <2>1, <2>2 DEF InputAt
<1> QED
  BY <1>1, <1>2, <1>3 DEF RestInOrder, InputAt, t

LEMMA EndAppend ==
  ASSUME NEW T, NEW s \in Seq(T), NEW m \in T, NEW over \in BOOLEAN,
         EndAnnounced(s, over), m.type # "input" => ~ over
  PROVE  /\ m.type = "input" => EndAnnounced(Append(s, m), over)
         /\ m.type # "input" => EndAnnounced(Append(s, m), TRUE)
<1> DEFINE t == Append(s, m)
<1>1. /\ Len(s) \in Nat /\ Len(t) = Len(s) + 1
      /\ \A k \in 1 .. Len(s) : t[k] = s[k]
      /\ t[Len(s) + 1] = m
  BY AppendAt
<1> HIDE DEF t
<1>2. CASE m.type = "input"
  <2>1. \A k \in 1 .. Len(t) : ~ InputAt(t, k) => k \in 1 .. Len(s)
    BY <1>1, <1>2 DEF InputAt
  <2> QED
    BY <1>1, <1>2, <2>1 DEF EndAnnounced, InputAt, t
<1>3. CASE m.type # "input"
  <2>1. \A k \in 1 .. Len(s) : InputAt(t, k)
    BY <1>1, <1>3 DEF EndAnnounced, InputAt
  <2>2. ~ InputAt(t, Len(t)) /\ Len(t) \in 1 .. Len(t)
    BY <1>1, <1>3 DEF InputAt
  <2> QED
    BY <1>1, <1>3, <2>1, <2>2 DEF EndAnnounced, t
<1> QED
  BY <1>2, <1>3

LEMMA EndTail ==
  ASSUME NEW T, NEW s \in Seq(T), s # <<>>, NEW over \in BOOLEAN,
         EndAnnounced(s, over)
  PROVE  /\ Head(s).type = "input" => EndAnnounced(Tail(s), over)
         /\ Head(s).type # "input" => over /\ EndAnnounced(Tail(s), FALSE)
<1> DEFINE t == Tail(s)
<1>1. /\ Len(s) \in Nat \ {0} /\ Len(t) = Len(s) - 1
      /\ Head(s) = s[1]
      /\ \A k \in 1 .. Len(t) : t[k] = s[k + 1]
  BY TailAt
<1> HIDE DEF t
<1>2. \A k \in 1 .. Len(t) : k + 1 \in 1 .. Len(s) /\ k + 1 # 1
  BY <1>1
<1>3. ASSUME Head(s).type = "input" PROVE EndAnnounced(t, over)
  <2>1. \A k \in 1 .. Len(s) : ~ InputAt(s, k) =>
          k - 1 \in 1 .. Len(t) /\ t[k - 1] = s[k]
    BY <1>1, <1>3 DEF InputAt
  <2>2. \A k \in 1 .. Len(t) : InputAt(t, k) <=> InputAt(s, k + 1)
    BY <1>1 DEF InputAt
  <2>3. \A j, k \in 1 .. Len(t) : ~ InputAt(t, j) /\ ~ InputAt(t, k) => j = k
    <3> SUFFICES ASSUME NEW j \in 1 .. Len(t), NEW k \in 1 .. Len(t),
                        ~ InputAt(t, j), ~ InputAt(t, k)
                 PROVE  j = k
      OBVIOUS
    <3>1. j + 1 = k + 1
      BY <1>2, <2>2 DEF EndAnnounced
    <3> QED
      BY <3>1
  <2>4. (\E k \in 1 .. Len(t) : ~ InputAt(t, k)) <=> over
    BY <1>2, <2>1, <2>2 DEF EndAnnounced, InputAt
  <2> QED
    BY <2>3, <2>4 DEF EndAnnounced
<1>4. ASSUME Head(s).type # "input" PROVE over /\ EndAnnounced(t, FALSE)
  BY <1>1, <1>2, <1>4 DEF EndAnnounced, InputAt
<1> QED
  BY <1>3, <1>4 DEF t

-----------------------------------------------------------------------------
(* The order of the commands.                                              *)

CarryOut ==
  \/ AnswerLine \/ ReadError \/ SetOption \/ Position \/ NewGame
  \/ GoBackground \/ GoHere \/ Stop \/ Leave

LEMMA CarryOutStep ==
  ASSUME CarryOut
  PROVE  /\ loop = "running" /\ current # 0 /\ ~ Waiting
         /\ Executed
  BY DEF CarryOut, AnswerLine, ReadError, SetOption, Position, NewGame,
         GoBackground, GoHere, Stop, Leave, Executing

LEMMA NextCases ==
  ASSUME [Next]_vars
  PROVE  \/ \E c \in Commands : Read(c)
         \/ SearchEnds \/ Take \/ SetAside \/ Complete \/ CarryOut
         \/ UNCHANGED vars
  BY DEF Next, LoopStep, CarryOut

LEMMA Numbers ==
  ASSUME TypeOK
  PROVE  /\ Len(input) \in Nat /\ Len(executed) \in Nat /\ Len(pending) \in Nat
         /\ current \in Nat /\ Hand \in 0 .. 1 /\ Had \in Nat
  BY DEF TypeOK, Hand, Had

LEMMA OrderStep ==
  ASSUME TypeOK, Order, ChannelOrder, [Next]_vars
  PROVE  Order' /\ ChannelOrder'
<1>1. ASSUME NEW c \in Commands, Read(c) PROVE Order' /\ ChannelOrder'
  <2>1. /\ Len(input)' = Len(input) + 1 /\ Hand' = Hand /\ Had' = Had
        /\ UNCHANGED <<executed, pending, current>>
    BY <1>1, UciConstants DEF Read, TypeOK, Hand, Had
  <2>2. Order'
    BY <2>1, Numbers DEF Order
  <2>3. [type |-> "input", index |-> Len(input) + 1] \in Event
    BY <1>1, Numbers, UciConstants DEF Read, Event
  <2>4. RestInOrder(channel', Had, Len(input) + 1)
    BY <1>1, <2>3, Numbers, RestAppendInput
       DEF Read, TypeOK, Order, ChannelOrder
  <2> QED
    BY <2>1, <2>2, <2>4 DEF ChannelOrder
<1>2. CASE SearchEnds
  <2>1. UNCHANGED <<input, executed, pending, current>>
    BY <1>2 DEF SearchEnds
  <2>2. Hand' = Hand /\ Had' = Had /\ Order'
    BY <2>1 DEF Hand, Had, Order
  <2>3. PICK t \in {"finished", "panicked"} :
          channel' = Append(channel, [type |-> t, index |-> 0])
    BY <1>2 DEF SearchEnds
  <2>4. [type |-> t, index |-> 0] \in Event /\ t # "input"
    BY DEF Event
  <2>5. RestInOrder(channel', Had, Len(input))
    BY <2>3, <2>4, Numbers, RestAppendEnd DEF TypeOK, ChannelOrder
  <2> QED
    BY <2>1, <2>2, <2>5 DEF ChannelOrder
<1>3. CASE Take
  <2>0. current = 0 /\ Hand = 0 /\ UNCHANGED <<input, executed>>
    BY <1>3 DEF Take, Hand
  <2>1. CASE /\ pending # <<>>
             /\ current' = Head(pending) /\ pending' = Tail(pending)
             /\ UNCHANGED channel
    <3>1. /\ Len(pending) \in Nat \ {0} /\ Len(pending)' = Len(pending) - 1
          /\ current' = pending[1]
          /\ \A k \in 1 .. Len(pending)' : pending'[k] = pending[k + 1]
          /\ DOMAIN pending = 1 .. Len(pending)
          /\ DOMAIN pending' = 1 .. Len(pending)'
      BY <2>1, TailAt DEF TypeOK
    <3>2. current' = Len(executed) + 1
      BY <2>0, <3>1, Numbers DEF Order
    <3>3. Hand' = 1 /\ Had' = Had
      BY <2>0, <3>1, <3>2, Numbers DEF Hand, Had
    <3>4. \A k \in 1 .. Len(pending)' : pending'[k] = Len(executed) + 1 + k
      <4> SUFFICES ASSUME NEW k \in 1 .. Len(pending)'
                   PROVE  pending'[k] = Len(executed) + 1 + k
        OBVIOUS
      <4>1. k + 1 \in 1 .. Len(pending) /\ pending'[k] = pending[k + 1]
        BY <3>1
      <4>2. pending[k + 1] = Len(executed) + 0 + (k + 1)
        BY <2>0, <3>1, <4>1 DEF Order
      <4> QED
        BY <4>1, <4>2, Numbers
    <3>5. Order'
      BY <2>0, <3>1, <3>2, <3>3, <3>4, Numbers DEF Order
    <3> QED
      BY <2>0, <2>1, <3>3, <3>5 DEF ChannelOrder
  <2>2. CASE /\ pending = <<>> /\ channel # <<>> /\ Head(channel).type = "input"
             /\ current' = Head(channel).index /\ channel' = Tail(channel)
             /\ UNCHANGED pending
    <3>1. Had = Len(executed)
      BY <2>0, <2>2, Numbers DEF Had
    <3>2. /\ current' = Had + 1 /\ Had + 1 <= Len(input)
          /\ RestInOrder(channel', Had + 1, Len(input))
      BY <2>2, Numbers, RestTake DEF TypeOK, ChannelOrder
    <3>3. Hand' = 1 /\ Had' = Had + 1
      BY <2>0, <2>2, <3>1, <3>2, Numbers DEF Hand, Had
    <3>4. Order'
      BY <2>0, <2>2, <3>1, <3>2, <3>3, Numbers DEF Order
    <3> QED
      BY <2>0, <3>2, <3>3, <3>4 DEF ChannelOrder
  <2> QED
    BY <1>3, <2>1, <2>2 DEF Take
<1>4. CASE SetAside
  <2>1. /\ UNCHANGED <<input, executed, current>>
        /\ pending' = Append(pending, Head(channel).index)
        /\ channel' = Tail(channel) /\ channel # <<>>
        /\ Head(channel).type = "input"
    BY <1>4 DEF SetAside
  <2>2. /\ Head(channel).index = Had + 1 /\ Had + 1 <= Len(input)
        /\ RestInOrder(channel', Had + 1, Len(input))
    BY <2>1, Numbers, RestTake DEF TypeOK, ChannelOrder
  <2>3. Had + 1 \in 1 .. MaxInput
    BY <2>2, Numbers, UciConstants DEF TypeOK
  <2>4. /\ Len(pending)' = Len(pending) + 1
        /\ \A k \in 1 .. Len(pending) : pending'[k] = pending[k]
        /\ pending'[Len(pending) + 1] = Had + 1
        /\ DOMAIN pending = 1 .. Len(pending)
        /\ DOMAIN pending' = 1 .. Len(pending)'
    BY <2>1, <2>2, <2>3, AppendAt DEF TypeOK
  <2>5. Hand' = Hand /\ Had' = Had + 1
    <3>1. Hand' = Hand
      BY <2>1 DEF Hand
    <3>2. Len(executed)' = Len(executed)
      BY <2>1
    <3> QED
      BY <2>4, <3>1, <3>2, Numbers DEF Had
  <2>6. Order'
    BY <2>1, <2>2, <2>4, <2>5, Numbers DEF Order, Had
  <2> QED
    BY <2>1, <2>2, <2>5, <2>6 DEF ChannelOrder
<1>5. CASE Complete
  <2>1. /\ UNCHANGED <<input, executed, current, pending>>
        /\ channel' = Tail(channel) /\ channel # <<>>
        /\ Head(channel).type # "input"
    BY <1>5 DEF Complete
  <2>2. Hand' = Hand /\ Had' = Had /\ Order'
    BY <2>1 DEF Hand, Had, Order
  <2>3. RestInOrder(channel', Had, Len(input))
    BY <2>1, Numbers, RestDrop DEF TypeOK, ChannelOrder
  <2> QED
    BY <2>1, <2>2, <2>3 DEF ChannelOrder
<1>6. CASE CarryOut
  <2>1. /\ UNCHANGED <<input, channel, pending>>
        /\ executed' = Append(executed, current) /\ current' = 0
        /\ current # 0
    BY <1>6, CarryOutStep DEF Executed
  <2>2. current \in 1 .. MaxInput
    BY <2>1, UciConstants DEF TypeOK
  <2>3. /\ Len(executed)' = Len(executed) + 1
        /\ \A k \in 1 .. Len(executed) : executed'[k] = executed[k]
        /\ executed'[Len(executed) + 1] = current
        /\ DOMAIN executed = 1 .. Len(executed)
        /\ DOMAIN executed' = 1 .. Len(executed)'
    BY <2>1, <2>2, AppendAt DEF TypeOK
  <2>4. Hand = 1 /\ Hand' = 0 /\ Had' = Had
    BY <2>1, <2>3, Numbers DEF Hand, Had
  <2>5. Order'
    BY <2>1, <2>3, <2>4, Numbers DEF Order
  <2> QED
    BY <2>1, <2>4, <2>5 DEF ChannelOrder
<1>7. CASE UNCHANGED vars
  <2>1. Hand' = Hand /\ Had' = Had /\ Order'
    BY <1>7 DEF vars, Hand, Had, Order
  <2> QED
    BY <1>7, <2>1 DEF vars, ChannelOrder
<1> QED
  BY <1>1, <1>2, <1>3, <1>4, <1>5, <1>6, <1>7, NextCases

-----------------------------------------------------------------------------
(* The engine.                                                             *)


LEMMA CommandInHand ==
  ASSUME TypeOK, current # 0
  PROVE  /\ current \in 1 .. MaxInput /\ current \in 1 .. Len(input)
         /\ input[current] \in Command
BY UciConstants DEF TypeOK

LEMMA LinesKept ==
  ASSUME TypeOK, [Next]_vars
  PROVE  \A j \in 1 .. Len(input) : input'[j] = input[j]
<1>1. ASSUME NEW c \in Commands, Read(c)
      PROVE  \A j \in 1 .. Len(input) : input'[j] = input[j]
  BY <1>1, UciConstants, AppendAt DEF Read, TypeOK
<1>2. CASE UNCHANGED input
  BY <1>2
<1>3. CASE CarryOut
  BY <1>2, <1>3, CarryOutStep DEF Executed
<1> QED
  BY <1>1, <1>2, <1>3, NextCases
     DEF SearchEnds, Take, SetAside, Complete, vars

\* An option is set when a line that sets one is carried out, and stays set.
LEMMA OptionSetStep ==
  ASSUME TypeOK, Order, [Next]_vars
  PROVE  /\ UNCHANGED executed => OptionSet' = OptionSet
         /\ CarryOut => (OptionSet' <=> OptionSet \/ SetsOption(input[current]))
<1>0. /\ Len(executed) \in Nat /\ DOMAIN executed = 1 .. Len(executed)
      /\ Len(executed) <= Len(input) /\ Len(input) \in Nat
  BY Numbers DEF Order, Had, TypeOK
<1>1. \A k \in DOMAIN executed : /\ executed[k] = k
                                 /\ input'[executed[k]] = input[executed[k]]
  BY <1>0, LinesKept DEF Order
<1>2. ASSUME UNCHANGED executed PROVE OptionSet' = OptionSet
  BY <1>1, <1>2 DEF OptionSet, SetsOption
<1>3. ASSUME CarryOut
      PROVE  OptionSet' <=> OptionSet \/ SetsOption(input[current])
  <2>1. executed' = Append(executed, current) /\ UNCHANGED input
        /\ current \in 1 .. MaxInput
    BY <1>3, CarryOutStep, CommandInHand DEF Executed
  <2>2. /\ DOMAIN executed' = 1 .. Len(executed) + 1
        /\ \A k \in 1 .. Len(executed) : executed'[k] = executed[k]
        /\ executed'[Len(executed) + 1] = current
    BY <1>0, <2>1, AppendAt DEF TypeOK
  <2> QED
    BY <1>0, <2>1, <2>2 DEF OptionSet
<1> QED
  BY <1>2, <1>3

LEMMA AnnouncedIs ==
  ASSUME channel \in Seq(Event)
  PROVE  EngineUpToDate <=>
           /\ EngineTold
           /\ loop = "running" =>
                EndAnnounced(channel, Searching /\ ~ thread)
<1>1. DOMAIN channel = 1 .. Len(channel)
  OBVIOUS
<1> QED
  BY <1>1 DEF EngineUpToDate, EngineTold, EndAnnounced, IsInput, InputAt

LEMMA AnnouncedIsNext ==
  ASSUME channel' \in Seq(Event), EngineTold',
         loop' = "running" =>
           EndAnnounced(channel', (Searching /\ ~ thread)')
  PROVE  EngineUpToDate'
<1>1. DOMAIN channel' = 1 .. Len(channel')
  OBVIOUS
<1> QED
  BY <1>1 DEF EngineUpToDate, EngineTold, EndAnnounced, IsInput, InputAt

\* Commands that change the settings wait for the search.
LEMMA SettersFinish ==
  ASSUME NEW i, Kind(i) \in {"setoption", "position", "ucinewgame", "go"}
  PROVE  Finishes(i)
BY DEF Finishes

\* Taking a command does not change which go is being searched.
LEMMA TakeKeepsSearch ==
  ASSUME TypeOK, Take
  PROVE  /\ active'.go = active.go
         /\ Searching' <=> Searching
<1>1. active' = Stopped(current')
  BY DEF Take
<1>2. CASE Searching /\ active' = [active EXCEPT !.stopped = TRUE]
  <2>1. active \in Search /\ active.go \in 1 .. MaxInput
    BY <1>2 DEF TypeOK, Searching, Search
  <2>2. active'.go = active.go /\ active'.go # 0 /\ NoSearch.go = 0
    BY <1>2, <2>1, UciConstants DEF Search, NoSearch
  <2>3. active' # NoSearch
    BY <2>2
  <2> QED
    BY <1>2, <2>2, <2>3 DEF Searching
<1>3. CASE active' = active
  BY <1>3 DEF Searching
<1> QED
  BY <1>1, <1>2, <1>3 DEF Stopped

LEMMA EngineStep ==
  ASSUME TypeOK, TypeOK', Order, EngineUpToDate, ThreadSearches, [Next]_vars
  PROVE  EngineUpToDate' /\ ThreadSearches'
<1> DEFINE Over == Searching /\ ~ thread
           Goal == /\ EngineTold'
                   /\ loop' = "running" => EndAnnounced(channel', Over')
                   /\ ThreadSearches'
<1>0. /\ channel \in Seq(Event) /\ channel' \in Seq(Event)
      /\ EngineTold /\ thread \in BOOLEAN /\ Over \in BOOLEAN
      /\ loop = "running" => EndAnnounced(channel, Over)
  BY AnnouncedIs DEF TypeOK
<1>a. UNCHANGED <<state, engine, executed>> => EngineTold'
  BY <1>0, OptionSetStep DEF EngineTold
<1> SUFFICES Goal
  BY <1>0, AnnouncedIsNext DEF Over
<1>1. ASSUME NEW c \in Commands, Read(c) PROVE Goal
  <2>1. /\ loop = "running"
        /\ channel' =
             Append(channel, [type |-> "input", index |-> Len(input) + 1])
        /\ UNCHANGED <<loop, active, thread, state, engine, executed>>
    BY <1>1 DEF Read, engineVars
  <2>2. Over' = Over /\ ThreadSearches'
    BY <2>1 DEF Searching, ThreadSearches
  <2>3. [type |-> "input", index |-> Len(input) + 1] \in Event
    BY <1>1, Numbers, UciConstants DEF Read, Event
  <2>4. EndAnnounced(channel', Over)
    BY <1>0, <2>1, <2>3, EndAppend
  <2> QED
    BY <1>0, <1>a, <2>1, <2>2, <2>4
<1>2. CASE SearchEnds
  <2>1. /\ loop = "running" /\ thread /\ ~ thread'
        /\ UNCHANGED <<loop, active, state, engine, executed>>
    BY <1>2 DEF SearchEnds, engineVars
  <2>2. PICK t \in {"finished", "panicked"} :
          channel' = Append(channel, [type |-> t, index |-> 0])
    BY <1>2 DEF SearchEnds
  <2>3. [type |-> t, index |-> 0] \in Event
        /\ [type |-> t, index |-> 0].type # "input"
    BY DEF Event
  <2>4. ~ Over /\ Over' /\ ThreadSearches'
    BY <2>1 DEF Searching, ThreadSearches
  <2>5. EndAnnounced(channel', TRUE)
    BY <1>0, <2>1, <2>2, <2>3, <2>4, EndAppend
  <2> QED
    BY <1>0, <1>a, <2>1, <2>4, <2>5 DEF EndAnnounced
<1>3. CASE Take
  <2>1. /\ UNCHANGED <<loop, thread, state, engine, executed>>
        /\ loop = "running" /\ active' = Stopped(current')
    BY <1>3 DEF Take, engineVars
  <2>2. Searching' <=> Searching
    BY <1>3, TakeKeepsSearch
  <2>3. Over' <=> Over
    BY <2>1, <2>2
  <2>4. channel' = channel \/ /\ channel # <<>> /\ Head(channel).type = "input"
                              /\ channel' = Tail(channel)
    BY <1>3 DEF Take
  <2>5. EndAnnounced(channel', Over)
    BY <1>0, <2>1, <2>4, EndTail
  <2> QED
    BY <1>0, <1>a, <2>1, <2>2, <2>3, <2>5 DEF ThreadSearches, EndAnnounced
<1>4. CASE SetAside
  <2>1. /\ UNCHANGED <<loop, active, thread, state, engine, executed>>
        /\ loop = "running" /\ channel # <<>> /\ Head(channel).type = "input"
        /\ channel' = Tail(channel)
    BY <1>4 DEF SetAside, engineVars
  <2>2. Over' = Over /\ ThreadSearches'
    BY <2>1 DEF Searching, ThreadSearches
  <2>3. EndAnnounced(channel', Over)
    BY <1>0, <2>1, EndTail
  <2> QED
    BY <1>0, <1>a, <2>1, <2>2, <2>3
<1>5. CASE Complete
  <2>1. /\ UNCHANGED <<thread, state, engine, executed>> /\ active' = NoSearch
        /\ loop = "running" /\ channel # <<>> /\ Head(channel).type # "input"
        /\ channel' = Tail(channel)
    BY <1>5 DEF Complete
  <2>2. Over /\ EndAnnounced(channel', FALSE)
    BY <1>0, <2>1, EndTail
  <2>3. ~ Searching' /\ ~ thread'
    BY <2>1, <2>2 DEF Searching
  <2> QED
    BY <1>0, <1>a, <2>1, <2>2, <2>3 DEF ThreadSearches, EndAnnounced
<1>6. CASE CarryOut
  <2>0. loop = "running" /\ current # 0 /\ ~ Waiting /\ UNCHANGED channel
    BY <1>6, CarryOutStep DEF Executed
  <2>1. CASE GoBackground
    <3>1. /\ thread' = TRUE /\ UNCHANGED <<state, engine>>
          /\ active'.go = current /\ Kind(current) = "go"
      BY <2>1 DEF GoBackground, Executing, engineVars
    <3>2. ~ Searching
      BY <2>0, <3>1, SettersFinish DEF Waiting
    <3>3. Searching'
      BY <2>0, <3>1 DEF Searching, NoSearch
    <3>4. EngineTold'
      <4>1. ~ SetsOption(input[current])
        BY <3>1 DEF SetsOption, Kind
      <4> QED
        BY <1>0, <1>6, <3>1, <4>1, OptionSetStep DEF EngineTold
    <3> QED
      BY <1>0, <2>0, <3>1, <3>2, <3>3, <3>4 DEF ThreadSearches
  <2>2. CASE ~ GoBackground
    <3>1. UNCHANGED <<active, thread>>
      BY <1>6, <2>2 DEF CarryOut, AnswerLine, ReadError, SetOption, Position,
                        NewGame, GoHere, Stop, Leave
    <3>2. Over' = Over /\ ThreadSearches'
      BY <3>1 DEF Searching, ThreadSearches
    <3>3. EngineTold'
      <4>0. OptionSet' <=> OptionSet \/ SetsOption(input[current])
        BY <1>6, OptionSetStep
      <4>1. ASSUME SetOption \/ Position \/ NewGame PROVE EngineTold'
        <5>1. EngineHome
          BY <2>0, <4>1, SettersFinish
             DEF SetOption, Position, NewGame, Executing, Waiting, EngineHome
        <5>2. state \in Setting /\ engine \in Setting
          BY DEF TypeOK
        <5> USE DEF Setting, EngineTold, SetsOption, Executing, Apply,
                    engineVars, Kind, Value
        <5>3. CASE SetOption
          BY <1>0, <4>0, <5>1, <5>2, <5>3 DEF SetOption
        <5>4. CASE Position
          BY <1>0, <4>0, <5>1, <5>2, <5>4 DEF Position
        <5>5. CASE NewGame
          BY <1>0, <4>0, <5>1, <5>2, <5>5 DEF NewGame
        <5> QED
          BY <4>1, <5>3, <5>4, <5>5
      <4>2. ASSUME ~ (SetOption \/ Position \/ NewGame) PROVE EngineTold'
        <5>1. /\ UNCHANGED <<state, engine>>
              /\ Kind(current) # "setoption"
          BY <1>6, <2>2, <4>2
             DEF CarryOut, AnswerLine, ReadError, GoHere, Stop, Leave, Executing
        <5> QED
          BY <1>0, <4>0, <5>1 DEF EngineTold, SetsOption, Kind
      <4> QED
        BY <4>1, <4>2
    <3> QED
      BY <1>0, <2>0, <3>2, <3>3
  <2> QED
    BY <2>1, <2>2
<1>7. CASE UNCHANGED vars
  <2>1. UNCHANGED <<channel, loop, active, thread, state, engine, executed>>
    BY <1>7 DEF vars
  <2>2. Over' = Over /\ ThreadSearches'
    BY <2>1 DEF Searching, ThreadSearches
  <2> QED
    BY <1>0, <1>a, <2>1, <2>2
<1> QED
  BY <1>1, <1>2, <1>3, <1>4, <1>5, <1>6, <1>7, NextCases

-----------------------------------------------------------------------------
(* Types.                                                                  *)

AnswerType == [go : 1 .. MaxInput, position : Positions, option : Options]

LEMMA AnswerTyped ==
  ASSUME TypeOK, NEW g \in 1 .. MaxInput
  PROVE  Answer(g) \in Seq(AnswerType)
<1>1. [go |-> g, position |-> engine.position, option |-> engine.option]
        \in AnswerType
  BY DEF TypeOK, Setting, AnswerType
<1> QED
  BY <1>1 DEF TypeOK, Answer, AnswerType

LEMMA TypeStep ==
  ASSUME TypeOK, Order, ChannelOrder, EngineUpToDate, [Next]_vars
  PROVE  TypeOK'
<1>1. ASSUME NEW c \in Commands, Read(c) PROVE TypeOK'
  <2>1. input' \in Seq(Command) /\ Len(input)' = Len(input) + 1
        /\ Len(input) + 1 <= MaxInput
    BY <1>1, UciConstants DEF Read, TypeOK
  <2>2. [type |-> "input", index |-> Len(input) + 1] \in Event
    BY <2>1, Numbers, UciConstants DEF Event
  <2>3. current' \in 0 .. Len(input)'
    BY <1>1, <2>1, Numbers DEF Read, TypeOK
  <2> QED
    BY <1>1, <2>1, <2>2, <2>3 DEF Read, TypeOK, engineVars
<1>2. CASE SearchEnds
  <2>1. \A t \in {"finished", "panicked"} : [type |-> t, index |-> 0] \in Event
    BY DEF Event
  <2>2. channel' \in Seq(Event)
    BY <1>2, <2>1 DEF SearchEnds, TypeOK
  <2> QED
    BY <1>2, <2>2 DEF SearchEnds, TypeOK, engineVars
<1>3. CASE Take
  <2>1. /\ UNCHANGED <<input, loop, thread, executed, state, engine, answers>>
        /\ active' = Stopped(current')
    BY <1>3 DEF Take, engineVars
  <2>2. active' \in Search \cup {NoSearch}
    BY <2>1 DEF TypeOK, Stopped, Searching, Search
  <2>3. channel' \in Seq(Event) /\ pending' \in Seq(1 .. MaxInput)
    <3>1. \/ channel' = channel
          \/ channel # <<>> /\ channel' = Tail(channel)
      BY <1>3 DEF Take
    <3>2. \/ pending' = pending
          \/ pending # <<>> /\ pending' = Tail(pending)
      BY <1>3 DEF Take
    <3>3. channel \in Seq(Event) /\ pending \in Seq(1 .. MaxInput)
      BY DEF TypeOK
    <3> QED
      BY <3>1, <3>2, <3>3, HeadTailProperties
  <2>4. current' \in 0 .. Len(input)
    <3>0. (ChannelOrder /\ Order)'
      BY OrderStep
    <3>1. current' # 0 => current' = Len(executed) + 1
      BY <2>1, <3>0 DEF Order
    <3>2. Len(executed)' + Hand' + Len(pending)' <= Len(input)'
      BY <3>0 DEF Order, Had
    <3>3. Len(pending)' \in Nat
      BY <2>3
    <3>4. current' # 0 => Hand' = 1
      BY DEF Hand
    <3> QED
      BY <2>1, <3>1, <3>2, <3>3, <3>4, Numbers
  <2> QED
    BY <2>1, <2>2, <2>3, <2>4 DEF TypeOK
<1>4. CASE SetAside
  <2>1. Head(channel).index \in 1 .. MaxInput /\ channel' \in Seq(Event)
    <3>1. /\ Head(channel).index = Had + 1 /\ Had + 1 <= Len(input)
      BY <1>4, Numbers, RestTake DEF SetAside, TypeOK, ChannelOrder
    <3> QED
      BY <1>4, <3>1, Numbers, UciConstants DEF SetAside, TypeOK
  <2>2. pending' \in Seq(1 .. MaxInput)
    BY <1>4, <2>1 DEF SetAside, TypeOK
  <2> QED
    BY <1>4, <2>1, <2>2 DEF SetAside, TypeOK, engineVars
<1>5. CASE Complete
  <2>1. Searching
    <3>1. EndAnnounced(channel, Searching /\ ~ thread)
      BY <1>5, AnnouncedIs DEF Complete, TypeOK
    <3> QED
      BY <1>5, <3>1, EndTail DEF Complete, TypeOK
  <2>2. active.go \in 1 .. MaxInput
    BY <2>1 DEF TypeOK, Searching, Search
  <2>3. Answer(active.go) \in Seq(AnswerType)
    BY <2>2, AnswerTyped
  <2>4. answers' \in Seq(AnswerType) /\ channel' \in Seq(Event)
        /\ loop' \in {"running", "done", "failed"}
    BY <1>5, <2>3 DEF Complete, TypeOK, Written, AnswerType
  <2> QED
    BY <1>5, <2>4 DEF Complete, TypeOK, AnswerType
<1>6. CASE CarryOut
  <2>0. /\ loop = "running" /\ current # 0
        /\ executed' = Append(executed, current) /\ current' = 0
        /\ UNCHANGED <<input, channel, pending>>
    BY <1>6, CarryOutStep DEF Executed
  <2>1. executed' \in Seq(1 .. MaxInput) /\ current' \in 0 .. Len(input)
    BY <2>0, CommandInHand, Numbers DEF TypeOK
  <2>2. loop' \in {"running", "done", "failed"}
    BY <1>6, <2>0 DEF CarryOut, AnswerLine, ReadError, SetOption, Position,
                      NewGame, GoBackground, GoHere, Stop, Leave, Written
  <2>3. active' \in Search \cup {NoSearch} /\ thread' \in BOOLEAN
    <3>1. CASE GoBackground
      <4>1. [go |-> current, infinite |-> Value(current) = "infinite",
             stopped |-> FALSE] \in Search
        BY <2>0, CommandInHand DEF Search
      <4> QED
        BY <3>1, <4>1 DEF GoBackground
    <3>2. CASE ~ GoBackground
      BY <1>6, <3>2
         DEF CarryOut, AnswerLine, ReadError, SetOption, Position, NewGame,
             GoHere, Stop, Leave, TypeOK
    <3> QED
      BY <3>1, <3>2
  <2>4. answers' \in Seq(AnswerType)
    BY <1>6, <2>0, CommandInHand, AnswerTyped
       DEF CarryOut, AnswerLine, ReadError, SetOption, Position, NewGame,
           GoBackground, GoHere, Stop, Leave, Apply, engineVars, TypeOK,
           AnswerType
  <2>5. state' \in Setting /\ engine' \in Setting
    <3>1. CASE SetOption
      <4>1. Value(current) # Illegal => Value(current) \in Options
        BY <2>0, <3>1, CommandInHand
           DEF SetOption, Executing, Kind, Value, Command
      <4> QED
        BY <3>1, <4>1 DEF SetOption, Apply, engineVars, TypeOK, Setting
    <3>2. CASE Position
      <4>1. Value(current) # Illegal => Value(current) \in Positions
        BY <2>0, <3>2, CommandInHand
           DEF Position, Executing, Kind, Value, Command
      <4> QED
        BY <3>2, <4>1 DEF Position, Apply, engineVars, TypeOK, Setting
    <3>3. CASE NewGame
      BY <3>3, UciConstants DEF NewGame, Apply, TypeOK, Setting
    <3>4. CASE ~ (SetOption \/ Position \/ NewGame)
      BY <1>6, <3>4 DEF CarryOut, AnswerLine, ReadError, GoBackground, GoHere,
                        Stop, Leave, engineVars, TypeOK
    <3> QED
      BY <3>1, <3>2, <3>3, <3>4
  <2> QED
    BY <2>0, <2>1, <2>2, <2>3, <2>4, <2>5 DEF TypeOK, AnswerType
<1>7. CASE UNCHANGED vars
  BY <1>7 DEF vars, TypeOK
<1> QED
  BY <1>1, <1>2, <1>3, <1>4, <1>5, <1>6, <1>7, NextCases

-----------------------------------------------------------------------------
(* The settings.                                                           *)

\* Carrying out a command sets what that line sets.
LEMMA SettingsAfter ==
  ASSUME TypeOK, Order, EngineUpToDate, SettingsCurrent, CarryOut
  PROVE  SettingsCurrent'
<1>0. /\ current = Len(executed) + 1 /\ current # 0
      /\ Len(executed)' = current /\ UNCHANGED input
      /\ current \in Nat \ {0}
  BY CarryOutStep, CommandInHand, Numbers, AppendAt
     DEF Executed, Order, TypeOK
<1>1. /\ PositionIs(engine.position, input, current)
      /\ OptionIs(engine.option, input, current)
  BY <1>0 DEF SettingsCurrent
<1>2. /\ SetsPosition(input[current]) =>
           PositionIs(NewPosition(input[current]), input, current + 1)
      /\ ~ SetsPosition(input[current]) =>
           PositionIs(engine.position, input, current + 1)
      /\ SetsOption(input[current]) =>
           OptionIs(input[current].value, input, current + 1)
      /\ ~ SetsOption(input[current]) =>
           OptionIs(engine.option, input, current + 1)
  BY <1>0, <1>1, PositionAfter, OptionAfter
<1>3. /\ engine'.position = IF SetsPosition(input[current])
                           THEN NewPosition(input[current])
                           ELSE engine.position
      /\ engine'.option = IF SetsOption(input[current])
                         THEN input[current].value ELSE engine.option
  <2> USE DEF Executing, Apply, engineVars, SetsPosition, SetsOption, Kind,
              Value, NewPosition
  <2>0. engine \in Setting
    BY DEF TypeOK
  <2>a. SetOption \/ Position \/ NewGame => EngineHome
    BY CarryOutStep, SettersFinish
       DEF SetOption, Position, NewGame, Waiting, EngineHome
  <2>1. CASE SetOption
    BY <2>0, <2>a, <2>1 DEF SetOption, Setting
  <2>2. CASE Position
    BY <2>0, <2>a, <2>2 DEF Position, Setting
  <2>3. CASE NewGame
    BY <2>0, <2>a, <2>3 DEF NewGame, Setting
  <2>4. CASE ~ (SetOption \/ Position \/ NewGame)
    BY <2>4 DEF CarryOut, AnswerLine, ReadError, GoBackground, GoHere, Stop,
                Leave
  <2> QED
    BY <2>1, <2>2, <2>3, <2>4
<1>4. /\ PositionIs(engine'.position, input, current + 1)
      /\ OptionIs(engine'.option, input, current + 1)
  BY <1>2, <1>3
<1> QED
  BY <1>0, <1>4 DEF SettingsCurrent

LEMMA SettingsStep ==
  ASSUME TypeOK, Order, EngineUpToDate, SettingsCurrent, [Next]_vars
  PROVE  SettingsCurrent'
<1>1. CASE CarryOut
  BY <1>1, SettingsAfter
<1>2. CASE ~ CarryOut
  <2>1. UNCHANGED <<executed, engine>>
    BY <1>2, NextCases
       DEF Read, SearchEnds, Take, SetAside, Complete, vars, engineVars
  <2>2. Len(executed) + 1 \in 1 .. Len(input) + 1
    BY Numbers DEF Order, Had
  <2> QED
    BY <2>1, <2>2, Numbers, LinesKept, SettingsKept DEF SettingsCurrent
<1> QED
  BY <1>1, <1>2

-----------------------------------------------------------------------------
(* The active search and the answers.                                      *)

\* Only a go that needs no other search changes the search from the loop.
LEMMA CarryOutCases ==
  ASSUME CarryOut
  PROVE  \/ /\ GoBackground /\ ~ Searching
         \/ /\ GoHere /\ ~ Searching /\ UNCHANGED active
         \/ /\ Kind(current) # "go" /\ UNCHANGED <<active, answers>>
            /\ Searching => UNCHANGED engine
<1>1. ~ Waiting /\ current # 0
  BY CarryOutStep
<1>2. CASE GoBackground \/ GoHere
  BY <1>1, <1>2, SettersFinish DEF GoBackground, GoHere, Executing, Waiting
<1>3. CASE SetOption \/ Position \/ NewGame
  <2>1. ~ Searching
    BY <1>1, <1>3, SettersFinish
       DEF SetOption, Position, NewGame, Executing, Waiting
  <2> QED
    BY <1>3, <2>1 DEF SetOption, Position, NewGame, Executing, Apply, engineVars
<1>4. CASE AnswerLine \/ ReadError \/ Stop \/ Leave
  BY <1>4 DEF AnswerLine, ReadError, Stop, Leave, Executing
<1> QED
  BY <1>2, <1>3, <1>4 DEF CarryOut

LEMMA SearchTyped ==
  ASSUME TypeOK
  PROVE  IF Searching THEN active.go \in 1 .. MaxInput ELSE active.go = 0
BY DEF TypeOK, Searching, Search, NoSearch

LEMMA SearchUnderStep ==
  ASSUME TypeOK, Order, EngineUpToDate, SettingsCurrent, SearchUnderSettings,
         AnswersMatchSearches, TypeOK', [Next]_vars
  PROVE  SearchUnderSettings'
<1>0. Len(executed) <= Len(input)
  BY Numbers DEF Order, Had
<1>1. ASSUME UNCHANGED <<executed, engine, answers>>,
             active'.go = active.go, Searching' <=> Searching
      PROVE  SearchUnderSettings'
  <2> SUFFICES ASSUME Searching PROVE SearchUnderSettings'
    BY <1>1 DEF SearchUnderSettings
  <2>1. active.go \in 1 .. Len(executed) /\ active.go \in 1 .. Len(input) + 1
    BY <1>0, Numbers DEF SearchUnderSettings
  <2>2. input'[active.go] = input[active.go]
    BY <1>0, <2>1, Numbers, LinesKept
  <2>3. /\ PositionIs(engine.position, input', active.go)
        /\ OptionIs(engine.option, input', active.go)
    BY <2>1, Numbers, LinesKept, SettingsKept DEF SearchUnderSettings
  <2> QED
    BY <1>1, <2>2, <2>3 DEF SearchUnderSettings, Kind
<1>2. CASE (\E c \in Commands : Read(c)) \/ SearchEnds \/ SetAside
             \/ UNCHANGED vars
  BY <1>1, <1>2 DEF Read, SearchEnds, SetAside, vars, engineVars, Searching
<1>3. CASE Take
  BY <1>1, <1>3, TakeKeepsSearch DEF Take, engineVars
<1>4. CASE Complete
  BY <1>4 DEF Complete, Searching, SearchUnderSettings
<1>5. CASE CarryOut
  <2>0. /\ current = Len(executed) + 1 /\ current # 0 /\ UNCHANGED input
        /\ Len(executed)' = Len(executed) + 1
    BY <1>5, CarryOutStep, CommandInHand, Numbers, AppendAt
       DEF Executed, Order, TypeOK
  <2>1. CASE GoBackground /\ ~ Searching
    <3>1. /\ active'.go = current /\ Kind(current) = "go"
          /\ UNCHANGED <<engine, answers>>
      BY <2>1 DEF GoBackground, Executing, engineVars
    <3>2. \A k \in DOMAIN answers : answers[k].go < current
      BY <2>0, Numbers DEF AnswersMatchSearches, Searched
    <3>3. current \in 1 .. Len(executed)'
      BY <2>0, Numbers
    <3> QED
      BY <2>0, <3>1, <3>2, <3>3
         DEF SearchUnderSettings, SettingsCurrent, Kind
  <2>2. CASE ~ Searching /\ UNCHANGED active
    BY <2>2 DEF SearchUnderSettings, Searching
  <2>3. CASE Searching /\ UNCHANGED <<active, answers, engine>>
    <3>1. active.go \in 1 .. Len(executed)'
      BY <2>0, <2>3, Numbers DEF SearchUnderSettings
    <3> QED
      BY <2>0, <2>3, <3>1 DEF SearchUnderSettings, Kind
  <2> QED
    BY <1>5, <2>1, <2>2, <2>3, CarryOutCases
<1> QED
  BY <1>2, <1>3, <1>4, <1>5, NextCases

\* The answers stay right while the searches that are over stay the same.
LEMMA KeepAnswers ==
  ASSUME TypeOK, Order, AnswersMatchSearches, [Next]_vars,
         UNCHANGED answers, Searched' = Searched,
         loop = "failed" => loop' = "failed"
  PROVE  AnswersMatchSearches'
<1>1. \A k \in DOMAIN answers : answers[k].go \in 1 .. Len(input) + 1
  BY Numbers DEF AnswersMatchSearches, Searched, Order, Had
<1>2. \A k \in DOMAIN answers :
        /\ PositionIs(answers[k].position, input', answers[k].go)
        /\ OptionIs(answers[k].option, input', answers[k].go)
  BY <1>1, Numbers, LinesKept, SettingsKept DEF AnswersMatchSearches
<1> QED
  BY <1>2 DEF AnswersMatchSearches

\* One more search is over, and is answered unless the loop fails.
LEMMA AddAnswer ==
  ASSUME TypeOK, AnswersMatchSearches, UNCHANGED input, loop = "running",
         NEW g \in 1 .. MaxInput, Searched' = Searched \cup {g},
         \/ answers' = Answer(g)
         \/ UNCHANGED answers /\ loop' = "failed",
         \A k \in DOMAIN answers : answers[k].go < g,
         PositionIs(engine.position, input, g),
         OptionIs(engine.option, input, g)
  PROVE  AnswersMatchSearches'
<1>1. CASE answers' = Answer(g)
  <2> DEFINE a == [go |-> g, position |-> engine.position,
                   option |-> engine.option]
  <2>1. a \in AnswerType /\ answers \in Seq(AnswerType)
    BY DEF TypeOK, Setting, AnswerType
  <2>2. /\ Len(answers) \in Nat /\ DOMAIN answers = 1 .. Len(answers)
        /\ DOMAIN answers' = 1 .. Len(answers) + 1
        /\ \A k \in 1 .. Len(answers) : answers'[k] = answers[k]
        /\ answers'[Len(answers) + 1] = a
    BY <1>1, <2>1, AppendAt DEF Answer
  <2>3. a.go = g /\ a.position = engine.position /\ a.option = engine.option
    OBVIOUS
  <2> HIDE DEF a
  <2>4. \A k \in DOMAIN answers' :
          /\ answers'[k].go \in Searched'
          /\ PositionIs(answers'[k].position, input', answers'[k].go)
          /\ OptionIs(answers'[k].option, input', answers'[k].go)
    BY <2>2, <2>3 DEF AnswersMatchSearches
  <2>5. \A j, k \in DOMAIN answers' :
          j < k => answers'[j].go < answers'[k].go
    BY <2>2, <2>3 DEF AnswersMatchSearches
  <2>6. \A i \in Searched' : \E k \in DOMAIN answers' : answers'[k].go = i
    BY <2>2, <2>3 DEF AnswersMatchSearches
  <2> QED
    BY <2>4, <2>5, <2>6 DEF AnswersMatchSearches
<1>2. CASE UNCHANGED answers /\ loop' = "failed"
  BY <1>2 DEF AnswersMatchSearches
<1> QED
  BY <1>1, <1>2

LEMMA AnswersStep ==
  ASSUME Inv, TypeOK', [Next]_vars
  PROVE  AnswersMatchSearches'
<1> USE DEF Inv
<1>0. Len(executed) <= Len(input)
  BY Numbers DEF Order, Had
<1>1. ASSUME UNCHANGED <<executed, answers, loop>>, active'.go = active.go
      PROVE  AnswersMatchSearches'
  <2>1. \A i \in 1 .. Len(executed) : input'[i] = input[i]
    BY <1>0, Numbers, LinesKept
  <2>2. Searched' = Searched
    BY <1>1, <2>1 DEF Searched, Kind
  <2> QED
    BY <1>1, <2>2, KeepAnswers
<1>2. CASE (\E c \in Commands : Read(c)) \/ SearchEnds \/ SetAside
             \/ UNCHANGED vars
  BY <1>1, <1>2 DEF Read, SearchEnds, SetAside, vars, engineVars
<1>3. CASE Take
  BY <1>1, <1>3, TakeKeepsSearch DEF Take, engineVars
<1>4. CASE Complete
  <2>1. Searching
    <3>1. EndAnnounced(channel, Searching /\ ~ thread)
      BY <1>4, AnnouncedIs DEF Complete, TypeOK
    <3> QED
      BY <1>4, <3>1, EndTail DEF Complete, TypeOK
  <2>2. /\ UNCHANGED <<input, executed>> /\ active' = NoSearch
        /\ loop = "running"
        /\ \/ answers' = Answer(active.go)
           \/ UNCHANGED answers /\ loop' = "failed"
    BY <1>4 DEF Complete
  <2>3. active.go \in 1 .. MaxInput
    BY <2>1, SearchTyped
  <2>4. Searched' = Searched \cup {active.go}
    BY <2>1, <2>2 DEF Searched, Kind, NoSearch, SearchUnderSettings
  <2> QED
    <3>1. /\ PositionIs(engine.position, input, active.go)
          /\ OptionIs(engine.option, input, active.go)
          /\ \A k \in DOMAIN answers : answers[k].go < active.go
      BY <2>1 DEF SearchUnderSettings, EngineUpToDate
    <3> QED
      BY <2>2, <2>3, <2>4, <3>1, AddAnswer
<1>5. CASE CarryOut
  <2>0. /\ current = Len(executed) + 1 /\ current # 0 /\ UNCHANGED input
        /\ Len(executed)' = Len(executed) + 1 /\ loop = "running"
        /\ current \in 1 .. MaxInput
    BY <1>5, CarryOutStep, CommandInHand, Numbers, AppendAt
       DEF Executed, Order, TypeOK
  <2>1. CASE GoBackground /\ ~ Searching
    <3>1. /\ active'.go = current /\ UNCHANGED answers
      BY <2>1 DEF GoBackground, engineVars
    <3>2. active.go = 0
      BY <2>1, SearchTyped
    <3>3. Searched' = Searched
      BY <2>0, <3>1, <3>2, Numbers DEF Searched, Kind
    <3> QED
      BY <2>0, <3>1, <3>3, KeepAnswers
  <2>2. CASE GoHere /\ ~ Searching /\ UNCHANGED active
    <3>1. /\ \/ answers' = Answer(current)
             \/ UNCHANGED answers /\ loop' = "failed"
          /\ Kind(current) = "go"
      BY <2>2 DEF GoHere, Executing
    <3>2. active.go = 0
      BY <2>2, SearchTyped
    <3>3. Searched' = Searched \cup {current}
      BY <2>0, <2>2, <3>1, <3>2, Numbers DEF Searched, Kind
    <3>4. \A k \in DOMAIN answers : answers[k].go < current
      BY <2>0, Numbers DEF AnswersMatchSearches, Searched
    <3> QED
      <4>1. /\ PositionIs(engine.position, input, current)
            /\ OptionIs(engine.option, input, current)
        BY <2>0 DEF SettingsCurrent, EngineUpToDate
      <4> QED
        BY <2>0, <3>1, <3>3, <3>4, <4>1, AddAnswer
  <2>3. CASE Kind(current) # "go" /\ UNCHANGED <<active, answers>>
    <3>1. Searched' = Searched
      BY <2>0, <2>3, Numbers DEF Searched, Kind
    <3> QED
      BY <2>0, <2>3, <3>1, KeepAnswers
  <2> QED
    BY <1>5, <2>1, <2>2, <2>3, CarryOutCases
<1> QED
  BY <1>2, <1>3, <1>4, <1>5, NextCases

-----------------------------------------------------------------------------
(* The theorems.                                                           *)

LEMMA InitInv == Init => Inv
<1> SUFFICES ASSUME Init PROVE Inv
  OBVIOUS
<1>1. TypeOK
  <2>1. Fresh \in Setting /\ [Fresh EXCEPT !.option = OwnOption] \in Setting
    BY UciConstants DEF Fresh, Setting
  <2>2. /\ Len(input) = 0 /\ 0 <= MaxInput /\ current \in 0 .. 0
        /\ \A T : <<>> \in Seq(T)
    BY UciConstants DEF Init
  <2> QED
    BY <2>1, <2>2 DEF Init, TypeOK
<1>2. Order /\ ChannelOrder
  BY DEF Init, Order, ChannelOrder, Had, Hand, RestInOrder
<1>3. EngineUpToDate /\ ThreadSearches
  BY DEF Init, Fresh, OptionSet, EngineUpToDate, ThreadSearches, Searching
<1>4. SettingsCurrent
  BY DEF Init, SettingsCurrent, Fresh, PositionIs, OptionIs, PositionsBefore,
         OptionsBefore
<1>5. SearchUnderSettings /\ AnswersMatchSearches
  BY DEF Init, SearchUnderSettings, Searching, AnswersMatchSearches, Searched
<1> QED
  BY <1>1, <1>2, <1>3, <1>4, <1>5 DEF Inv

LEMMA InvStep == Inv /\ [Next]_vars => Inv'
<1> SUFFICES ASSUME Inv, [Next]_vars PROVE Inv'
  OBVIOUS
<1>1. TypeOK'
  BY TypeStep DEF Inv
<1>2. Order' /\ ChannelOrder'
  BY OrderStep DEF Inv
<1>3. EngineUpToDate' /\ ThreadSearches'
  BY <1>1, EngineStep DEF Inv
<1>4. SettingsCurrent'
  BY SettingsStep DEF Inv
<1>5. SearchUnderSettings'
  BY <1>1, SearchUnderStep DEF Inv
<1>6. AnswersMatchSearches'
  BY <1>1, AnswersStep
<1> QED
  BY <1>1, <1>2, <1>3, <1>4, <1>5, <1>6 DEF Inv

\* Order says place by place what CommandsInOrder says of whole sequences.
LEMMA OrderIsCommandsInOrder == Inv => CommandsInOrder
<1> SUFFICES ASSUME Inv PROVE CommandsInOrder
  OBVIOUS
<1> USE DEF Inv
<1>1. /\ executed \in Seq(Nat) /\ pending \in Seq(Nat) /\ InHand \in Seq(Nat)
      /\ Len(InHand) = Hand
      /\ DOMAIN channel = 1 .. Len(channel)
  BY UciConstants DEF TypeOK, InHand, Hand
<1>2. Received \in Seq(Nat) /\ Len(Received) = Had
  <2>1. executed \o InHand \in Seq(Nat)
        /\ Len(executed \o InHand) = Len(executed) + Len(InHand)
    BY <1>1, ConcatProperties
  <2> QED
    BY <1>1, <2>1, ConcatProperties DEF Received, Had
<1>3. \A i \in 1 .. Had : Received[i] = i
  BY <1>1, <1>2, Numbers DEF Received, InHand, Hand, Had, Order
<1>4. Received = [i \in 1 .. Len(Received) |-> i]
  BY <1>2, <1>3
<1> QED
  BY <1>1, <1>2, <1>4
     DEF CommandsInOrder, ChannelOrder, RestInOrder, InputAt, IsInput

\* Every variable keeps its type.
THEOREM TypeCorrect == Spec => []TypeOK
<1>1. Inv => TypeOK
  BY DEF Inv
<1> QED
  BY <1>1, InitInv, InvStep, PTL DEF Spec

\* Commands are carried out in the order they were read, none lost and none
\* twice, whatever finish_active_search put aside and whoever fails.
THEOREM CommandsAlwaysInOrder == Spec => []CommandsInOrder
BY OrderIsCommandsInOrder, InitInv, InvStep, PTL DEF Spec

\* The engine never misses a setting, has the option it was built with until
\* one is set, and a search's end is announced once.
THEOREM EngineAlwaysUpToDate == Spec => []EngineUpToDate
<1>1. Inv => EngineUpToDate
  BY DEF Inv
<1> QED
  BY <1>1, InitInv, InvStep, PTL DEF Spec

\* Every search that is over has one bestmove, in order, for the position and
\* the option that its go was given under.
THEOREM AnswersAlwaysMatch == Spec => []AnswersMatchSearches
<1>1. Inv => AnswersMatchSearches
  BY DEF Inv
<1> QED
  BY <1>1, InitInv, InvStep, PTL DEF Spec
=============================================================================
