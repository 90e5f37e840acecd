------------------------------- MODULE UciLoop -------------------------------
(***************************************************************************)
(* The chess engine's UCI loop, run_uci_loop.  Three threads: a reader     *)
(* that sends the lines of the input to a channel, a background thread per *)
(* timed or infinite search, which owns the engine while it searches and   *)
(* sends it back through the same channel, and the loop itself.            *)
(*                                                                         *)
(* A command that needs the engine first waits for the search to end; the  *)
(* input that arrives meanwhile is put aside in pending_inputs, which the  *)
(* loop serves before the channel.                                         *)
(*                                                                         *)
(* Abstracted: the text of the lines (parse_uci_line), the moves, what a   *)
(* search computes.  A position and an option are values that can be told  *)
(* apart; an answer records under which of them the search ran.            *)
(***************************************************************************)
EXTENDS Integers, Sequences

CONSTANTS
  Positions,    \* the positions a position command can build
  StartPos,     \* startpos()
  Options,      \* the values an engine option can have
  DefaultOption, \* UciOptions::default, what the loop announces
  OwnOption,    \* what the engine handed to the loop was built with
  Commands,     \* the commands the reader may read in this instance
  MaxInput,     \* bound: lines read, the end of the input included
  Faults        \* whether searches panic and output fails

None == "none"

\* A line the loop answers, or ignores, without the engine: uci, debug,
\* isready, a blank line, a line that does not parse.
Line == [kind |-> "line", value |-> None]
Illegal == "illegal"

\* What a go is limited by: nothing until it is told to stop, a deadline, the
\* clock of the other side only (which sets no deadline), or a depth or a
\* number of nodes.
Limits == {"infinite", "timed", "clockless", "fixed"}

Command ==
  [kind : {"line", "ucinewgame", "stop", "quit", "eof", "error"},
   value : {None}]
    \cup [kind : {"position"}, value : Positions \cup {Illegal}]
    \cup [kind : {"setoption"}, value : Options \cup {Illegal}]
    \cup [kind : {"go"}, value : Limits]

ASSUME UciConstants ==
  /\ StartPos \in Positions /\ {DefaultOption, OwnOption} \subseteq Options
  /\ Illegal \notin Positions \cup Options
  /\ Commands \subseteq Command
  /\ MaxInput \in Nat
  /\ Faults \in BOOLEAN

VARIABLES
  input,     \* what the reader has read so far; channels carry its indices
  channel,   \* the events sent and not received
  pending,   \* pending_inputs
  loop,      \* "running", "done" (Ok) or "failed" (Err, or a panic)
  current,   \* the command in the loop's hands, 0 between two events
  active,    \* None or the ActiveSearch, with the go it serves
  thread,    \* whether the search thread is still searching
  state,     \* UciState: the position and the option
  engine,    \* the same in the engine, wherever it is
  answers,   \* the bestmoves written: go, position, option
  executed   \* history: the commands carried out, in that order

vars == <<input, channel, pending, loop, current, active, thread, state,
          engine, answers, executed>>
engineVars == <<state, engine, answers>>

Setting == [position : Positions, option : Options]
Search == [go : 1 .. MaxInput, infinite : BOOLEAN, stopped : BOOLEAN]
Event == [type : {"input"}, index : 1 .. MaxInput]
           \cup [type : {"finished", "panicked"}, index : {0}]
NoSearch == [go |-> 0, infinite |-> FALSE, stopped |-> FALSE]

TypeOK ==
  /\ input \in Seq(Command) /\ Len(input) <= MaxInput
  /\ channel \in Seq(Event)
  /\ pending \in Seq(1 .. MaxInput)
  /\ loop \in {"running", "done", "failed"}
  /\ current \in 0 .. Len(input)
  /\ active \in Search \cup {NoSearch}
  /\ thread \in BOOLEAN
  /\ state \in Setting /\ engine \in Setting
  /\ answers \in Seq([go : 1 .. MaxInput, position : Positions,
                      option : Options])
  /\ executed \in Seq(1 .. MaxInput)

Fresh == [position |-> StartPos, option |-> DefaultOption]

\* The loop hands the engine a position, and no option.
Init ==
  /\ input = <<>> /\ channel = <<>> /\ pending = <<>>
  /\ loop = "running" /\ current = 0
  /\ active = NoSearch /\ thread = FALSE
  /\ state = Fresh /\ engine = [Fresh EXCEPT !.option = OwnOption]
  /\ answers = <<>> /\ executed = <<>>

Searching == active # NoSearch
EngineHome == ~ Searching

-----------------------------------------------------------------------------
(* The threads beside the loop.                                            *)

ReaderClosed == input # <<>> /\ input[Len(input)].kind \in {"eof", "error"}

\* spawn_input_reader: a read error is sent and ends the reader; otherwise
\* the end of the input is an event of its own.
Read(c) ==
  /\ loop = "running" /\ ~ ReaderClosed
  /\ Len(input) < MaxInput
  /\ input' = Append(input, c)
  /\ channel' = Append(channel, [type |-> "input", index |-> Len(input) + 1])
  /\ UNCHANGED <<pending, loop, current, active, thread, executed>>
  /\ UNCHANGED engineVars

\* The search ends, because it was told to stop, at its deadline or at the
\* depth limit, and the thread sends engine and result, or its panic.
SearchEnds ==
  /\ thread /\ loop = "running"
  /\ thread' = FALSE
  /\ \E t \in {"finished"} \cup (IF Faults THEN {"panicked"} ELSE {}) :
       channel' = Append(channel, [type |-> t, index |-> 0])
  /\ UNCHANGED <<input, pending, loop, current, active, executed>>
  /\ UNCHANGED engineVars

-----------------------------------------------------------------------------
(* The loop.                                                               *)

Kind(i) == input[i].kind
Value(i) == input[i].value

\* Faulty variant: a new setting does not wait for the search.
FinishesUnlessSetting(i) ==
  Kind(i) \in {"ucinewgame", "go", "stop", "quit", "eof"}

\* The commands that call finish_active_search before anything else.
Finishes(i) ==
  Kind(i) \in {"setoption", "ucinewgame", "position", "go", "stop", "quit",
               "eof"}

\* Faulty variant: waiting never stops a search, not even an infinite one.
StopsSearchNever(i) == Kind(i) \in {"stop", "quit"}

\* finish_active_search: only stop and quit stop a timed search; the others
\* stop an infinite one and wait for the rest.
StopsSearch(i) == Kind(i) \in {"stop", "quit"} \/ active.infinite

Stopped(i) ==
  IF Searching /\ Finishes(i) /\ StopsSearch(i)
  THEN [active EXCEPT !.stopped = TRUE] ELSE active

\* The next event is a command: one put aside before one from the channel.
Take ==
  /\ loop = "running" /\ current = 0
  /\ \/ /\ pending # <<>>
        /\ current' = Head(pending) /\ pending' = Tail(pending)
        /\ UNCHANGED channel
     \/ /\ pending = <<>> /\ channel # <<>> /\ Head(channel).type = "input"
        /\ current' = Head(channel).index /\ channel' = Tail(channel)
        /\ UNCHANGED pending
  /\ active' = Stopped(current')
  /\ UNCHANGED <<input, loop, thread, executed>>
  /\ UNCHANGED engineVars

\* The loop waits in finish_active_search for the search to end.
Waiting == current # 0 /\ Finishes(current) /\ Searching

\* Faulty variant: an input received while waiting is served before the others.
SetAsideInFront ==
  /\ loop = "running" /\ Waiting
  /\ channel # <<>> /\ Head(channel).type = "input"
  /\ pending' = <<Head(channel).index>> \o pending
  /\ channel' = Tail(channel)
  /\ UNCHANGED <<input, loop, current, active, thread, executed>>
  /\ UNCHANGED engineVars

\* An input received while waiting goes behind those already put aside.
SetAside ==
  /\ loop = "running" /\ Waiting
  /\ channel # <<>> /\ Head(channel).type = "input"
  /\ pending' = Append(pending, Head(channel).index)
  /\ channel' = Tail(channel)
  /\ UNCHANGED <<input, loop, current, active, thread, executed>>
  /\ UNCHANGED engineVars

Answer(go) ==
  Append(answers, [go |-> go, position |-> engine.position,
                   option |-> engine.option])

\* Writing to the output fails only in the runs with faults.
Written == \/ loop' = loop
           \/ Faults /\ loop' = "failed"

\* complete_active_search, from the loop's own receive (nothing put aside
\* is left) or from finish_active_search.  A panicked search ends the loop.
Complete ==
  /\ loop = "running" /\ channel # <<>> /\ Head(channel).type # "input"
  /\ Waiting \/ (current = 0 /\ pending = <<>>)
  /\ channel' = Tail(channel)
  /\ active' = NoSearch
  /\ \/ /\ Head(channel).type = "finished" /\ Written
        /\ answers' = Answer(active.go)
     \/ /\ Head(channel).type = "panicked" /\ loop' = "failed"
        /\ UNCHANGED answers
  /\ UNCHANGED <<input, pending, current, thread, state, engine, executed>>

\* The loop is about to carry out a command of this kind.
Executing(kind) ==
  /\ loop = "running" /\ current # 0 /\ ~ Waiting
  /\ Kind(current) = kind

Executed ==
  /\ executed' = Append(executed, current) /\ current' = 0
  /\ UNCHANGED <<input, channel, pending>>

\* Faulty variant: the engine is not told.
ApplyToState(part, value) ==
  /\ state' = [state EXCEPT ![part] = value]
  /\ UNCHANGED <<engine, answers>>

\* Set a part of UciState, and of the engine if it is at home.
Apply(part, value) ==
  /\ state' = [state EXCEPT ![part] = value]
  /\ engine' = IF EngineHome THEN [engine EXCEPT ![part] = value] ELSE engine
  /\ UNCHANGED answers

AnswerLine ==
  /\ Executing("line") /\ Executed /\ Written
  /\ UNCHANGED <<active, thread, state, engine, answers>>

\* A read error ends the loop at once, whatever is being searched.
ReadError ==
  /\ Executing("error") /\ Executed /\ loop' = "failed"
  /\ UNCHANGED <<active, thread, state, engine, answers>>

\* An option or a position that is not valid is reported and changes nothing.
SetOption ==
  /\ Executing("setoption") /\ Executed
  /\ IF Value(current) = Illegal
     THEN Written /\ UNCHANGED engineVars
     ELSE Apply("option", Value(current)) /\ UNCHANGED loop
  /\ UNCHANGED <<active, thread>>

Position ==
  /\ Executing("position") /\ Executed
  /\ IF Value(current) = Illegal
     THEN Written /\ UNCHANGED engineVars
     ELSE Apply("position", Value(current)) /\ UNCHANGED loop
  /\ UNCHANGED <<active, thread>>

NewGame ==
  /\ Executing("ucinewgame") /\ Executed
  /\ Apply("position", StartPos)
  /\ UNCHANGED <<loop, active, thread>>

\* start_background_search: the engine moves to a thread of its own.
GoBackground ==
  /\ Executing("go") /\ Value(current) # "fixed" /\ Executed
  /\ active' = [go |-> current, infinite |-> Value(current) = "infinite",
                stopped |-> FALSE]
  /\ thread' = TRUE
  /\ UNCHANGED loop /\ UNCHANGED engineVars

\* Any other go searches in the loop; a panic there unwinds out of it.
GoHere ==
  /\ Executing("go") /\ Value(current) = "fixed" /\ Executed
  /\ \/ Written /\ answers' = Answer(current)
     \/ Faults /\ loop' = "failed" /\ UNCHANGED answers
  /\ UNCHANGED <<active, thread, state, engine>>

Stop ==
  /\ Executing("stop") /\ Executed
  /\ UNCHANGED <<loop, active, thread, state, engine, answers>>

\* quit and the end of the input flush the output and leave the loop.
Leave ==
  /\ Executing("quit") \/ Executing("eof")
  /\ Executed
  /\ \/ loop' = "done"
     \/ Faults /\ loop' = "failed"
  /\ UNCHANGED <<active, thread, state, engine, answers>>

LoopStep ==
  \/ Take \/ SetAside \/ Complete
  \/ AnswerLine \/ ReadError \/ SetOption \/ Position \/ NewGame
  \/ GoBackground \/ GoHere \/ Stop \/ Leave

Next == (\E c \in Commands : Read(c)) \/ SearchEnds \/ LoopStep

Spec == Init /\ [][Next]_vars

\* The loop's thread runs; a search told to stop does (it polls the token),
\* and a timed one ends at its deadline.  Nobody need send anything more,
\* and no other search need end by itself.
FairSpec ==
  /\ Spec
  /\ WF_vars(LoopStep)
  /\ WF_vars(SearchEnds /\ (active.stopped \/ Value(active.go) = "timed"))

-----------------------------------------------------------------------------
(* Properties.                                                             *)

IsInput(k) == channel[k].type = "input"
InHand == IF current = 0 THEN <<>> ELSE <<current>>
\* The commands that have left the channel.
Received == executed \o InHand \o pending

\* Commands are carried out in the order they were read, none is lost and
\* none is done twice, whatever was put aside while a search was ending:
\* what the loop has had, and has still to do, are the first lines read, in
\* order, and the channel holds the others, in order.
CommandsInOrder ==
  /\ Received = [i \in 1 .. Len(Received) |-> i]
  /\ \A i \in Len(Received) + 1 .. Len(input) :
       \E k \in DOMAIN channel : IsInput(k) /\ channel[k].index = i
  /\ \A k \in DOMAIN channel : IsInput(k) =>
       channel[k].index \in Len(Received) + 1 .. Len(input)
  /\ \A j, k \in DOMAIN channel :
       j < k /\ IsInput(j) /\ IsInput(k) => channel[j].index < channel[k].index

\* What the lines before line i set, going by the order they were read.
SetsPosition(c) == \/ c.kind = "ucinewgame"
                   \/ c.kind = "position" /\ c.value # Illegal
SetsOption(c) == c.kind = "setoption" /\ c.value # Illegal
NewPosition(c) == IF c.kind = "ucinewgame" THEN StartPos ELSE c.value

PositionsBefore(lines, i) == {j \in 1 .. i - 1 : SetsPosition(lines[j])}
OptionsBefore(lines, i) == {j \in 1 .. i - 1 : SetsOption(lines[j])}
IsLatest(j, indices) == j \in indices /\ \A k \in indices : k <= j

PositionIs(p, lines, i) ==
  \/ PositionsBefore(lines, i) = {} /\ p = StartPos
  \/ \E j \in PositionsBefore(lines, i) :
       IsLatest(j, PositionsBefore(lines, i)) /\ p = NewPosition(lines[j])

OptionIs(o, lines, i) ==
  \/ OptionsBefore(lines, i) = {} /\ o = OwnOption
  \/ \E j \in OptionsBefore(lines, i) :
       IsLatest(j, OptionsBefore(lines, i)) /\ o = lines[j].value

\* The go commands carried out whose search is over.
Searched == {i \in 1 .. Len(executed) : Kind(i) = "go" /\ i # active.go}

\* One bestmove for each go whose search is over, in the order of the go
\* commands, each searched under the position and the option that the
\* commands before that go had set (or that the engine came with, if none
\* had); none for anything else.  A loop that
\* failed, by a panic or a failing output, owes no answer.
AnswersMatchSearches ==
  /\ \A k \in DOMAIN answers :
       /\ answers[k].go \in Searched
       /\ PositionIs(answers[k].position, input, answers[k].go)
       /\ OptionIs(answers[k].option, input, answers[k].go)
  /\ \A j, k \in DOMAIN answers : j < k => answers[j].go < answers[k].go
  /\ loop # "failed" =>
       \A i \in Searched : \E k \in DOMAIN answers : answers[k].go = i

OptionSet == \E k \in DOMAIN executed : SetsOption(input[executed[k]])

\* While a search has the engine neither the position nor the option is
\* changed, so when the engine is back it agrees with the loop's state in the
\* position, and in the option as soon as one was set: until then it has the
\* option it was built with, whatever the loop's state says.  And at most one
\* search exists, whose end is announced exactly once.
EngineUpToDate ==
  /\ engine.position = state.position
  /\ engine.option = IF OptionSet THEN state.option ELSE OwnOption
  /\ loop = "running" =>
       /\ \A j, k \in DOMAIN channel : ~ IsInput(j) /\ ~ IsInput(k) => j = k
       /\ (\E k \in DOMAIN channel : ~ IsInput(k)) <=> (Searching /\ ~ thread)

\* The first line after line i for which the loop waits.
NextFinishing(i, j) ==
  /\ j \in i + 1 .. Len(input) /\ Finishes(j)
  /\ \A k \in i + 1 .. j - 1 : ~ Finishes(k)

\* Every go that was carried out is answered, unless the loop failed: if its
\* search has a deadline or a limit, or is infinite and a command that waits
\* for it was sent after it, or has neither and the first such command stops
\* it (another one would wait with it, and a stop behind that is put aside).
EverySearchAnswered ==
  \A i \in 1 .. MaxInput :
    (/\ i \in {executed[k] : k \in DOMAIN executed} /\ Kind(i) = "go"
     /\ \/ Value(i) \in {"timed", "fixed"}
        \/ \E j \in 1 .. MaxInput :
             /\ NextFinishing(i, j)
             /\ Value(i) = "infinite" \/ Kind(j) \in {"stop", "quit"})
      ~> (loop = "failed" \/ \E k \in DOMAIN answers : answers[k].go = i)
=============================================================================
