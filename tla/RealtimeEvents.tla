--------------------------- MODULE RealtimeEvents ---------------------------
(***************************************************************************)
(* One agent subscribed to Workplane's SSE stream (serveSSE and produceSSE, *)
(* internal/app/realtime.go), on top of the committed feed.                *)
(*                                                                         *)
(* Two goroutines serve a connection.  The producer polls the feed and     *)
(* offers each event the agent may read to a buffer of BufferSize          *)
(* messages; when the buffer is full it leaves "rate_limited" in a second  *)
(* channel and ends.  The handler writes to the connection what it         *)
(* receives; when both channels are ready Go chooses either, so a terminal *)
(* message can overtake the events in the buffer, which are then dropped.  *)
(* There are no acknowledgements: the agent resumes after the id of the    *)
(* last frame it read, and a terminal frame has none.                      *)
(*                                                                         *)
(* Cursors and permissions are abstracted as in RealtimeSocket, and where a *)
(* connection starts is decided by the same code (resolveRealtimeStart).   *)
(***************************************************************************)
EXTENDS CommittedFeed, Sequences, FiniteSets

CONSTANTS
  Reader,      \* realtime-v1, the consumer whose checkpoint bounds the feed
  BufferSize,  \* Config.RealtimeBuffer
  BatchSize,   \* LIMIT of the feed query
  NoCursor,    \* the agent has no position to resume from
  MaxFrames,   \* bound: frames in the connection and not read
  MaxFaults    \* bound: lost connections, write errors, failed polls and
               \* moved windows

VARIABLES
  minimum,   \* realtime_retention.minimum_cursor_sequence
  handler,   \* serveSSE: "closed" or "serving"
  producer,  \* produceSSE: "ended", "polling" or "offering"
  current,   \* the position up to which the producer has examined the feed
  batch,     \* the records of this poll still to be examined
  messages,  \* the buffered channel
  terminal,  \* the channel of one terminal message: its content
  frames,    \* frames written and not read by the agent
  cursor,    \* the agent's Last-Event-ID, NoCursor before its first
  origin,    \* where it started without a cursor
  seen,      \* events it has read since then
  refused,   \* events it could not read when they were examined
  faults     \* faults so far

producerVars == <<producer, current, batch>>
channelVars == <<messages, terminal>>
agentVars == <<cursor, origin, seen>>
vars == <<feedVars, minimum, handler, producerVars, channelVars, frames,
          agentVars, refused, faults>>

Positions == Sequences \cup {0}

Message ==
  [type : {"event"}, cursor : Sequences]
    \cup [type : {"ready", "heartbeat"}, cursor : Positions]
Terminal == [type : {"rate_limited", "ended"}, cursor : {NoCursor}]

TypeOK ==
  /\ log \subseteq Sequences
  /\ position \in [Consumers -> Positions]
  /\ minimum \in Positions
  /\ handler \in {"closed", "serving"}
  /\ producer \in {"ended", "polling", "offering"}
  /\ current \in Positions
  /\ batch \subseteq Sequences
  /\ messages \in Seq(Message)
  /\ Len(messages) <= BufferSize
  /\ terminal \in {<<>>} \cup {<<m>> : m \in Terminal}
  /\ frames \in Seq(Message \cup Terminal)
  /\ cursor \in Positions \cup {NoCursor}
  /\ origin \in Positions
  /\ seen \subseteq Sequences
  /\ refused \subseteq Sequences
  /\ faults \in 0 .. MaxFaults

-----------------------------------------------------------------------------
(* The feed.                                                               *)

FeedStep ==
  /\ \/ \E e \in Sequences \ log : CommitEvents({e})
     \/ \E e \in log : AdvanceTo(Reader, e)
  /\ UNCHANGED <<minimum, handler, producerVars, channelVars, frames,
                 agentVars, refused, faults>>

\* The resume window is moved by an operator.
MoveWindow(m) ==
  /\ faults < MaxFaults
  /\ m # minimum
  /\ minimum' = m
  /\ faults' = faults + 1
  /\ UNCHANGED <<feedVars, handler, producerVars, channelVars, frames,
                 agentVars, refused>>

-----------------------------------------------------------------------------
(* resolveRealtimeStart: where a connection starts.                        *)

MayConnect == handler = "closed" /\ frames = <<>>

Open(p) ==
  /\ handler' = "serving"
  /\ producer' = "polling"
  /\ current' = p
  /\ batch' = {}
  /\ messages' = <<>>
  /\ terminal' = <<>>
  /\ frames' = <<[type |-> "ready", cursor |-> p]>>

ConnectFresh ==
  /\ MayConnect
  /\ cursor = NoCursor
  /\ Open(position[Reader])
  /\ origin' = position[Reader]
  /\ seen' = {}
  /\ refused' = {}
  /\ UNCHANGED <<feedVars, minimum, cursor, faults>>

Resumable == minimum <= cursor /\ cursor <= position[Reader]

Resume ==
  /\ MayConnect
  /\ cursor # NoCursor
  /\ Resumable
  /\ Open(cursor)
  /\ UNCHANGED <<feedVars, minimum, agentVars, refused, faults>>

\* 409: the agent reads the current state and starts over.
SnapshotRequired ==
  /\ MayConnect
  /\ cursor # NoCursor
  /\ ~Resumable
  /\ cursor' = NoCursor
  /\ UNCHANGED <<feedVars, minimum, handler, producerVars, channelVars, frames,
                 origin, seen, refused, faults>>

-----------------------------------------------------------------------------
(* produceSSE.                                                             *)

FeedAfter(p) ==
  LET later == {e \in Feed(Reader) : e > p}
  IN  {e \in later : Cardinality({f \in later : f < e}) < BatchSize}

\* The tick: still authorized, and a batch is there.
Poll ==
  /\ producer = "polling"
  /\ batch' = FeedAfter(current)
  /\ producer' = "offering"
  /\ UNCHANGED <<feedVars, minimum, handler, current, channelVars, frames,
                 agentVars, refused, faults>>

\* Lost authority or a failed query.
PollFails ==
  /\ producer = "polling"
  /\ faults < MaxFaults
  /\ faults' = faults + 1
  /\ producer' = "ended"
  /\ terminal' = <<[type |-> "ended", cursor |-> NoCursor]>>
  /\ UNCHANGED <<feedVars, minimum, handler, current, batch, messages, frames,
                 agentVars, refused>>

Examining(e) == e \in batch /\ \A other \in batch : e <= other

StepOver(e) ==
  /\ producer = "offering"
  /\ Examining(e)
  /\ batch' = batch \ {e}
  /\ current' = e
  /\ refused' = refused \cup {e}
  /\ UNCHANGED <<feedVars, minimum, handler, producer, channelVars, frames,
                 agentVars, faults>>

\* Faulty variant: a configured 0 does not fall back to the default size.
BufferFullUnset == Len(messages) >= 0

BufferFull == Len(messages) >= BufferSize

\* Faulty variant: a full buffer ends the producer and says nothing.
OfferSilently(type, p, next) ==
  /\ UNCHANGED terminal
  /\ IF BufferFull
       THEN producer' = "ended" /\ UNCHANGED messages
       ELSE /\ messages' = Append(messages, [type |-> type, cursor |-> p])
            /\ producer' = next

\* offer: the message is buffered, or the producer leaves rate_limited, if the
\* terminal channel is empty, and ends.
Offer(type, p, next) ==
  \/ /\ ~BufferFull
     /\ messages' = Append(messages, [type |-> type, cursor |-> p])
     /\ producer' = next
     /\ UNCHANGED terminal
  \/ /\ BufferFull
     /\ terminal' = IF terminal # <<>> THEN terminal
                    ELSE <<[type |-> "rate_limited", cursor |-> NoCursor]>>
     /\ producer' = "ended"
     /\ UNCHANGED messages

OfferEvent(e) ==
  /\ producer = "offering"
  /\ Examining(e)
  /\ batch' = batch \ {e}
  /\ current' = e
  /\ Offer("event", e, "offering")
  /\ UNCHANGED <<feedVars, minimum, handler, frames, agentVars, refused,
                 faults>>

\* The batch is examined and no heartbeat is due.
EndBatch ==
  /\ producer = "offering"
  /\ batch = {}
  /\ producer' = "polling"
  /\ UNCHANGED <<feedVars, minimum, handler, current, batch, channelVars,
                 frames, agentVars, refused, faults>>

\* A heartbeat is due.
Heartbeat ==
  /\ producer = "offering"
  /\ batch = {}
  /\ Offer("heartbeat", current, "polling")
  /\ UNCHANGED <<feedVars, minimum, handler, current, batch, frames,
                 agentVars, refused, faults>>

-----------------------------------------------------------------------------
(* serveSSE.                                                               *)

\* The connection is over for the server: the context ends the producer and
\* nobody receives from the channels again.
CloseStream ==
  /\ handler' = "closed"
  /\ producer' = "ended"
  /\ batch' = {}
  /\ messages' = <<>>
  /\ terminal' = <<>>

WriteMessage ==
  /\ handler = "serving"
  /\ messages # <<>>
  /\ Len(frames) < MaxFrames
  /\ frames' = Append(frames, Head(messages))
  /\ messages' = Tail(messages)
  /\ UNCHANGED <<feedVars, minimum, handler, producerVars, terminal, agentVars,
                 refused, faults>>

WriteTerminal ==
  /\ handler = "serving"
  /\ terminal # <<>>
  /\ Len(frames) < MaxFrames
  /\ frames' = Append(frames, Head(terminal))
  /\ CloseStream
  /\ UNCHANGED <<feedVars, minimum, current, agentVars, refused, faults>>

\* A write misses its deadline, or the request or the process ends.
EndHandler ==
  /\ handler = "serving"
  /\ faults < MaxFaults
  /\ faults' = faults + 1
  /\ CloseStream
  /\ UNCHANGED <<feedVars, minimum, current, frames, agentVars, refused>>

-----------------------------------------------------------------------------
(* The agent.                                                              *)

ReadFrame ==
  /\ frames # <<>>
  /\ cursor' = IF Head(frames).cursor = NoCursor THEN cursor
                                                 ELSE Head(frames).cursor
  /\ seen' = IF Head(frames).type = "event"
               THEN seen \cup {Head(frames).cursor} ELSE seen
  /\ frames' = Tail(frames)
  /\ UNCHANGED <<feedVars, minimum, handler, producerVars, channelVars, origin,
                 refused, faults>>

\* The connection is lost with the frames in it.
LoseConnection ==
  /\ handler = "serving" \/ frames # <<>>
  /\ faults < MaxFaults
  /\ faults' = faults + 1
  /\ frames' = <<>>
  /\ CloseStream
  /\ UNCHANGED <<feedVars, minimum, current, agentVars, refused>>

-----------------------------------------------------------------------------
Init ==
  /\ FeedInit
  /\ minimum = 0
  /\ handler = "closed"
  /\ producer = "ended"
  /\ current = 0
  /\ batch = {}
  /\ messages = <<>>
  /\ terminal = <<>>
  /\ frames = <<>>
  /\ cursor = NoCursor
  /\ origin = 0
  /\ seen = {}
  /\ refused = {}
  /\ faults = 0

Connect == ConnectFresh \/ Resume \/ SnapshotRequired

Produce ==
  \/ Poll
  \/ \E e \in Sequences : StepOver(e) \/ OfferEvent(e)
  \/ EndBatch
  \/ Heartbeat

Next ==
  \/ FeedStep
  \/ \E m \in Positions : MoveWindow(m)
  \/ Connect
  \/ Produce
  \/ PollFails
  \/ WriteMessage
  \/ WriteTerminal
  \/ EndHandler
  \/ ReadFrame
  \/ LoseConnection

Spec == Init /\ [][Next]_vars

-----------------------------------------------------------------------------
(* Properties.                                                             *)

\* What is on its way through the connection and the buffer is in order and
\* beyond everything the agent has read on any connection.
OnTheWay == frames \o messages
IsEvent(i) == OnTheWay[i].type = "event"
NothingRepeated ==
  /\ \A i \in DOMAIN OnTheWay : \A e \in seen :
       IsEvent(i) => e < OnTheWay[i].cursor
  /\ \A i, j \in DOMAIN OnTheWay :
       i < j /\ IsEvent(i) /\ IsEvent(j)
         => OnTheWay[i].cursor < OnTheWay[j].cursor

\* produceSSE and serveSSE: a stream whose producer has given up is not left
\* open in silence.  Whatever the handler has drained in the meantime, the
\* terminal message is still there for it, and with it the end of the stream.
GivenUpIsTold ==
  handler = "serving" /\ producer = "ended" => terminal # <<>>
=============================================================================
