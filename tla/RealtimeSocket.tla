--------------------------- MODULE RealtimeSocket ---------------------------
(***************************************************************************)
(* One subscriber of Workplane's WebSocket stream and the server loop that *)
(* serves it (runWebSocket and resolveRealtimeStart, internal/app/         *)
(* realtime.go), on top of the committed feed of the realtime consumer.    *)
(*                                                                         *)
(* The loop polls: it drains the acknowledgements that have arrived, takes *)
(* a batch of the feed behind the checkpoint, and writes the events the    *)
(* subscriber may read, at most MaxUnacked ahead of its acknowledgements.  *)
(* Events it may not read are stepped over.  The frames sit in the         *)
(* connection until the subscriber reads them or the connection is lost.   *)
(* The subscriber keeps the cursor of the last frame it read and resumes,  *)
(* exclusively, from there.                                                *)
(*                                                                         *)
(* A cursor is its sequence: it is signed and bound to the subscriber, so  *)
(* the server accepts the ones it issued.  Whether the subscriber may read *)
(* an event (organization, filter, project visibility, which change) is    *)
(* decided afresh each time the event is examined.                         *)
(***************************************************************************)
EXTENDS CommittedFeed, Sequences, FiniteSets

CONSTANTS
  Reader,      \* realtime-v1, the consumer whose checkpoint bounds the feed
  MaxUnacked,  \* Config.RealtimeMaxUnacked
  BatchSize,   \* LIMIT of the feed query
  NoCursor,    \* the subscriber has no position to resume from
  MaxFrames,   \* bound: frames in the connection when a heartbeat is written
  MaxFaults    \* bound: lost connections, write errors and moved windows

VARIABLES
  minimum,        \* realtime_retention.minimum_cursor_sequence
  phase,          \* the server loop: "closed", "polling" or "writing"
  start,          \* the position this connection started from
  current,        \* the position up to which the loop has examined the feed
  lastDelivered,  \* the cursor of the last event written, or of "ready"
  pending,        \* written events the loop has no acknowledgement for
  batch,          \* the records of this poll still to be examined
  frames,         \* frames written and not read by the subscriber
  acks,           \* cursors acknowledged on this connection
  cursor,         \* the subscriber's position, NoCursor before its first
  origin,         \* where it started without a cursor
  seen,           \* events it has read since then
  refused,        \* events it could not read when they were examined
  faults          \* faults so far

serverVars == <<phase, start, current, lastDelivered, pending, batch>>
clientVars == <<acks, cursor, origin, seen>>
vars == <<feedVars, minimum, serverVars, frames, clientVars, refused, faults>>

Positions == Sequences \cup {0}

Frame ==
  [type : {"event"}, cursor : Sequences]
    \cup [type : {"ready", "heartbeat", "rate_limited"}, cursor : Positions]

TypeOK ==
  /\ log \subseteq Sequences
  /\ position \in [Consumers -> Positions]
  /\ minimum \in Positions
  /\ phase \in {"closed", "polling", "writing"}
  /\ start \in Positions
  /\ current \in Positions
  /\ lastDelivered \in Positions
  /\ pending \subseteq Sequences
  /\ batch \subseteq Sequences
  /\ frames \in Seq(Frame)
  /\ acks \subseteq Positions
  /\ cursor \in Positions \cup {NoCursor}
  /\ origin \in Positions
  /\ seen \subseteq Sequences
  /\ refused \subseteq Sequences
  /\ faults \in 0 .. MaxFaults

-----------------------------------------------------------------------------
(* The feed: commands commit, the outbox advances the checkpoint.          *)

FeedStep ==
  /\ \/ \E e \in Sequences \ log : CommitEvents({e})
     \/ \E e \in log : AdvanceTo(Reader, e)
  /\ UNCHANGED <<minimum, serverVars, frames, clientVars, refused, faults>>

\* The resume window is moved by an operator.
MoveWindow(m) ==
  /\ faults < MaxFaults
  /\ m # minimum
  /\ minimum' = m
  /\ faults' = faults + 1
  /\ UNCHANGED <<feedVars, serverVars, frames, clientVars, refused>>

-----------------------------------------------------------------------------
(* resolveRealtimeStart: where a connection starts.                        *)

\* The connection opens at p and "ready" carries that position.
Open(p) ==
  /\ phase' = "polling"
  /\ start' = p
  /\ current' = p
  /\ lastDelivered' = p
  /\ pending' = {}
  /\ batch' = {}
  /\ acks' = {}
  /\ frames' = <<[type |-> "ready", cursor |-> p]>>

\* The subscriber has read, or lost, all there was of the last connection.
MayConnect == phase = "closed" /\ frames = <<>>

\* No cursor: the feed from the checkpoint on.
ConnectFresh ==
  /\ MayConnect
  /\ cursor = NoCursor
  /\ Open(position[Reader])
  /\ origin' = position[Reader]
  /\ seen' = {}
  /\ refused' = {}
  /\ UNCHANGED <<feedVars, minimum, cursor, faults>>

Resumable == minimum <= cursor /\ cursor <= position[Reader]

\* Exclusive of the cursor.
Resume ==
  /\ MayConnect
  /\ cursor # NoCursor
  /\ Resumable
  /\ Open(cursor)
  /\ UNCHANGED <<feedVars, minimum, cursor, origin, seen, refused, faults>>

\* 409: the subscriber reads the current state and starts over.
SnapshotRequired ==
  /\ MayConnect
  /\ cursor # NoCursor
  /\ ~Resumable
  /\ cursor' = NoCursor
  /\ UNCHANGED <<feedVars, minimum, serverVars, frames, acks, origin, seen,
                 refused, faults>>

-----------------------------------------------------------------------------
(* runWebSocket: the loop of one connection.                               *)

\* Faulty variant: the query includes the event of the cursor.
FeedAtOrAfter(p) ==
  LET later == {e \in Feed(Reader) : e >= p}
  IN  {e \in later : Cardinality({f \in later : f < e}) < BatchSize}

\* The first BatchSize events of the feed after position p.
FeedAfter(p) ==
  LET later == {e \in Feed(Reader) : e > p}
  IN  {e \in later : Cardinality({f \in later : f < e}) < BatchSize}

\* Faulty variant: any acknowledgement empties the window.
DrainAll(taken) == pending' = IF taken = {} THEN pending ELSE {}

\* An acknowledgement covers every event at or before it.
Drain(taken) == pending' = {e \in pending : \A a \in taken : e > a}

\* Drain what has arrived, wait for the tick, find the subscriber still
\* authorized, and take a batch.
Poll ==
  /\ phase = "polling"
  /\ \E taken \in SUBSET acks : Drain(taken)
  /\ batch' = FeedAfter(current)
  /\ phase' = "writing"
  /\ UNCHANGED <<feedVars, minimum, start, current, lastDelivered, frames,
                 clientVars, refused, faults>>

\* The record the loop examines next.
Examining(e) == e \in batch /\ \A other \in batch : e <= other

\* The subscriber may not read e.
StepOver(e) ==
  /\ phase = "writing"
  /\ Examining(e)
  /\ batch' = batch \ {e}
  /\ current' = e
  /\ refused' = refused \cup {e}
  /\ UNCHANGED <<feedVars, minimum, phase, start, lastDelivered, pending,
                 frames, clientVars, faults>>

WindowFull == Cardinality(pending) >= MaxUnacked

WriteEvent(e) ==
  /\ phase = "writing"
  /\ Examining(e)
  /\ ~WindowFull
  /\ frames' = Append(frames, [type |-> "event", cursor |-> e])
  /\ batch' = batch \ {e}
  /\ current' = e
  /\ lastDelivered' = e
  /\ pending' = pending \cup {e}
  /\ UNCHANGED <<feedVars, minimum, phase, start, clientVars, refused, faults>>

\* The connection is over for the server.
CloseConnection == phase' = "closed" /\ batch' = {} /\ pending' = {}

\* Faulty variant: the failure cursor is that of the event not written.
RateLimitPast(e) ==
  /\ phase = "writing"
  /\ Examining(e)
  /\ WindowFull
  /\ frames' = Append(frames, [type |-> "rate_limited", cursor |-> e])
  /\ CloseConnection
  /\ UNCHANGED <<feedVars, minimum, start, current, lastDelivered, clientVars,
                 refused, faults>>

\* e may be read but the window is full: repeat the last cursor and close.
RateLimit(e) ==
  /\ phase = "writing"
  /\ Examining(e)
  /\ WindowFull
  /\ frames' = Append(frames, [type |-> "rate_limited",
                               cursor |-> lastDelivered])
  /\ CloseConnection
  /\ UNCHANGED <<feedVars, minimum, start, current, lastDelivered, clientVars,
                 refused, faults>>

\* The batch is examined; a heartbeat is due or not.
EndBatch ==
  /\ phase = "writing"
  /\ batch = {}
  /\ phase' = "polling"
  /\ \/ UNCHANGED frames
     \/ /\ Len(frames) < MaxFrames
        /\ frames' = Append(frames, [type |-> "heartbeat",
                                     cursor |-> current])
  /\ UNCHANGED <<feedVars, minimum, start, current, lastDelivered, pending,
                 batch, clientVars, refused, faults>>

\* A write error or timeout, lost authority, a failed query, an unreadable
\* client frame, or the end of the process.  Frames already written may still
\* be read.
EndLoop ==
  /\ phase # "closed"
  /\ faults < MaxFaults
  /\ faults' = faults + 1
  /\ CloseConnection
  /\ UNCHANGED <<feedVars, minimum, start, current, lastDelivered, frames,
                 clientVars, refused>>

-----------------------------------------------------------------------------
(* The subscriber.                                                         *)

ReadFrame ==
  /\ frames # <<>>
  /\ cursor' = Head(frames).cursor
  /\ seen' = IF Head(frames).type = "event"
               THEN seen \cup {Head(frames).cursor} ELSE seen
  /\ frames' = Tail(frames)
  /\ UNCHANGED <<feedVars, minimum, serverVars, acks, origin, refused, faults>>

\* It acknowledges an event it has read on this or an earlier connection.
Acknowledge(e) ==
  /\ phase # "closed"
  /\ e \in seen \ acks
  /\ acks' = acks \cup {e}
  /\ UNCHANGED <<feedVars, minimum, serverVars, frames, cursor, origin, seen,
                 refused, faults>>

\* The connection is lost with the frames in it.
LoseConnection ==
  /\ phase # "closed" \/ frames # <<>>
  /\ faults < MaxFaults
  /\ faults' = faults + 1
  /\ frames' = <<>>
  /\ CloseConnection
  /\ UNCHANGED <<feedVars, minimum, start, current, lastDelivered, clientVars,
                 refused>>

-----------------------------------------------------------------------------
Init ==
  /\ FeedInit
  /\ minimum = 0
  /\ phase = "closed"
  /\ start = 0
  /\ current = 0
  /\ lastDelivered = 0
  /\ pending = {}
  /\ batch = {}
  /\ frames = <<>>
  /\ acks = {}
  /\ cursor = NoCursor
  /\ origin = 0
  /\ seen = {}
  /\ refused = {}
  /\ faults = 0

Connect == ConnectFresh \/ Resume \/ SnapshotRequired

Examine(e) == StepOver(e) \/ WriteEvent(e) \/ RateLimit(e)

Loop == Poll \/ EndBatch \/ \E e \in Sequences : Examine(e)

Next ==
  \/ FeedStep
  \/ \E m \in Positions : MoveWindow(m)
  \/ Connect
  \/ Loop
  \/ EndLoop
  \/ ReadFrame
  \/ \E e \in Sequences : Acknowledge(e)
  \/ LoseConnection

Spec == Init /\ [][Next]_vars

-----------------------------------------------------------------------------
(* Properties.                                                             *)

\* The resume contract: a subscriber that holds a cursor has read, or was
\* refused, every event committed between the position it started from and
\* the cursor, whichever connections brought it there and whatever commits
\* later.
NothingSkipped ==
  cursor # NoCursor =>
    \A e \in log : origin < e /\ e <= cursor => e \in seen \cup refused

\* Resume is exclusive: what is on its way to the subscriber is in order and
\* beyond everything it has read, on this connection or an earlier one.
NothingRepeated ==
  /\ \A i \in DOMAIN frames : \A e \in seen :
       frames[i].type = "event" => e < frames[i].cursor
  /\ \A i, j \in DOMAIN frames :
       i < j /\ frames[i].type = "event" /\ frames[j].type = "event"
         => frames[i].cursor < frames[j].cursor

\* The events of this connection that are on their way or read without being
\* acknowledged, as the subscriber counts them, are never more than
\* MaxUnacked: the server's own count may lag behind but never below it.
InFlight == {frames[i].cursor : i \in {j \in DOMAIN frames :
                                         frames[j].type = "event"}}
Unacknowledged == {e \in InFlight \cup seen :
                     start < e /\ \A a \in acks : a < e}
WindowRespected == Cardinality(Unacknowledged) <= MaxUnacked

\* Every event of the feed reaches the subscriber or is refused to it, even if
\* it never acknowledges and is cut off as a slow consumer again and again,
\* unless it had to start over beyond the event.
EventuallyExamined ==
  \A e \in Sequences :
    e \in Feed(Reader) /\ cursor # NoCursor /\ origin < e
      ~> e \in seen \cup refused \/ e <= origin
=============================================================================
