------------------------------ MODULE Realtime ------------------------------
(***************************************************************************)
(* One agent that subscribes to Workplane's event feed over either         *)
(* transport: RealtimeSocket and RealtimeEvents on the same feed, resume   *)
(* window and subscriber (internal/app/realtime.go).                       *)
(*                                                                         *)
(* A cursor is bound to the transport it was issued on, so an agent that   *)
(* presents it on the other one is told to read the current state and      *)
(* starts over there.                                                      *)
(***************************************************************************)
EXTENDS CommittedFeed, Sequences

CONSTANTS
  Reader,      \* realtime-v1, the consumer whose checkpoint bounds the feed
  MaxUnacked,  \* Config.RealtimeMaxUnacked
  BufferSize,  \* Config.RealtimeBuffer
  BatchSize,   \* LIMIT of the feed query
  NoCursor,    \* the agent has no position to resume from
  MaxFrames,   \* bound: frames in the connection
  MaxFaults    \* bound: lost connections, write errors and moved windows

ASSUME RealtimeConstants ==
  /\ Sequences \subseteq Nat \ {0}
  /\ Reader \in Consumers
  /\ MaxUnacked \in Nat \ {0}
  /\ BufferSize \in Nat \ {0}
  /\ BatchSize \in Nat \ {0}
  /\ NoCursor \notin Nat
  /\ MaxFaults \in Nat

VARIABLES
  transport,   \* the transport the agent uses, and its cursor is bound to
  minimum,     \* realtime_retention.minimum_cursor_sequence
  \* one connection: its position in the feed, the records of this poll, the
  \* frames not read
  current, batch, frames,
  phase, start, lastDelivered, pending, acks,   \* WebSocket loop and acks
  handler, producer, messages, terminal,        \* SSE goroutines and channels
  cursor, origin, seen, refused, faults         \* as in both modules

socketVars == <<phase, start, lastDelivered, pending, acks>>
streamVars == <<handler, producer, messages, terminal>>
vars == <<feedVars, transport, minimum, current, batch, frames, socketVars,
          streamVars, cursor, origin, seen, refused, faults>>

Socket == INSTANCE RealtimeSocket
Stream == INSTANCE RealtimeEvents

-----------------------------------------------------------------------------
OnSocket == transport = "websocket" /\ UNCHANGED <<transport, streamVars>>
OnStream == transport = "sse" /\ UNCHANGED <<transport, socketVars>>

\* resolveRealtimeStart refuses the cursor of the other transport.
Switch ==
  /\ Socket!MayConnect /\ Stream!MayConnect
  /\ cursor # NoCursor
  /\ transport' = IF transport = "sse" THEN "websocket" ELSE "sse"
  /\ cursor' = NoCursor
  /\ seen' = {} /\ refused' = {} /\ acks' = {}
  /\ current' = 0 /\ start' = 0 /\ lastDelivered' = 0 /\ origin' = 0
  /\ UNCHANGED <<feedVars, minimum, batch, frames, phase, pending, streamVars,
                 faults>>

Init ==
  /\ Socket!Init /\ Stream!Init
  /\ transport \in {"websocket", "sse"}

Next ==
  \/ Socket!Next /\ OnSocket
  \/ Stream!Next /\ OnStream
  \/ Switch

Spec == Init /\ [][Next]_vars

(***************************************************************************)
(* Fairness.  The WebSocket loop ticks until its connection ends, both SSE  *)
(* goroutines run, and the agent reads what it is sent and connects again. *)
(* Nothing makes it acknowledge or switch.  select chooses at random among *)
(* ready channels, so a message that is ready again and again is written   *)
(* some time (strong fairness); without that, a full buffer could be       *)
(* overtaken by rate_limited on every connection and the agent would never *)
(* get past it.                                                            *)
(***************************************************************************)
FairSpec ==
  /\ Spec
  /\ WF_vars(Socket!Connect /\ OnSocket)
  /\ WF_vars(Socket!Loop /\ OnSocket)
  /\ WF_vars(Socket!ReadFrame /\ OnSocket)
  /\ WF_vars(Stream!Connect /\ OnStream)
  /\ WF_vars(Stream!Produce /\ OnStream)
  /\ SF_vars(Stream!WriteMessage /\ OnStream)
  /\ WF_vars((Stream!WriteMessage \/ Stream!WriteTerminal) /\ OnStream)
  /\ WF_vars(Stream!ReadFrame /\ OnStream)

-----------------------------------------------------------------------------
(* Properties.                                                             *)

TypeOK ==
  /\ transport = "websocket" => Socket!TypeOK /\ handler = "closed"
  /\ transport = "sse" => Stream!TypeOK /\ phase = "closed"

\* The resume contract (RealtimeSocket): an agent that holds a cursor has read,
\* or was refused, every event committed between its start and the cursor, over
\* whichever connections, and on SSE although terminal messages overtake and
\* discard what is buffered.
NothingSkipped == Socket!NothingSkipped

\* Resume is exclusive on either transport: what is on its way is in order and
\* beyond everything the agent has read since it started.
NothingRepeated ==
  /\ transport = "websocket" => Socket!NothingRepeated
  /\ transport = "sse" => Stream!NothingRepeated

\* The events on their way or read and not acknowledged, as the agent counts
\* them, never exceed the window of the WebSocket loop.
WindowRespected == transport = "websocket" => Socket!WindowRespected

\* An SSE stream whose producer has given up is not left open in silence.
GivenUpIsTold == transport = "sse" => Stream!GivenUpIsTold

\* Every event of the feed reaches the agent or is refused to it, although it is
\* cut off as a slow consumer again and again, unless it started over beyond
\* the event.
EventuallyExamined == Socket!EventuallyExamined
=============================================================================
