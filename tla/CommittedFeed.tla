--------------------------- MODULE CommittedFeed ---------------------------
(***************************************************************************)
(* What Workplane's event spine promises a reader of one consumer's feed   *)
(* (docs/durable-spine-m2a.md, docs/realtime-spine-m2b.md): the committed  *)
(* events at or behind the consumer's checkpoint are final.  The log only  *)
(* grows, checkpoints only advance and only onto committed events, and an  *)
(* event that commits does so ahead of every checkpoint, so a reader that  *)
(* resumes after position p never finds later that something was inserted  *)
(* at or before p.  Outbox implements this; RealtimeSocket relies on it.   *)
(***************************************************************************)
EXTENDS Naturals

CONSTANTS
  Consumers,   \* the consumers that have a checkpoint
  Sequences    \* the positive numbers an event_sequence is taken from

VARIABLES
  log,        \* the committed events, each named by its event_sequence
  position    \* position[c]: the checkpoint of consumer c, 0 at the start

feedVars == <<log, position>>

FeedInit ==
  /\ log = {}
  /\ position = [c \in Consumers |-> 0]

\* A command transaction commits the events it inserted.
CommitEvents(events) ==
  /\ \A e \in events : \A c \in Consumers : position[c] < e
  /\ log' = log \cup events
  /\ UNCHANGED position

\* Consumer c's checkpoint moves forward onto a committed event.
AdvanceTo(c, e) ==
  /\ e \in log
  /\ position[c] < e
  /\ position' = [position EXCEPT ![c] = e]
  /\ UNCHANGED log

FeedNext ==
  \/ \E events \in SUBSET Sequences : CommitEvents(events)
  \/ \E c \in Consumers : \E e \in log : AdvanceTo(c, e)

FeedSpec == FeedInit /\ [][FeedNext]_feedVars

\* The feed of c: what a reader polling up to the checkpoint can be given.
Feed(c) == {e \in log : e <= position[c]}
=============================================================================
