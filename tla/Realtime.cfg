\* Resuming over lost connections, refusals, slow consumers, dropped buffers, a
\* moved window and a change of transport.
CONSTANTS
  realtime = realtime
  noCursor = noCursor
  Consumers <- OneConsumer
  Reader = realtime
  Sequences <- ThreeEvents
  NoCursor = noCursor
  MaxUnacked = 1
  BufferSize = 2
  BatchSize = 3
  MaxFrames = 2
  MaxFaults = 1
SPECIFICATION FairSpec
INVARIANTS NothingSkipped NothingRepeated WindowRespected GivenUpIsTold
PROPERTIES EventuallyExamined
