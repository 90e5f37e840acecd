\* Two hosts compete for the rows of one consumer, which registers while two
\* writers commit.
CONSTANTS
  projection = projection
  h1 = h1
  h2 = h2
  w1 = w1
  w2 = w2
  noHost = noHost
  Consumers <- OneConsumer
  Migrated = {}
  Hosts <- TwoHosts
  Writers <- TwoWriters
  NoHost = noHost
  MaxSequence = 2
  MaxFaults = 2
SPECIFICATION FairSpec
INVARIANTS CheckpointCovers
PROPERTIES NoLateCommit ImplementsFeed EventuallyAcknowledged
