\* Three events of any kind through small queues, a client, both ends.
SPECIFICATION FairSpec
CONSTANTS
  BusCap = 2
  UrgentCap = 1
  NormalCap = 2
  StreamCap = 2
  MaxEvents = 3
INVARIANTS TypeOK ClosedIsDrained
PROPERTIES Channels MessagesArrive
