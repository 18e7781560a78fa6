\* Two relay loops, three events, batches of two, two attempts.
SPECIFICATION FairSpec
CONSTANTS
  p1 = p1
  p2 = p2
  Poller <- TwoPollers
  MaxEvent = 3
  BatchSize = 2
  MaxRetries = 2
INVARIANTS
  TypeOK
  PublishedIsArchived
  ArchivedOnce
PROPERTIES
  SettledRowsStay
  EveryEventSettles
