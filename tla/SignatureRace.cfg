\* Two providers of several pairs of kinds, two transactions and a target of one,
\* so that both can pass it at once; a queue that fills up.
CONSTANTS
  p1 = p1
  p2 = p2
  Providers <- TwoProviders
  KindChoices <- KindPairs
  Signatures = {s1, s2}
  Target = 1
  QueueCapacity = 1
  MaxSightings = 2
  MaxTime = 1
CHECK_DEADLOCK FALSE
SPECIFICATION FairSpec
INVARIANTS
  RaceInv
  CounterIsExact
  CompleteMeansStopping
  EnvelopesAreConserved
  BatchesAgreeWithReports
PROPERTIES
  BroadcastStopsEveryone
  RaceEnds
