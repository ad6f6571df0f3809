\* LandingBook under any sequence of calls its callers may make, with one
\* endpoint whose name contains a bar.
CONSTANTS
  s1 = s1
  s2 = s2
  s3 = s3
  s4 = s4
  Signatures <- MCSignatures
  Names <- BarredNames
  ProviderOf <- BarredProviderOf
  Rounds = {1, 2}
  Times = {0, 2}
  MaxAttempts = 3
SPECIFICATION Spec
INVARIANTS
  BookInv
  WinsAreDistinctLandings
  NoLostWakeup
  StatisticsAreOrdered
  ReportAddsUp
PROPERTY ImplementsLedger
