\* Everything three transactions and up to three endpoints can make of a run.
CONSTANTS
  s1 = s1
  s2 = s2
  s3 = s3
  Signatures <- MCSignatures
  NameLists <- MCNameLists
  Observations <- MCObservations
SYMMETRY AnySignature
SPECIFICATION MCSpec
INVARIANTS
  SummaryInv
  SummaryMatchesObservations
  FastestHeadsTheTable
