\* Two rounds of two endpoints on one fork; sends may fail.
CONSTANTS
  rpc = rpc
  jito = jito
  soyas = soyas
  Endpoints <- MCEndpoints
  NameOf <- DistinctNames
  Unbuildable = {}
  Untimed = {}
  Transactions = 2
  MemoCapacity = 1
  Faults = {"send_error"}
  MaxTime = 1
  MaxReorgs = 0
  MaxLag = 0
SPECIFICATION Spec
INVARIANTS
  BenchInv
  OneWinnerPerRound
  NoncesAreFresh
  LatencyIsCausal
  ReportIsFinal
