\* A landing may be taken back and land again, the utility RPC may lag, and
\* the stream may break.
CONSTANTS
  rpc = rpc
  jito = jito
  soyas = soyas
  Endpoints <- MCEndpoints
  NameOf <- DistinctNames
  Unbuildable = {}
  Untimed = {}
  Transactions = 2
  MemoCapacity = 1
  Faults = {"stream_error", "unknown_update"}
  MaxTime = 0
  MaxReorgs = 1
  MaxLag = 1
SPECIFICATION Spec
INVARIANTS
  PerEndpointCounts
PROPERTIES
  FollowsBookDiscipline
  EveryStepIsProgress
