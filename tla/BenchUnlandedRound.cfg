\* A round after a credited one does not land in time.
CONSTANTS
  rpc = rpc
  jito = jito
  soyas = soyas
  Endpoints <- MCEndpoints
  NameOf <- DistinctNames
  Unbuildable = {}
  Untimed = {}
  Transactions = 3
  MemoCapacity = 1
  Faults = {}
  MaxTime = 0
  MaxReorgs = 0
  MaxLag = 0
SPECIFICATION Spec
INVARIANTS
  CreditsAreReported
