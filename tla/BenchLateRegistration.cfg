\* A send is registered after its round has landed.
CONSTANTS
  rpc = rpc
  jito = jito
  soyas = soyas
  Endpoints <- MCEndpoints
  NameOf <- DistinctNames
  Unbuildable = {}
  Untimed = {}
  Transactions = 2
  MemoCapacity = 1
  Faults = {}
  MaxTime = 0
  MaxReorgs = 0
  MaxLag = 0
SPECIFICATION Spec
PROPERTIES
  LandedRoundsAreNotWaitedFor
