\* Every failure the run is meant to survive, Ctrl-C included, and an endpoint
\* that may never take a transaction.
CONSTANTS
  rpc = rpc
  jito = jito
  soyas = soyas
  Endpoints <- ThreeEndpoints
  NameOf <- ThreeNames
  Unbuildable = {jito}
  Untimed = {soyas}
  Transactions = 2
  MemoCapacity = 1
  Faults = {"send_error", "stream_error", "setup_error", "rpc_error",
            "unknown_update", "interrupt"}
  MaxTime = 0
  MaxReorgs = 0
  MaxLag = 0
SPECIFICATION FairSpec
PROPERTIES
  NoRoundAfterStop
  Termination
