SPECIFICATION FairSpec
CONSTANTS
  ingest = ingest query = query model = model sparse = sparse
  Calls = {ingest, query}
  Parts <- MCParts
  MaxConcurrent = 2
  MaxRetries = 2
  Fields = {model, sparse}
  Backends <- MCBackends
  Down = Down Zero = Zero NoCall = NoCall
  MaxChanges = 2
  MaxFaults = 1
INVARIANTS
  OnlyConfirmedSpace
  CancelledByCallerOnly
PROPERTIES
  ImplementsContract
  EveryCallReturns
CHECK_DEADLOCK FALSE
