SPECIFICATION FairSpec
CONSTANTS
  Keyspace = "ks"
  Deployments <- MCDeployments
  Controls <- MCControls
  Statements = {s1}
  kPing = kPing
  NodeDelay = 1
  MaxCalls = 2
  MaxFaults = 2
INVARIANTS
  TypeOK
  PoolPerNode
  EveryLossHasACause
  
PROPERTIES
  CallReturns
  StartSettles
CHECK_DEADLOCK FALSE
