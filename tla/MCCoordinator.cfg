SPECIFICATION FairCoordinatorSpec
CONSTANTS
  Requests <- OneRequest
  Workers = {1}
  Descriptor <- WorkerTable
  MaxActiveSequences = 2
  MaxTenantShare = 2
  MaxSequences = 2
  MaxLatencyClass = 3
  HeadroomFloor = 64
  MaxAttempts = 2
  CounterMod = 3
  RetryAttemptBase = 1000
  Boots = {1, 2}
  Digests = {1}
  Proposals = {1}
  Positions = {0}
  EnvKinds = {}
  Times = {0}
  MaxEpoch = 2
  MaxDispatch = 5
  MaxGrant = 4
  DigestBase = 10
  EosStates = {}
  Processes = {1, 2}
  WorkerOf <- OneWorker
  MaxFaults = 1
INVARIANTS
  
  CommittedIsAuthorized
  
  

  
CHECK_DEADLOCK FALSE
