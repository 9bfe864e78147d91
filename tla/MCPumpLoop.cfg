SPECIFICATION FairPumpSpec
CONSTANTS
  Requests <- OneRequest
  Workers = {1}
  Descriptor <- WorkerTable
  MaxActiveSequences = 2
  MaxTenantShare = 2
  MaxSequences = 2
  MaxLatencyClass = 3
  HeadroomFloor = 64
  MaxAttempts = 2
  CounterMod = 3
  RetryAttemptBase = 10
  Boots = {1}
  Digests = {1}
  Proposals = {1}
  Positions = {0}
  EnvKinds = {}
  Times = {0}
  MaxEpoch = 2
  MaxDispatch = 5
  MaxGrant = 4
  DigestBase = 5
  EosStates = {}
  WorkerBoot <- FirstBoot
  MaxFaults = 1
  MaxRestarts = 1
INVARIANTS
  PumpTypeOK
  OneStream
  AheadHoldsReceipt
  SavedIsRecoverable
  ReceiptChain
  BudgetRespected
PROPERTIES
  
  PumpReturns
CHECK_DEADLOCK FALSE
