SPECIFICATION Spec
CONSTANTS
  Requests <- SpentRequest
  Workers = {1}
  Descriptor <- WorkerTable
  MaxActiveSequences = 2
  MaxTenantShare = 2
  MaxSequences = 2
  MaxLatencyClass = 3
  HeadroomFloor = 64
  MaxAttempts = 1
  CounterMod = 3
  RetryAttemptBase = 1000
  Boots = {1}
  Digests = {d1}
  Proposals = {p1}
  Positions = {0}
  EnvKinds = {"StepSuccessContinue"}
  Times = {0}
  MaxEpoch = 1
  MaxDispatch = 1
  MaxGrant = 1
INVARIANT RecordedIsTerminal
