SPECIFICATION Spec
CONSTANTS
  Requests <- OneRequest
  Workers = {1}
  Descriptor <- WorkerTable
  MaxActiveSequences = 2
  MaxTenantShare = 2
  MaxSequences = 2
  MaxLatencyClass = 3
  HeadroomFloor = 64
  MaxAttempts = 2
  CounterMod = 3
  RetryAttemptBase = 1000
  Boots = {1, 2}
  Digests = {d1, d2}
  Proposals = {p1}
  Positions = {0, 1}
  EnvKinds = {"StepSuccessContinue"}
  Times = {0}
  MaxEpoch = 2
  MaxDispatch = 2
  MaxGrant = 2
SYMMETRY Interchangeable
INVARIANTS
  TypeOK
  GrantIsCurrent
  OneReceiptPerGeneration
  ReceiptChain
  BudgetRespected
PROPERTIES
  TerminalIsFinal
  GrantIsOneUse
  AttemptIsFresh
  ImplementsTokenStream
