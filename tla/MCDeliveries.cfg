SPECIFICATION FairSpec
CONSTANTS
  w1 = w1 s1 = s1 k1 = k1 k2 = k2
  Webhook = {w1}
  Secret = {s1}
  Worker = {k1, k2}
  Source = {"eventHook", "job", "test"}
  RetryDelays = 1
  RoundBudget = 2
  AttemptBudget = 2
  MaxRounds = 2
  RedriveBudget = 1
  MaxPending = 1
  MaxRetained = 2
  MaxPayloads = 2
  RevokeReadFails = TRUE
  MaxDeliveries = 3
  MaxRevision = 2
  MaxCrashes = 1
CONSTRAINT Scope
INVARIANTS AttemptOwnership CapacityHeld BudgetsRespected EnabledWebhookCanSign
PROPERTIES ImplementsContract NoRequestAfterDisable Settles
