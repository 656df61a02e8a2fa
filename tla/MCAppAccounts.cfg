SPECIFICATION Spec
CONSTANTS
  u1 = u1 u2 = u2 e1 = e1 c1 = c1 s1 = s1
  None = None
  User = {u1, u2}
  Email = {e1}
  Client = {c1}
  Session = {s1}
  Configs <- TwoConfigs
  MaxTokens = 1
  HourlyLimit = 2
  MaxCodes = 3
  MaxSecrets = 2
  MaxAttempts = 2
  MaxPending = 1
  MaxRetained = 1
  MaxMails = 3
  MaxRetries = 1
  MaxCrashes = 1
SYMMETRY Symmetry
CONSTRAINT Scope
INVARIANTS SessionsOfCurrentPassword CodesEndTogether SendsBounded OneSender
CHECK_DEADLOCK FALSE
