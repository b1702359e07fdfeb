\* Violated: an object created without a status never gets one.
SPECIFICATION MCFairSpec
CONSTANTS
  Secrets = {s1}
  LongNames = {}
  Consumers = {1, 2}
  MaxUsages = 1
  TrackUnusedSecrets = TRUE
  Absent = Absent
  NumKinds = 2
  KindOf <- OneKindEach
  PerSecretMetrics = TRUE
  MaxChanges = 0
  MaxDeletes = 0
  MaxFaults = 1
  MaxCrashes = 0
  MaxRelists = 0
  Resyncs = FALSE
PROPERTIES
  EmptyStatusFilled
CHECK_DEADLOCK FALSE
