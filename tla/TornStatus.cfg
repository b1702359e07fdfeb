\* Violated: two patches computed from different copies mix.
SPECIFICATION MCSpec
CONSTANTS
  Secrets = {s1}
  LongNames = {}
  Consumers = {1, 2}
  MaxUsages = 1
  TrackUnusedSecrets = TRUE
  Absent = Absent
  NumKinds = 2
  KindOf <- OneKindEach
  PerSecretMetrics = TRUE
  MaxChanges = 3
  MaxDeletes = 0
  MaxFaults = 0
  MaxCrashes = 0
  MaxRelists = 0
  Resyncs = FALSE
INVARIANTS
  CountNeverLies
CHECK_DEADLOCK FALSE
