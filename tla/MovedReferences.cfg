\* Two keys and references that move between them; unused Secrets are not tracked,
\* the limit is the default, one name is too long for a label.
SPECIFICATION MCSpec
CONSTANTS
  Secrets = {s1, s2}
  LongNames = {s2}
  Consumers = {1}
  MaxUsages = 0
  TrackUnusedSecrets = FALSE
  Absent = Absent
  NumKinds = 1
  KindOf <- OneKindEach
  PerSecretMetrics = TRUE
  MaxChanges = 1
  MaxDeletes = 0
  MaxFaults = 1
  MaxCrashes = 0
  MaxRelists = 0
  Resyncs = FALSE
INVARIANTS
  GaugesSettled
  PresenceSettled
  FreshReadSettles
  FreshReadCounts
CHECK_DEADLOCK FALSE
