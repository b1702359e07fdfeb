\* The periodic resync ends up repairing every object, and the summary with them.
SPECIFICATION MCSummarySpec
CONSTANTS
  Secrets = {s1}
  LongNames = {}
  Consumers = {1, 2}
  MaxUsages = 1
  TrackUnusedSecrets = TRUE
  Absent = Absent
  NumKinds = 2
  KindOf <- OneKindEach
  PerSecretMetrics = FALSE
  MaxChanges = 2
  MaxDeletes = 0
  MaxFaults = 0
  MaxCrashes = 1
  MaxRelists = 0
  Resyncs = TRUE
INVARIANTS
  SummaryExact
PROPERTIES
  EventuallyExact
  EventuallySummarised
CHECK_DEADLOCK FALSE
