\* A leader, its standby, and calls of the earlier leader that arrive late: every
\* object ends up present or absent as it should.
SPECIFICATION MCFailoverSpec
CONSTANTS
  Secrets = {s1}
  LongNames = {}
  Consumers = {1, 2}
  MaxUsages = 1
  TrackUnusedSecrets = TRUE
  Absent = Absent
  NumKinds = 2
  KindOf <- OneKindEach
  PerSecretMetrics = TRUE
  MaxChanges = 1
  MaxDeletes = 0
  MaxFaults = 1
  MaxCrashes = 1
  MaxRelists = 0
  Resyncs = FALSE
INVARIANTS
  GaugesSettled
  PresenceSettled
PROPERTIES
  FailoverImplementsIndex
  EventuallyPresent
  EventuallyAtRest
  IndexCatchesUp
CHECK_DEADLOCK FALSE
