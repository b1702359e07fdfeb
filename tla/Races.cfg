\* One Secret, two consumers of different kinds, room for one reference.
SPECIFICATION MCSpec
CONSTANTS
  Secrets = {s1}
  LongNames = {}
  Consumers = {1, 2}
  MaxUsages = 1
  TrackUnusedSecrets = TRUE
  Absent = Absent
  NumKinds = 2
  KindOf <- OneKindEach
  PerSecretMetrics = TRUE
  MaxChanges = 2
  MaxDeletes = 1
  MaxFaults = 1
  MaxCrashes = 0
  MaxRelists = 0
  Resyncs = FALSE
INVARIANTS
  TypeOK
  GaugesSettled
  PresenceSettled
  FreshReadSettles
  FreshReadCounts
  PresenceInvariant
  ExactInvariant
PROPERTIES
  WritesJustified
  ImplementsIndex
CHECK_DEADLOCK FALSE
