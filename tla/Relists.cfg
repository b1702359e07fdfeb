\* Informers that jump over events or resync, a restart and a failed call.
SPECIFICATION MCSpec
CONSTANTS
  Secrets = {s1}
  LongNames = {}
  Consumers = {1, 2}
  MaxUsages = 1
  TrackUnusedSecrets = TRUE
  Absent = Absent
  NumKinds = 2
  KindOf <- OneKindEach
  PerSecretMetrics = TRUE
  MaxChanges = 2
  MaxDeletes = 0
  MaxFaults = 1
  MaxCrashes = 1
  MaxRelists = 1
  Resyncs = TRUE
INVARIANTS
  GaugeInvariant
  PresenceSettled
  RelistInvariant
  FreshReadSettles
CHECK_DEADLOCK FALSE
