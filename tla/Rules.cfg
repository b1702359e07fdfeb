\* Files of up to two rules, a cluster that changes and discovery that fails.
SPECIFICATION MCFairSpec
CONSTANTS
  Kinds = {"ingress", "certificate"}
  Versions = {"v1", "v2"}
  BuiltIn <- NativeKinds
  MaxRules = 2
  NoGVK = NoGVK
  BadGVK = BadGVK
  MaxChanges = 2
  MaxFaults = 2
INVARIANTS
  TypeOK
  AllOrNothing
  NoKindTwice
  RulesInvariant
PROPERTIES
  ValidFileRuns
CHECK_DEADLOCK FALSE
