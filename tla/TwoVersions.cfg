\* Violated: two API versions of one kind are the same objects.
SPECIFICATION MCSpec
CONSTANTS
  Kinds = {"ingress", "certificate"}
  Versions = {"v1", "v2"}
  BuiltIn <- NativeKinds
  MaxRules = 2
  NoGVK = NoGVK
  BadGVK = BadGVK
  MaxChanges = 2
  MaxFaults = 0
INVARIANTS
  NoObjectTwice
CHECK_DEADLOCK FALSE
