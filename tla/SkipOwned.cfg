\* One workload, one Pod, owned Pods skipped: the default.
SPECIFICATION Spec
CONSTANTS
  Names = {s1, s2}
  Empty = Empty
  Paths = {1, 2}
  Workloads = {w1}
  Pods = {p1}
  MaxSlots = 2
  TrackOwnedPods = FALSE
  Absent = Absent
SYMMETRY Symmetry
INVARIANTS
  TypeOK
  NoDoubleCount
  UncontrolledRecorded
PROPERTIES
  EnqueueCoversChange
