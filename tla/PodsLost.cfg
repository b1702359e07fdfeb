\* Violated: a covered Pod may name Secrets its template does not.
SPECIFICATION Spec
CONSTANTS
  Names = {s1, s2}
  Empty = Empty
  Paths = {1, 2}
  Workloads = {w1}
  Pods = {p1}
  MaxSlots = 2
  TrackOwnedPods = FALSE
  Absent = Absent
SYMMETRY Symmetry
INVARIANTS
  NothingLost
