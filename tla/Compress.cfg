\* Two goroutines, three arrays, two slices kept.
CONSTANTS
  x0 = x0
  x1 = x1
  x2 = x2
  None = None
  Arrays = {a1, a2, a3}
  Procs = {p1, p2}
  MaxResults = 2
  Inputs <- MCInputs
  len <- MClen
  defaults <- MCDefaults
  Settings <- MCSettings
SPECIFICATION Spec
SYMMETRY Symmetry
INVARIANTS
  Exclusive
  DamagedByReuse
  RoundTrip
  ThresholdsPaired
