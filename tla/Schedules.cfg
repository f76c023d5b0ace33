SPECIFICATION Spec
CONSTANTS
  Schedules = {s1, s2}
  Requests = {r1, r2}
  MaxEdition = 2
  MaxStarted = 4
  MaxWire = 2
SYMMETRY Symmetry
INVARIANTS TypeOK OneActive ActiveRuns RunningIsActive
CHECK_DEADLOCK FALSE
