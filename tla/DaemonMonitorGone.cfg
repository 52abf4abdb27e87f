\* A vendor that forks whenever it likes, against the message of check.
SPECIFICATION MonitorSpec
SYMMETRY ForkedSymmetry
CONSTANTS
  Pids = {d0, d1, d2}
  Daemon = d0
  Supervisor = Supervisor
INVARIANTS
  GoneMeansNoneLive
CHECK_DEADLOCK FALSE
