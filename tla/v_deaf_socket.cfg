\* A reply meets a future that its time-out has just cancelled.
CONSTANTS
  None = None
  c1 = c1
  c2 = c2
  Callers = {c1, c2}
  WsFaults = {}
  MaxCommands = 2
  MaxSockets = 2
SPECIFICATION RegistrySpec
INVARIANTS
  OpenMeansUsable
CHECK_DEADLOCK FALSE
