\* Two callers write and read a registry over one socket that is lost and
\* reopened, with calls that time out or are cancelled.
CONSTANTS
  None = None
  c1 = c1
  c2 = c2
  Callers = {c1, c2}
  WsFaults = {"lose", "cancel"}
  MaxCommands = 2
  MaxSockets = 2
SYMMETRY CallerSymmetry
SPECIFICATION RegistrySpec
INVARIANTS
  LockIsGivenBack
  LostSocketFailsItsCalls
  AcknowledgedWritesAreRead
PROPERTIES
  FreshConnectionStays
\* The commands may be used up.
CHECK_DEADLOCK FALSE
