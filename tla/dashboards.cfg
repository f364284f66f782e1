\* Two sessions change a dashboard and roll changes back, beside people,
\* cancellations and restarts.
CONSTANTS
  conf = conf
  lovelace = lovelace
  plain = plain
  other = other
  mistake = mistake
  empty = empty
  nulldoc = nulldoc
  t1 = t1
  t2 = t2
  Absent = Absent
  None = None
  Empty = empty
  Files = {}
  YamlFiles = {}
  Dashboards = {lovelace}
  Contents = {empty, plain}
  Texts = {empty, plain}
  Broken = {}
  Canon <- CanonicalTexts
  Tasks = {t1, t2}
  Tools = {"dashboard", "rollback"}
  Faults = {"edit", "cancel", "restart"}
  BackupOnWrite = TRUE
  MaxPerType = 2
  MaxTokens = 2
  MaxItems = 1
SYMMETRY TaskSymmetry
SPECIFICATION Spec
INVARIANTS
  TokenDrivesOneCall
  LockCoversSave
  AppliesDoNotClobberApplies
  RollbackRestores
