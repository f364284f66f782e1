\* Two sessions confirm rollbacks of the same transaction, beside reverts and
\* applies, and log entries may fail to be written.
CONSTANTS
  conf = conf
  lovelace = lovelace
  plain = plain
  other = other
  mistake = mistake
  empty = empty
  nulldoc = nulldoc
  t1 = t1
  t2 = t2
  Absent = Absent
  None = None
  Empty = empty
  Files = {}
  YamlFiles = {}
  Dashboards = {lovelace}
  Contents = {empty, plain}
  Texts = {plain}
  Broken = {}
  Canon <- CanonicalTexts
  Tasks = {t1, t2}
  Tools = {"dashboard", "rollback", "revert"}
  Faults = {"cancel", "restart", "log"}
  BackupOnWrite = TRUE
  MaxPerType = 2
  MaxTokens = 3
  MaxItems = 1
SYMMETRY TaskSymmetry
SPECIFICATION Spec
INVARIANTS
  RollbackOnce
PROPERTIES
  KeepsContract
\* The sessions may have nothing left to ask.
CHECK_DEADLOCK FALSE
