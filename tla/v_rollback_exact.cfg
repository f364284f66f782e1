\* A created file is rolled back to an empty one.
CONSTANTS
  conf = conf
  lovelace = lovelace
  plain = plain
  other = other
  mistake = mistake
  empty = empty
  nulldoc = nulldoc
  t1 = t1
  t2 = t2
  Absent = Absent
  None = None
  Empty = empty
  Files = {conf}
  YamlFiles = {conf}
  Dashboards = {}
  Contents = {empty, nulldoc, plain}
  Texts = {plain}
  Broken = {}
  Canon <- CanonicalTexts
  Tasks = {t1}
  Tools = {"config", "rollback"}
  Faults = {}
  BackupOnWrite = TRUE
  MaxPerType = 2
  MaxTokens = 2
  MaxItems = 1
SPECIFICATION Spec
INVARIANTS
  RollbackIsExact
\* The sessions may have nothing left to ask.
CHECK_DEADLOCK FALSE
