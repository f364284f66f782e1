\* A batch is cancelled while it waits for its second item.
CONSTANTS
  conf = conf
  lovelace = lovelace
  plain = plain
  other = other
  mistake = mistake
  empty = empty
  nulldoc = nulldoc
  t1 = t1
  t2 = t2
  Absent = Absent
  None = None
  Empty = empty
  Files = {}
  YamlFiles = {}
  Dashboards = {lovelace}
  Contents = {empty, plain}
  Texts = {empty, plain}
  Broken = {}
  Canon <- CanonicalTexts
  Tasks = {t1}
  Tools = {"batch"}
  Faults = {"cancel"}
  BackupOnWrite = TRUE
  MaxPerType = 2
  MaxTokens = 1
  MaxItems = 2
SPECIFICATION Spec
INVARIANTS
  NoBatchLeftHalfApplied
\* The sessions may have nothing left to ask.
CHECK_DEADLOCK FALSE
