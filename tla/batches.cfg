\* A batch over a YAML file and a dashboard, beside editors.
CONSTANTS
  conf = conf
  lovelace = lovelace
  plain = plain
  other = other
  mistake = mistake
  empty = empty
  nulldoc = nulldoc
  t1 = t1
  t2 = t2
  Absent = Absent
  None = None
  Empty = empty
  Files = {conf}
  YamlFiles = {conf}
  Dashboards = {lovelace}
  Contents = {empty, plain, other}
  Texts = {plain, other}
  Broken = {}
  Canon <- HandWritten
  Tasks = {t1}
  Tools = {"batch"}
  Faults = {"edit"}
  BackupOnWrite = TRUE
  MaxPerType = 2
  MaxTokens = 1
  MaxItems = 2
SPECIFICATION Spec
INVARIANTS
  BatchAllOrNothing
