\* Batches that chain items on one YAML file are rolled back; `mistake` is no YAML.
CONSTANTS
  conf = conf
  lovelace = lovelace
  plain = plain
  other = other
  mistake = mistake
  empty = empty
  nulldoc = nulldoc
  t1 = t1
  t2 = t2
  Absent = Absent
  None = None
  Empty = empty
  Files = {conf}
  YamlFiles = {conf}
  Dashboards = {}
  Contents = {empty, nulldoc, plain, other, mistake}
  Texts = {plain, other, mistake}
  Broken = {mistake}
  Canon <- HandWritten
  Tasks = {t1}
  Tools = {"batch", "rollback"}
  Faults = {}
  BackupOnWrite = FALSE
  MaxPerType = 2
  MaxTokens = 2
  MaxItems = 2
SPECIFICATION Spec
INVARIANTS
  RollbackRestores
\* The sessions may have nothing left to ask.
CHECK_DEADLOCK FALSE
