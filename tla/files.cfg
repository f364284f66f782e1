\* One YAML file, with texts in a hand's layout: applies, reverts, rollbacks and
\* prunes, beside editors and crashes between the steps of a call.
CONSTANTS
  conf = conf
  lovelace = lovelace
  plain = plain
  other = other
  mistake = mistake
  empty = empty
  nulldoc = nulldoc
  t1 = t1
  t2 = t2
  Absent = Absent
  None = None
  Empty = empty
  Files = {conf}
  YamlFiles = {conf}
  Dashboards = {}
  Contents = {empty, nulldoc, plain, other}
  Texts = {empty, plain, other}
  Broken = {}
  Canon <- HandWritten
  Tasks = {t1}
  Tools = {"config", "rollback", "revert", "prune"}
  Faults = {"edit", "restart"}
  BackupOnWrite = TRUE
  MaxPerType = 2
  MaxTokens = 2
  MaxItems = 1
SPECIFICATION Spec
INVARIANTS
  TypeOK
  RollbackRestores
  BackupCoversWrite
