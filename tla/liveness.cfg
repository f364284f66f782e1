\* Every kind of call that waits, two at a time, may be cancelled.
CONSTANTS
  conf = conf
  lovelace = lovelace
  plain = plain
  other = other
  mistake = mistake
  empty = empty
  nulldoc = nulldoc
  t1 = t1
  t2 = t2
  Absent = Absent
  None = None
  Empty = empty
  Files = {}
  YamlFiles = {}
  Dashboards = {lovelace}
  Contents = {empty, plain}
  Texts = {plain}
  Broken = {}
  Canon <- CanonicalTexts
  Tasks = {t1, t2}
  Tools = {"dashboard", "rollback", "revert", "batch"}
  Faults = {"cancel"}
  BackupOnWrite = TRUE
  MaxPerType = 2
  MaxTokens = 2
  MaxItems = 2
SPECIFICATION FairSpec
INVARIANTS
  WaitersHoldNoLock
PROPERTIES
  EveryCallEnds
\* The sessions may have nothing left to ask.
CHECK_DEADLOCK FALSE
