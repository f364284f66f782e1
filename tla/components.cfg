\* The components beside the pipeline, each on an instance of its own.
CONSTANTS
  Stores = {"backup", "captures", "shell"}
  Kinds = {k1, k2}
  MaxMade = 3
  Cap = 1
  MaxAge = 1
  LastDay = 3
  StoreFaults = {"crash", "disk"}
  MaxClients = 1
  AccessTtl = 4
  RefreshTtl = 4
  CodeTtl = 1
  LastSecond = 6
  MaxIds = 5
  OAuthFaults = {"crash", "disk"}
  MaxEntries = 7
  RotateAt = 3
  Limit = 2
  Uids = {u1, u2}
  EntityIds = {a, b, c}
  MaxItems = 2
  MaxOutside = 1
  Slugs = {s1, s2}
  MaxHelpers = 3
  MaxHelperOutside = 1
  Whats = {x, y}
  MaxTokens = 1
  Builders = {b1, b2, b3}
  BuildNodes = {n1}
  DbCalls = {d1, d2}
  Connections = {p1, p2}
  CaptureCalls = {t1, t2}
  FileLines = {l1, l2}
  NewLine = l3
  MaxLines = 4
  MaxDrift = 2
  Fuzz = 1
  RefIds = {a, b, c}
  MaxRefs = 2
  IndexCalls = {i1, i2}
  Registries = {"entities", "devices"}
  MaxRevision = 1
  OtherFiles = {"first"}
  MaxRefLines = 4
SPECIFICATION ComponentsSpec
INVARIANTS
  RetentionKeepsNewest
  ListedFilesExist
  NothingPilesUp
  CredentialsAreSingleUse
  NoTokenOutlivesItsClient
  RevocationIsFinal
  ActiveTokensStay
  TimelineIsNewest
  RenameIsUndoneWhole
  ReferencesFollow
  AnswerNamesTheHelper
  OnlyTheShownIsDone
  SuccessMeansDone
  CoreIsAsAsked
  ListedIsOwn
  StatementsMeetTheirMode
  OneBrowserAtATime
  UniqueHunksLandAtHome
  PlanAccountsForReferences
  RewriteReverses
  IndexFilesAreCurrent
  MentionsAreFoundOnce
PROPERTIES
  OnlyNamedHelpersChange
\* Most components may come to the end of their bounds.
CHECK_DEADLOCK FALSE
