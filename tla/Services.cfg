\* A job of each kind, four submissions, three mapping tasks, a lease, two logins,
\* the return of a workbook, the standards of a comparison, a merchant's products
\* and the rules of a schema, each by itself.
SPECIFICATION Spec
CONSTANTS
  r1 = r1  r2 = r2  r3 = r3  r4 = r4  k1 = k1  k2 = k2  t1 = t1  t2 = t2  t3 = t3
  w1 = w1  w2 = w2  w3 = w3  s1 = s1  s2 = s2  c1 = c1  a1 = a1  a2 = a2  u1 = u1  u2 = u2  u3 = u3
  NoKey = NoKey  Nobody = Nobody  NoWorker = NoWorker
  Kinds = {"comparison", "product", "merchant", "field"}
  Calls = {c1}
  Requests = {r1, r2, r3, r4}
  KeyOf <- MCKeyOf
  PrintOf <- MCPrintOf
  JobQuota = 1
  WorkspaceQuota = 1
  MapTasks = {t1, t2, t3}
  ProcessOf <- MCProcessOf
  BatchesOf <- MCBatchesOf
  MapThreads = 2
  TaskShare = 2
  CacheSize = 1
  LeaseWorkers = {w1, w2, w3}
  Sweepers = {s1, s2}
  LeaseSeconds = 1
  LeaseAttempts = 2
  MaxClock = 6
  Logins = {a1, a2}
  AccountMax = 2
  SourceMax = 3
  MaxLogins = 5
  MaintenanceTasks <- MCMaintenanceTasks
  Sku = 1
  Protected = {1}
  CellValues = {"p", "s"}
  FileValues = {"p"}
  MaxFileChanges = 1
  MaxEdits = 1
  Supplies <- MCSupplies
  RawRows <- MCRawRows
  Values <- MCValues
  SheetKeys <- MCSheetKeys
  Sheets <- MCSheets
  ColumnsOf <- MCColumnsOf
  KeyColumns <- MCKeyColumns
  KeyAction <- MCKeyAction
  NeededSheets = {"S"}
  UploadKeys <- MCUploadKeys
  SourceKeys <- MCSourceKeys
  HeaderOf <- MCHeaderOf
  Rank <- MCRank
  Meaning <- MCMeaning
  Needed = {"sku", "row"}
  Unique = {}
  Single = {"row"}
  CrossRules <- MCCrossRules
  PageSize = 2  MaxPages = 2  MaxRecords = 4  MaxStandard = 3
  NoName = "surplus"
  Empty = "empty"
  Invalid = "invalid"
  Books <- MCBooks
  Payloads <- MCPayloads
  NoId = 0
  PlatformId <- MCPlatformId
  Texts <- MCTexts
  Blank = "-"
  Fields <- MCFields
  NameField = "name"
  CategoryField = "category"
  UnitField = "unit"
  BrandField = "brand"
  SkuField = "sku"
  Auxiliary = {"brand", "sku", "unit", "category"}
  NoField = "none"
  FieldOf <- MCFieldOf
  PathField <- MCPathField
  Notes = {"note"}
  FixedTitle = "fixed"
  DynamicTitles = {"dynamic"}
  Plain <- MCPlain
  NameKey <- MCPlain
  Likeness <- MCLikeness
  Reads <- MCReads
  Threshold = 90
  IdPlace <- MCIdPlace
  RuleCalls = {u1, u2, u3}
  Drafts = {"d"}
  RuleVersions = {1}
  Contents = {"a", "b"}
  Unfit = "unfit"
  NoContent = "nothing"
  Torn = "torn"
  NoDraft = "nodraft"
  NoRecord = NoRecord
CONSTRAINT FewFaults
CHECK_DEADLOCK FALSE
INVARIANTS SettledAgrees PurgeLeavesNothing KeysAndQuotaHold
  QueuedIsRunnable LimitHolds IdentityIsKept FetchedAsHeld ComparedAsSupplied
  NoProductLost ExactNamesMeet MarksTellTheirRow PublishedIsServed
PROPERTIES BatchesShareAnswers AppliedAsShown MergesSurviveEdits
