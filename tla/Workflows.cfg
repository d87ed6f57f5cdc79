\* A field reconciliation, a product review, and the inputs of the algorithms, each by itself.
SPECIFICATION Spec
CONSTANTS
  a1 = a1  a2 = a2  b1 = b1  b2 = b2  x1 = x1  x2 = x2  v1 = v1  f1 = f1  f2 = f2  f3 = f3
  FieldCalls = {a1, a2}
  FieldRuns = {b1, b2}
  FieldPages = {x1, x2}
  MaxFieldRevision = 1
  MaxStandard = 2
  Reviewers = {a1, a2}
  Revisers = {v1}
  RevisionWorkers = {b1, b2}
  ReviewItems = {x1, x2}
  MaxProductRevision = 3
  Sheets <- MCSheets
  MaxPasses = 3
  Books <- MCBooks
  NoField = NoField
  Supplies <- MCSupplies
  Token <- MCToken
  Alike <- MCAlike
  FixedFields <- MCFixed
  Categories <- MCCategories
  PlatformFields <- MCPlatform
  Specifications <- MCSpecifications
  TokensOf <- MCTokensOf
  CategoryTokens <- MCCategoryTokens
  IdField = "gid"
  NameField = "gname"
  KeyField = "key"
  Required = {"key", "code"}
  Unique = {"serial", "code"}
  When <- MCWhen
  Unreadable = {"bad"}
  Unsafe = {"big"}
  Options <- MCOptions
  MaxSku = 2
  MaxProductRuns = 3
  Renderings <- MCRenderingInputs
  MaxColumn = 4
  MaxRow = 4
SYMMETRY WorkflowSymmetry
CONSTRAINT FewFaults
CHECK_DEADLOCK FALSE
INVARIANTS ReportIsCurrent RevisionsFollowReviews ReviewsAgree
  CleanReportAgrees RepairsAreSafe RepairsConverge ColumnsKeepTheirFields NothingIsDropped CompletedIsSettled
  RenderedAsPlanned
PROPERTIES AnswersAreFollowed
