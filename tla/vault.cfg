SPECIFICATION VaultSpec
CONSTANTS
  c1 = c1
  c2 = c2
  n1 = n1
  n2 = n2
  custom = custom
  Blank = blank
  Null = null
  \* VendorItems
  Items = {1, 2}
  ItemData = {p1, p2}
  Names = {n1, n2, custom}
  Categories = {c1, c2}
  Drains = {w1, w2}
  VendorIds = {v1, v2, v3}
  CustomId = v0
  CustomName = custom
  CategoryName <- MCCategoryName
  Titles = {n1, blank}
  FirstTitle = n1
  Filings <- MCFilings
  MaxAttempts = 1
  MaxMishaps = 1
  \* VendorSession
  MaxListed = 2
  \* RequestSaga
  Participants = 2
  \* UnitOfWork
  Units = {u1, u2}
  MaxEvents = 3
  \* OAuthFlow
  MaxLaunches = 2
  MaxReturns = 2
  StateTtl = 1
  MaxNow = 1
  \* CloverCall
  MaxRetries = 3
  DefaultWait = 1
  MaxWait = 2
  Skew = 4
  MaxInstant = 8
  \* JobGuards
  Instances = {i1, i2}
  Kinds = {k1, k2}
  Requests = {r1, r2}
  \* StoreAccess
  Emails = {e1, e2}
  StoreNames = {n1, n2}
  DefaultName = n1
  MaxMembers = 2
  MaxEdits = 2
  \* Webhook
  Events <- MCEvents
  Deliveries = {d1, d2}
  MaxBatch = 2
  MaxAborts = 1
  \* OrdersRebuild
  Orders = {1, 2}
  LastTime = 3
  Page = 2
  Batch = 1
  GiveUp = 1
  MaxCycles = 3
  MaxHooks = 1
  \* OrderFigures
  Receipts <- MCReceipts
  MaxRevisions = 2
  \* SalesReview
  MonthLengths <- MCMonthLengths
  FirstMonth = 11
  DaysPerWeek = 2
  Sellers = {"s1", "s2"}
  TrailingMonths = 2
  TopVendors = 1
  RecentLimit = 1
  Prices <- MCPrices
  MaxMoves = 1
  \* VendorWorkspace
  Stored = {"v1"}
  Unknown = {"x"}
  Fresh = {"d1", "d2"}
  Slots = {1}
  Contents = {"c1", "c2"}
  \* VendorApplication
  Required = {"name"}
  Optional = {"phone"}
  Labels = {"art"}
  MaxMails = 1
  \* MarketSite
  Makers = {"a", "b"}
  Signs <- MCSigns
  Wares <- MCWares
  FirstCatalog <- MCFirstCatalog
  Asked <- MCAsked
  Parts <- MCParts
  FeaturedCount = 1
  Lifetimes <- MCLifetimes
  MaxChanges = 1
SYMMETRY Symmetry
INVARIANTS
  VaultTypeOK
  VendorIsItsStream
  NoItemDropped
  VendorsFollowClover
  NoTwinVendors
  ListIsMirrored
  RequestEndsCleanly
  UnitsKeepTheReplay
  StateIsSpent
  BurstIsRidden
  StoreKeepsOwner
  PagesAreGuarded
  WebhookLosesNothing
  
  FiguresAreCurrent
  
  WorkspaceIsHonest
  SiteIsHonest
CHECK_DEADLOCK FALSE
