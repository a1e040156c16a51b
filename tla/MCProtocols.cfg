SPECIFICATION MCSpec
CONSTANTS
  Requests = {r1, r2}
  Rows = {1, 2}
  Readers = {1}
  Lag = 2
  MaxCommit = 1
  PageSize = 1
  Retention = 3
  PullTime = 6
  MaxWrites = 2
  Registering = {1, 2, 3}
  Calls = {1, 2, 3, 4}
  MaxIndex = 3
  MaxAttempts = 2
  DeviceOf <- MCDeviceOf
  Sales = {1, 2}
  PushFaults = 1
  MaxExpiries = 1
  Mandates = {1, 2}
  Referred = {1, 2}
  Payments = {1, 2, 3}
  OwnerOf <- MCOwnerOf
  CouponCap = 2
  PerkCrashes = 1
  People = {1, 2, 3}
  Founders = {1, 2}
  Invitations = {1, 2}
  Seats = 3
  TeamRequests = 4
  Policies <- MCPolicies
  Months = {1, 2}
  QuotaRequests = 3
  Logins = {1, 2, 3}
  ResetCodes = {1, 2}
  SessionCap = 2
  SessionRequests = 4
  Ticks = {1, 2}
  Jobs = {1, 2}
  Every <- MCEvery
  SchedulerTime = 2
  Happenings = {1, 2}
  Tasks = {r1, r2}
  MaxSweeps = 1
  NoticeFaults = 1
  MaxChanges = 1
  Contacts = {1, 2}
  Phones = {"p", "prefixed", "spaced", "q"}
  NumberOf <- MCNumberOf
  Compact = {"p", "prefixed", "q"}
  Files <- MCFiles
  RecordRequests = 2
  FactorCodes = {1, 2}
  FactorRequests = 5
  Tills = {1, 2}
  Years = {1, 2}
  Prefixes = {"CN", "INV", "BILL"}
  LengthOf <- MCLengthOf
  FirstNumbers = {0, 9998}
  MaxNumbers = 3
  PageEdits = 2
  MaxPages = 3
  Papers = {1, 2, 3}
  Stocks = {1}
  BillTotal = 1
  StockEdits = 1
  Amounts = {1, 2}
  ExpenseRequests = 4
  Businesses = {1, 2}
  Stages = {1}
  Term = 2
  GraceTerm = 1
  TrialTerm = 1
  Batch = 1
  Ttl = 2
  AccessTime = 4
  AccessRequests = 3
  PlanEdits = 1
  TaxDocs = {1, 2}
  States = {"A", "B"}
  TaxMonths = {1, 2}
  Carts <- MCCarts
  Discounts <- MCDiscounts
  Buyers <- MCBuyers
  DefaultRate = 18
  LawChange = 2
  Threshold = 100
  LegacyThreshold = 120
  Under <- MCUnder
SYMMETRY Symmetry
CHECK_DEADLOCK FALSE
INVARIANTS CopiesExact NumbersExact OneDocumentPerClaim PrintedIsKept CancelledStopsDebits PerksExact TeamGoverned QuotaExact SessionsSound FactorSound WindowHeld NoticesExact RecordsSound StockExact BooksExact AccessExact ReturnExact
