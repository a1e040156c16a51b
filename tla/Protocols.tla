------------------------------ MODULE Protocols ------------------------------
(***************************************************************************)
(* The small protocols and books side by side.  They share no state: a     *)
(* behaviour picks one of them, which runs, while the variables of the     *)
(* others stay empty.  The constants are those of the modules, by part.    *)
(***************************************************************************)
EXTENDS Integers, FiniteSets

CONSTANTS
  Requests,                                            \* requests that overlap, of any part
  Rows, Readers, Lag, MaxCommit, PageSize, Retention, PullTime, MaxWrites,      \* SyncPull
  Registering, Calls, MaxIndex, MaxAttempts, DeviceOf,                      \* DeviceSeries
  Sales, PushFaults, MaxExpiries,                                               \* SyncPush
  Mandates,                                                                      \* Mandate
  Referred, Payments, OwnerOf, CouponCap, PerkCrashes,                             \* Perks
  People, Founders, Invitations, Seats, TeamRequests,                               \* Team
  Policies, Months, QuotaRequests,                                                 \* Quota
  Logins, ResetCodes, SessionCap, SessionRequests,                              \* Sessions
  Ticks, Jobs, Every, SchedulerTime,                                           \* Scheduler
  Happenings, Tasks, MaxSweeps, NoticeFaults, MaxChanges,                        \* Notices
  Contacts, Phones, NumberOf, Compact, Files, RecordRequests,                    \* Records
  FactorCodes, FactorRequests,                                                 \* TwoFactor
  Tills, Years, Prefixes, LengthOf, FirstNumbers, MaxNumbers,                  \* Numbering
  PageEdits, MaxPages,                                                          \* PdfCache
  Papers, Stocks, BillTotal, StockEdits,                                           \* Trade
  Amounts, ExpenseRequests,                                                     \* Expenses
  Businesses, Stages, Term, GraceTerm, TrialTerm, Batch, Ttl,
  AccessTime, AccessRequests, PlanEdits,                                          \* Access
  TaxDocs, States, TaxMonths, Carts, Discounts, Buyers, DefaultRate, LawChange,
  Threshold, LegacyThreshold, Under                                            \* TaxReturn

VARIABLES
  part,     \* the part that runs
  now, stamp, version, deleted, writing, phase, cursor, start, copy,
  index, revoked, call, landed,
  counter, docs, stamped, key, local, kind, printed, answer, slot, faults,
  expiries, runs, cut,
  remote, sent, charged, mirror, task, quit, orphans, misled,
  ref, rewards, added, honoured, days, paid, count, redemptions, perk, lost, leaked, late, blended,
  forfeited,
  role, standing, invited, asked, heard, raced, crowded,
  terms, month, lapsed, usage, issued, meter, metered, wasted, strayed, contested, denied,
  session, recent, held, password, code, signing, signed, overlapped, astray, spent, doubled,
  clock, lastRunAt, tick, claims,
  owing, due, level, event, made, open, sending, pushed, teller, sweeps, glitches, changes,
  unnamed, untold, unsent, outgrown, stale,
  doc, device, editing, edited, imported, meanwhile, typed, clobbered, misreported,
  user, challenge, trusted, proving, proved, crossed, switched, missed, accepted, repeated,
  answers, shared,
  prefix, year, sequence, counters, series, unpushed, papers, refused, numbered,
  invoice, objects, paging, paged, rapid, outdated, adrift,
  stock, tracked, recorded, paper, cancelling, onAccount, payable, edits, unrecorded,
  retracked, forced, outrun,
  supported, expense, posted, reversed, filing, filed, torn,
  today, offered, cache, sub, badge, using, used, told, sweptAt, bought, replaced, doubly,
  hurried,
  settings, supplied, takenBack

Pull == INSTANCE SyncPull WITH
  Devices <- Readers, Limit <- PageSize, MaxTime <- PullTime
Series == INSTANCE DeviceSeries WITH Devices <- Registering
SalesPush == INSTANCE SyncPush WITH Slots <- Requests, MaxFaults <- PushFaults
Autopay == INSTANCE Mandate WITH Slots <- Requests
Rewards == INSTANCE Perks WITH
  Cap <- CouponCap, Slots <- Requests, MaxCrashes <- PerkCrashes, task <- perk
Members == INSTANCE Team WITH
  Limit <- Seats, Slots <- Requests, MaxRequests <- TeamRequests,
  request <- asked, served <- heard
Metered == INSTANCE Quota WITH
  Slots <- Requests, MaxRequests <- QuotaRequests,
  request <- meter, served <- metered, leaked <- wasted
Signed == INSTANCE Sessions WITH
  Codes <- ResetCodes, Cap <- SessionCap, Slots <- Requests, MaxRequests <- SessionRequests,
  request <- signing, served <- signed
Sched == INSTANCE Scheduler WITH MaxTime <- SchedulerTime
Told == INSTANCE Notices WITH
  Events <- Happenings, MaxFaults <- NoticeFaults, task <- teller, faults <- glitches
Book == INSTANCE Records WITH
  Docs <- Contacts, Slots <- Requests, MaxRequests <- RecordRequests,
  request <- editing, served <- edited, raced <- typed
Factor == INSTANCE TwoFactor WITH
  Codes <- FactorCodes, Slots <- Requests, MaxRequests <- FactorRequests,
  request <- proving, served <- proved, late <- missed, spent <- accepted, doubled <- repeated
Numbers == INSTANCE Numbering WITH
  Devices <- Tills, Begin <- FirstNumbers,
  local <- series, printed <- unpushed, count <- numbered
Pages == INSTANCE PdfCache WITH
  Slots <- Requests, MaxEdits <- PageEdits, request <- paging, served <- paged,
  astray <- adrift
Goods == INSTANCE Trade WITH MaxEdits <- StockEdits, raced <- outrun, switched <- retracked
Spending == INSTANCE Expenses WITH
  Slots <- Requests, MaxRequests <- ExpenseRequests, request <- filing, served <- filed
Plans == INSTANCE Access WITH
  Slots <- Requests, MaxTime <- AccessTime, MaxRequests <- AccessRequests,
  MaxEdits <- PlanEdits,
  now <- today, mirror <- badge, request <- using, served <- used, overlapped <- doubly
Return == INSTANCE TaxReturn WITH
  Docs <- TaxDocs, Months <- TaxMonths, Customers <- Buyers, Change <- LawChange,
  doc <- supplied

ASSUME ProtocolShape ==
  /\ Pull!PullShape /\ Sched!SchedulerShape /\ Metered!QuotaShape
  /\ Members!TeamShape /\ Factor!FactorShape /\ Pages!CacheShape
  /\ Series!SeriesShape /\ Numbers!NumberingShape /\ Autopay!MandateShape /\ Rewards!PerksShape
  /\ Goods!TradeShape /\ Spending!ExpensesShape /\ Plans!AccessShape
  /\ Told!NoticesShape /\ Book!RecordsShape /\ SalesPush!PushShape /\ Return!TaxShape
  /\ Signed!SessionsShape

pullVars == <<now, stamp, version, deleted, writing, phase, cursor, start, copy>>
seriesVars == <<index, revoked, call, landed>>
pushVars == <<counter, docs, stamped, key, local, kind, printed, answer, slot,
              faults, expiries, runs, cut>>
mandateVars == <<remote, sent, charged, mirror, task, quit, orphans, misled>>
perkVars == <<ref, rewards, added, honoured, days, paid, count, redemptions, perk, lost,
              leaked, late, blended, forfeited>>
teamVars == <<role, standing, invited, asked, heard, raced, crowded>>
quotaVars == <<terms, month, lapsed, usage, issued, meter, metered, wasted, strayed, contested, denied>>
sessionVars == <<session, recent, held, password, code, signing, signed, overlapped, astray,
                 spent, doubled>>
schedulerVars == <<clock, lastRunAt, tick, claims>>
noticeVars == <<owing, due, level, event, made, open, sending, pushed, teller, sweeps,
                glitches, changes, unnamed, untold, unsent, outgrown, stale>>
recordVars == <<doc, device, editing, edited, imported, meanwhile, typed, clobbered, misreported>>
factorVars == <<user, challenge, trusted, proving, proved, crossed, switched, missed, accepted,
                repeated, answers, shared>>
numberVars == <<prefix, year, sequence, counters, series, unpushed, papers, refused, numbered>>
pageVars == <<invoice, objects, paging, paged, rapid, outdated, adrift>>
tradeVars == <<stock, tracked, recorded, paper, cancelling, onAccount, payable, edits,
               unrecorded, retracked, forced, outrun>>
expenseVars == <<supported, expense, posted, reversed, filing, filed, torn>>
accessVars == <<today, offered, cache, sub, badge, using, used, told, sweptAt, bought,
                replaced, doubly, hurried>>
taxVars == <<settings, supplied, takenBack>>
vars == <<part, pullVars, seriesVars, pushVars, mandateVars, perkVars, teamVars,
          quotaVars, sessionVars, schedulerVars, noticeVars, recordVars, factorVars,
          numberVars, pageVars, tradeVars, expenseVars, accessVars, taxVars>>

Parts == {"pull", "series", "push", "mandate", "perks", "team", "quota",
          "sessions", "scheduler", "notices", "records", "factor", "numbers", "pages", "trade",
          "expenses", "access", "tax"}

\* The variables of the protocols that do not run stay empty.
Init ==
  /\ part \in Parts
  /\ IF part = "pull" THEN Pull!Init
     ELSE now = {} /\ stamp = {} /\ version = {} /\ deleted = {} /\ writing = {} /\
          phase = {} /\ cursor = {} /\ start = {} /\ copy = {}
  /\ IF part = "series" THEN Series!Init
     ELSE index = {} /\ revoked = {} /\ call = {} /\ landed = {}
  /\ IF part = "push" THEN SalesPush!Init
     ELSE counter = {} /\ docs = {} /\ stamped = {} /\ key = {} /\ local = {} /\ kind = {} /\
          printed = {} /\ answer = {} /\ slot = {} /\ faults = {} /\ expiries = {} /\
          runs = {} /\ cut = {}
  /\ IF part = "mandate" THEN Autopay!Init
     ELSE remote = {} /\ sent = {} /\ charged = {} /\ mirror = {} /\ task = {} /\ quit = {} /\
          orphans = {} /\ misled = {}
  /\ IF part = "perks" THEN Rewards!Init
     ELSE ref = {} /\ rewards = {} /\ added = {} /\ honoured = {} /\ days = {} /\ paid = {} /\ count = {} /\
          redemptions = {} /\ perk = {} /\ lost = {} /\ leaked = {} /\ late = {} /\
          blended = {} /\ forfeited = {}
  /\ IF part = "team" THEN Members!Init
     ELSE role = {} /\ standing = {} /\ invited = {} /\ asked = {} /\ heard = {} /\ raced = {} /\
          crowded = {}
  /\ IF part = "quota" THEN Metered!Init
     ELSE terms = {} /\ month = {} /\ lapsed = {} /\ usage = {} /\ issued = {} /\ meter = {} /\ metered = {} /\
          wasted = {} /\ strayed = {} /\ contested = {} /\ denied = {}
  /\ IF part = "sessions" THEN Signed!Init
     ELSE session = {} /\ recent = {} /\ held = {} /\ password = {} /\ code = {} /\ signing = {} /\
          signed = {} /\ overlapped = {} /\ astray = {} /\ spent = {} /\ doubled = {}
  /\ IF part = "scheduler" THEN Sched!Init
     ELSE clock = {} /\ lastRunAt = {} /\ tick = {} /\ claims = {}
  /\ IF part = "notices" THEN Told!Init
     ELSE owing = {} /\ due = {} /\ level = {} /\ event = {} /\ made = {} /\ open = {} /\
          sending = {} /\ pushed = {} /\ teller = {} /\ sweeps = {} /\ glitches = {} /\
          changes = {} /\ unnamed = {} /\ untold = {} /\ unsent = {} /\ outgrown = {} /\
          stale = {}
  /\ IF part = "records" THEN Book!Init
     ELSE doc = {} /\ device = {} /\ editing = {} /\ edited = {} /\ imported = {} /\
          meanwhile = {} /\ typed = {} /\ clobbered = {} /\ misreported = {}
  /\ IF part = "factor" THEN Factor!Init
     ELSE user = {} /\ challenge = {} /\ trusted = {} /\ proving = {} /\ proved = {} /\
          crossed = {} /\ switched = {} /\ missed = {} /\ accepted = {} /\ repeated = {} /\
          answers = {} /\ shared = {}
  /\ IF part = "numbers" THEN Numbers!Init
     ELSE prefix = {} /\ year = {} /\ sequence = {} /\ counters = {} /\ series = {} /\
          unpushed = {} /\ papers = {} /\ refused = {} /\ numbered = {}
  /\ IF part = "pages" THEN Pages!Init
     ELSE invoice = {} /\ objects = {} /\ paging = {} /\ paged = {} /\ rapid = {} /\
          outdated = {} /\ adrift = {}
  /\ IF part = "trade" THEN Goods!Init
     ELSE stock = {} /\ tracked = {} /\ recorded = {} /\ paper = {} /\ cancelling = {} /\
          onAccount = {} /\ payable = {} /\ edits = {} /\ unrecorded = {} /\ retracked = {} /\
          forced = {} /\ outrun = {}
  /\ IF part = "expenses" THEN Spending!Init
     ELSE supported = {} /\ expense = {} /\ posted = {} /\ reversed = {} /\ filing = {} /\
          filed = {} /\ torn = {}
  /\ IF part = "access" THEN Plans!Init
     ELSE today = {} /\ offered = {} /\ cache = {} /\ sub = {} /\ badge = {} /\ using = {} /\
          used = {} /\ told = {} /\ sweptAt = {} /\ bought = {} /\ replaced = {} /\
          doubly = {} /\ hurried = {}
  /\ IF part = "tax" THEN Return!Init
     ELSE settings = {} /\ supplied = {} /\ takenBack = {}

\* The variables of the protocols that do not run keep their values.
Only(p) ==
  /\ part = p /\ part' = p
  /\ (p # "pull" => UNCHANGED pullVars)
  /\ (p # "series" => UNCHANGED seriesVars)
  /\ (p # "push" => UNCHANGED pushVars)
  /\ (p # "mandate" => UNCHANGED mandateVars)
  /\ (p # "perks" => UNCHANGED perkVars)
  /\ (p # "team" => UNCHANGED teamVars)
  /\ (p # "quota" => UNCHANGED quotaVars)
  /\ (p # "sessions" => UNCHANGED sessionVars)
  /\ (p # "scheduler" => UNCHANGED schedulerVars)
  /\ (p # "notices" => UNCHANGED noticeVars)
  /\ (p # "records" => UNCHANGED recordVars)
  /\ (p # "factor" => UNCHANGED factorVars)
  /\ (p # "numbers" => UNCHANGED numberVars)
  /\ (p # "pages" => UNCHANGED pageVars)
  /\ (p # "trade" => UNCHANGED tradeVars)
  /\ (p # "expenses" => UNCHANGED expenseVars)
  /\ (p # "access" => UNCHANGED accessVars)
  /\ (p # "tax" => UNCHANGED taxVars)

Next ==
  \/ Only("pull") /\ Pull!Next
  \/ Only("series") /\ Series!Next
  \/ Only("push") /\ SalesPush!Next
  \/ Only("mandate") /\ Autopay!Next
  \/ Only("perks") /\ Rewards!Next
  \/ Only("team") /\ Members!Next
  \/ Only("quota") /\ Metered!Next
  \/ Only("sessions") /\ Signed!Next
  \/ Only("scheduler") /\ Sched!Next
  \/ Only("notices") /\ Told!Next
  \/ Only("records") /\ Book!Next
  \/ Only("factor") /\ Factor!Next
  \/ Only("numbers") /\ Numbers!Next
  \/ Only("pages") /\ Pages!Next
  \/ Only("trade") /\ Goods!Next
  \/ Only("expenses") /\ Spending!Next
  \/ Only("access") /\ Plans!Next
  \/ Only("tax") /\ Return!Next

Spec == Init /\ [][Next]_vars

-----------------------------------------------------------------------------
\* A device's copy is complete but for the rows of slow writers (SyncPull), and a rendered
\* page is as fresh as the invoice (PdfCache).
CopiesExact ==
  /\ part = "pull" => Pull!TypeOK /\ Pull!NothingSkipped
  /\ part = "pages" => Pages!TypeOK /\ Pages!PagesExact

\* A registration is refused only when others landed (DeviceSeries), and a printed invoice
\* only for a reason; no number is on two papers (Numbering).
NumbersExact ==
  /\ part = "series" => Series!TypeOK /\ Series!RefusedOnlyByTraffic
  /\ part = "numbers" => Numbers!TypeOK /\ Numbers!NumbersExact

\* A sale pushed or posted again becomes one document per claim (SyncPush).
OneDocumentPerClaim == part = "push" => SalesPush!TypeOK /\ SalesPush!OneDocumentPerClaim

\* An acknowledged sale is written under its printed number, and the series moves past it
\* unless a crash cut in (SyncPush).
PrintedIsKept == part = "push" => SalesPush!AcknowledgedIsWritten /\ SalesPush!NumberBurned

\* A customer who cancelled is not debited again (Mandate).
CancelledStopsDebits == part = "mandate" => Autopay!TypeOK /\ Autopay!CancelledStopsDebits

\* Coupon slots are neither lost nor handed out twice; referrals are rewarded once and in
\* full (Perks).
PerksExact == part = "perks" => Rewards!TypeOK /\ Rewards!CouponExact /\ Rewards!RewardsExact

\* A business keeps an owner, and its seats (Team).
TeamGoverned == part = "team" => Members!TypeOK /\ Members!TeamGoverned

\* A unit of a quota is counted once and given back to where it came from (Quota).
QuotaExact == part = "quota" => Metered!TypeOK /\ Metered!QuotaExact

\* Sessions are capped, signed with today's password and can go on (Sessions).
SessionsSound == part = "sessions" => Signed!TypeOK /\ Signed!SessionsSound

\* A second factor is switched, spent and trusted once, whatever overlaps (TwoFactor).
FactorSound == part = "factor" => Factor!TypeOK /\ Factor!FactorSound

\* A job runs once in a window (Scheduler).
WindowHeld == part = "scheduler" => Sched!TypeOK /\ Sched!WindowHeld

\* Nobody is reminded of what is settled, nor pushed to twice (Notices).
NoticesExact == part = "notices" => Told!TypeOK /\ Told!NoticesExact

\* An edit is not overwritten unseen, and a phone has one customer (Records).
RecordsSound == part = "records" => Book!TypeOK /\ Book!RecordsSound

\* Stock is what its movements say, and undone papers leave none (Trade).
StockExact == part = "trade" => Goods!TypeOK /\ Goods!StockExact

\* One invoice for an order, a quotation or a challan; the vendor is owed what the open bills
\* ask (Trade); the ledger shows an expense once (Expenses).
BooksExact ==
  /\ part = "trade" => Goods!InvoicedOnce /\ Goods!PayableExact
  /\ part = "expenses" => Spending!TypeOK /\ Spending!ExpensesPosted

\* A business may do what it bought, and is told when that ends (Access).
AccessExact == part = "access" => Plans!TypeOK /\ Plans!AccessExact

\* Documents add up, and a return holds every supply once (TaxReturn).
ReturnExact == part = "tax" => Return!TypeOK /\ Return!ReturnExact
=============================================================================
