# Verification of the store backend

TLA+ models, TLC runs and TLAPS proofs for the NestJS backend in `src/`: a
multi-tenant store platform with a cashier, members with a balance and points,
online orders, activation codes, subscriptions with billing, publishing and
login. This file says what the system consists of, which part is modelled
where, what is checked and proved, and what is left.

Contents: 1 the system, 2 modelling conventions, 3 the modules, 4 the runs,
5 the theorems, 6 what is only model-checked, 7 what is not modelled, 8 plan,
9 how to run it.

## 1. The system

One Node process serves HTTP and a WebSocket, runs the scheduled jobs, and
keeps its rows in one SQLite database through Prisma; a cache (sessions, codes,
counters) and a file store lie beside it. Handlers are `async` methods of
services. The process is single-threaded: a handler is interrupted only where
it awaits, and most handlers await between the read they decide on and the
write they do. Some writes are grouped by `$transaction`, one service
(`CashierService`) adds a promise-chain lock, the others have nothing.

### Components

| component | state it keeps | operations | talks to |
|---|---|---|---|
| Cashier (`store/cashier`) | `user_order`, `store_order_refund`, `store_pay_pending`, the promise chain `lockPromise` | `pushOrder`, `refundOrder`, pending orders (create, update, poll, expire), `memberPay` | writes the balance and points of Member accounts |
| Member accounts (`store/member`) | `store_member` (balance, points, status), `store_recharge` | create, update, remove, recharge, `refundBalance` | create asks Platform quota for the member limit |
| Platform quota and activation codes (`platform`) | `platform_quota_order`, `platform_activation_code`, `store.extra_member_limit` | order a code, confirm, cancel, redeem | `StoreService.create` redeems store codes in its transaction; member creation reads the limit |
| Online orders (`order`, `users/order`, `store/order`) | `user_order`, `user_order_action`, stock in `store_goods_version` | create, cancel, accept, delivery, confirm payment | Goods: stock; subscriptions: unlimited orders |
| Order statistics (`store/order`, `schedules`) | report rows per store, goods and day | nightly report, statistics, trends, metrics | reads `user_order` while it changes |
| Subscriptions and billing (`store-subscription`, `schedules`) | plan, contract, subscription, invoice, payment rows | subscribe, approve, terminate, pay; nightly job | the job shares invoices with the handlers |
| Settlements (`store/settlement`) | settlement, detail and fee rows per month | generate | reads payments, purchases, orders |
| Store resource quota (`store-resource`, `goods`) | applications, quota row, cached use | apply, approve, check and give back at upload | goods images, `CacheService` |
| Goods and categories | goods, versions, ranks | create, remove, switch rank, move a category | stock of online orders, images |
| Store applications (`store`) | status, history, quota row of a store | open, edit, preview, review, approve, freeze | Platform quota (codes), Store resource quota |
| Staff and attendance | staff rows, one attendance row per staff and day | link at sign-in, punch, correct | Users (phone) |
| Finance (`store/finance`) | finance records, a report row per day | enter, change, remove, rebuild, generate, summarise | the cashier's orders of a day |
| Publishing (`publisher`) | jobs with their targets, articles, metrics | create, schedule, dispatch, refresh, delete | the external ALQQ service, the minute job |
| Publisher accounts | credentials, platform accounts | add, prefer, delete, bind, read back | ALQQ |
| Publisher media | media rows, files by content hash | upload, attach, three collectors | articles, the file store |
| Login (`auth`, `cache-manager`) | cache entries: sessions, presence, QR tickets, SMS codes; password rows | login, kick, QR scan/confirm/poll, codes, lock | guards and interceptors of every request |
| Roles and permissions | `auth`, `auth_role`, `user_role`, cached resources | grant, withdraw, sign-in | every sign-in |
| Chat | a list of sockets and a set of messages per user in Redis | connect, disconnect, send | socket.io |
| Feedback | feedback and attachment rows | create with files, change the status | the file store |
| Users | user rows, visits, a row per user and day | the night's count of visits | every request writes a visit |
| Files, WeChat front end, banner, provinces, general, shell | | I/O, forwarding, static data | |

### What is hard here, and what makes each part correct

* **Cashier.** Refunds read order and member outside their transaction; only
  the promise chain makes those reads current. An order must never give back
  more than it took, in however many parts; points may be taken back once; a
  pending order shown paid must have a charged order; no sale may overdraw; the
  chain must survive rejected calls.
* **Member accounts.** Balances change through five operations, none of which
  takes the lock. Every cent must still be explained by rows.
* **Codes.** Validation and redemption are separate awaits. A code must open
  one store, stay on its store once spent, and not raise a limit twice.
* **Online orders.** Four handlers check the order and write it later without a
  condition. Stock must agree with the action rows, whatever fails or dies.
* **Billing.** Writes one by one without transaction, racing a nightly job that
  may die anywhere. A month must be billed once by the job, a paid invoice must
  be backed by a payment and stay paid, an unpaid one must go overdue.
* **Publishing.** A job's targets are one JSON column that dispatch, catch block
  and refreshes replace by what they read earlier. A platform must be asked once
  whatever is retried, dies or times out; what is shown as published must have
  been published; reads shown must be those of one's own article.
* **Media and images.** Use of a file and its collection, and quota sums and
  uploads, are separate awaits; a cached sum may be older than either.
* **Login.** Codes, tickets, locks, sessions and granted resources are entries
  that handlers read, decide on and write back. Nobody may enter by a ticket
  another phone confirmed, by a code used before, or after being kicked.
* **Reports, settlements, finance.** Sums are computed by several queries while
  the rows change, and written back without transaction.
* **Chat, feedback, visits, staff days, applications, shelves.** Claims,
  counters and merges of the same check-then-write kind.

`PROJECT.json` ("hazards") lists each of these at its line with the properties
that watch it. Many properties therefore say not that a race is impossible but
what may follow from it and from nothing else: a rule holds *unless* a call was
overtaken, and a history variable says which call was.

### Known to go wrong

What the code's own words promise and the code does not keep. The first three
have a run that exhibits them (section 4).

* Two scans of one pending order charge twice (`CashierDoubleCharge`).
* A refresh takes a scheduled job out of the schedule (`ScheduledEarly`).
* Images of finished jobs behind the collector's page stay
  (`MediaNeverReleased`).
* `refundBalance` ("退费金额不能超过账户余额", `member.service.ts:179`) compares
  with a balance read before its transaction: `WithdrawRead` and
  `WithdrawCommit` of Cashier are two steps, and `balance` may become negative.
* `confirmOrder` ("该订单已发码", `platform.service.ts:285`): two confirmations
  that overlap make two codes (`ConfirmRead`, `ConfirmCommit`).
* `accept` ("订单状态已发生改变", `order.service.ts:223`): an order is accepted
  twice, or after its cancellation (`AcceptRead`, `AcceptCommit`).
* `payInvoice` called twice records two payments; the member limit and the
  store count are read before the writes they allow; a till's retry rings up an
  order twice because `local_id` is not stored; points are written back as an
  absolute value read before the refund.
* An approved store that is edited falls back to the start and can never be
  approved again: its quota row exists already (`StoreApplications`). Settings
  changed between preview and review leave an application stuck.
* A used-quota sum cached before goods were removed refuses uploads for up to
  an hour; a replaced image that another version shares is given back although
  it is still shown (`GoodsImages`).
* `switchCategory` to the top keeps the rank, so that ties arise that
  `switchRank` cannot break; `category.create` ranks every category after the
  last one *at the top* (`ShelfOrder`).
* After a crash the list of sockets keeps dead ids for up to a day: messages
  are neither delivered nor queued; the end of one socket takes all of the
  user's sockets off the list (`ChatDelivery`). The members of a new group are
  never written (`chat.controller.ts:54`), so group messages reach nobody.
* When a request to ALQQ fails, a target may take over the record, and the
  reads, of another article with a similar title (`PublishMetrics`).

## 2. Modelling conventions

* **Step boundaries.** A handler is cut only at an `await` that separates a
  read from a write relying on it. `XRead` is the part up to the decision,
  `XCommit` the transaction. Reads that are followed by nothing but an answer
  are no step. A `$transaction` is one step: each one opens with a write or is
  the only writer, SQLite admits one writer, and a throw undoes all of it
  (`XFail`).
* **Requests.** `Reqs` are the HTTP calls in flight. `pc[r]` says where one is,
  `claim[r]` what it carries from its reads. An idle request starts any
  handler, so all overlaps of |Reqs| calls are explored, retries included: a
  retried call is one more call.
* **Crash.** The process restarts: requests and the promise chain are gone,
  the rows stay. It may happen between any two steps.
* **Rows.** Tables are functions from a finite supply of ids; a row that does
  not exist yet is a distinguished value. Where the code depends on insertion
  order (billing) a table is a sequence.
* **History variables**, written by actions and read by none, hold what a
  property needs to speak about the past: `books`, `opening` and `refundLog`
  (sums of rows that are only ever appended), `supplied`, `openedWith`,
  `failures`.
* **Left out:** owner and permission checks (each run is one owner's view),
  texts, formatting, lists, statistics, remarks, timestamps that decide
  nothing. Amounts are integer cents.
* **Unless overtaken.** `met`, `mixed`, `crossed`, `late`, `tied`, `raced` are
  history variables too: they record that a call wrote by what it had read
  before another call's write, and so name the only way a rule may fail.
* A definition introduced by a comment "Mutant of X" is a faulty variant of X.
  No specification uses it; it documents which fault of the code a property
  would notice.
* **Composition.** Modules that share no state are checked in one run: the MC
  module instantiates them side by side, and a variable `part`, chosen at the
  start, says which of them a behaviour is about. Interleaving them would
  multiply the states and show nothing more. In the larger two the variables
  of the other parts have the value `None`. A property of such a run is the
  conjunction of what its part promises; the named parts of it are defined,
  and commented, in the part's own module.

## 3. The modules

```
PayAmounts, SaleLedger <- Cashier <- MCCashier          <- CashierProofs
ActivationCodes                   <- MCActivationCodes  <- ActivationCodesProofs
ServiceBilling                                          <- ServiceBillingProofs
OnlineOrders, OrderReports, Settlements, GoodsImages,
    ShelfOrder, StoreApplications <- MCOnlineOrders     <- StoreProofs
PublishJobs, PublishMetrics, ChatDelivery, Feedback,
    DailyVisits, StaffDays, FinanceReports
                                  <- MCPublishJobs      <- PublishJobsProofs
Sessions, QrLogin, SmsCodes, PasswordLock, RoleGrants
                                  <- MCAccess           <- AccessProofs
PublisherMedia, PublisherAccounts <- MCMedia            <- MediaProofs
SumTheorems is extended by all proof modules but ServiceBillingProofs and
AccessProofs.
```

### PayAmounts — `calcMemberPayAmounts`

Pure operators in cents and points: discount, redemption of points capped by
the bill, payable amount, points earned. The code computes with doubles and
`Math.round`/`Math.floor`; the module uses exact rationals rounded the same way
(half up). `RoundDiv(n, d)` is `Math.round(n/d)` for non-negative `n`. The
settings a store can change are the record `SettingsType`. The cashier runs
show a payable amount that is never negative (`TypeOK`: `cart.money \in Nat`).

### SaleLedger — the promise of the cashier

Two variables: what each sale still owes its customer, and each member's
wallet. A sale is rung up once, atomically with what it takes from the wallet;
a refund takes between one cent and what is left, credits exactly that, and
closes the sale exactly when nothing is left. Everything else that moves a
wallet is an account movement.

### Cashier — `CashierService` with `MemberService`'s account operations

| code | module |
|---|---|
| `withLock`, `lockPromise` | `queue`, `Enqueue`, `Holds`, `Release`: first come first served, released by failing calls too |
| `pushOrder` | `Checkout` (arguments), `PushCommit` (the transaction: member lookup, balance check, deduction, points, order row), `PushFail` |
| `refundOrder` | `AskRefund`, `RefundRead`/`RefundRefuse` (reads and refusals under the lock), `RefundCommit`, `RefundFail` |
| `memberPay` | `PayRead` (pending row), `PayPrice`/`PayRefuse` (member, amounts, first balance check, enters `pushOrder`), `PushCommit`/`PushFail`, `MarkPaid` |
| `createOrUpdatePendingOrder` | `CreatePending`, `UpdateRead`, `UpdateWrite` |
| `getPendingRow`, `getPendingOrderStatus` | `Lapse` (time passes `expire_at`), `FindLapsed`, `ExpireWrite` |
| `recharge`, `update`, `remove`, `create` for a disabled phone, `refundBalance` | `Recharge`, `EditMember`, `RemoveMember`, `ReactivateMember`, `WithdrawRead`/`WithdrawCommit` |

`Guest` is `CASHIER_GUEST`; `Unknown` is a `member_id` that matches no row (the
code then deducts nothing at checkout and refuses the refund). A till's basket
names its own amounts, as the request does. One store; a member's phone is the
member. `balance` may become negative (that is a finding), so it is an integer.

### ActivationCodes — `PlatformService`, `StoreService.create`, member limit

Quota orders are created, confirmed (which makes a code) or cancelled; member
codes are redeemed for a store (`RedeemStoreRead`, `RedeemCodeRead`,
`RedeemCommit`: the store row is read before the code row, and the new limit is
computed from that read); a store is opened by two quota checks and one
transaction that validates the code again (`OpenAllowed`, `OpenCheck`,
`OpenCommit`). `EnrolCheck`/`EnrolCommit` are the member creation that uses the
limit. The two reads of `confirmOrder` are one step because the second one, the
look for an existing code, decides. A code's phone stands for its user.

### OnlineOrders — `OrderService`

`order` holds status and stage as two columns, as the code does; `history` is
the `user_order_action` rows. `AcceptRead`, `StockRead`, `AcceptCommit` are the
three parts of `accept`; `AcceptFail` is the transaction undone because a
version was deleted in between. `stock` may become negative: each line is
compared by itself and outside the transaction. `receive`, `finish` and
`remove` are not modelled: no route reaches them with an order they accept
(`wx` calls `cancel` and `delete`, and the latter needs a finished order). For
the same reason the daily quota of `create` is modelled as written and never
refuses.

### ServiceBilling — `StoreServiceService`, `StoreServiceBillingCronService`

One store and one plan. Time is counted in half months because the code tells
apart only months, the due date inside a month, and start and end dates one
month apart. `Tick` waits for handlers and job: both last milliseconds, and a
step of the clock is two weeks. Everything but approval is written row by row,
so each write is a step and `Abort` may stop a handler after any of them.
`JobStart` reads the active subscriptions once, `JobCheck`/`JobBill` visit them
one by one, `JobOverdue` marks the unpaid invoices that are due, `JobFails`
is the job dying. Contracts are folded into their subscription (same
transaction).

### PublishJobs — `PublisherService`

| code | module |
|---|---|
| `publish` | `Publish` (article read), `PublishCreate`, `PublishAnnounce` |
| `dispatchImmediatePublish` | `DispatchRead`, then submission, `SubmitWrite`, `SubmitArticle`; catch block `FailWrite`, `FailArticle` |
| `executeDueScheduledJobs` | `DueRead`, `DueClaim`, `getArticle` as `DueLatest` and `DueLoad` (with the refresh in between), submission, `SubmitWrite`, `SubmitArticle`; catch block `FailWrite` |
| `publishViaAlqq`, `runAlqqOrFail` | `SubmitPlan`, `SubmitBatch` per executor, `SubmitFail` |
| `syncJobRowFromAlqq` and its callers | `SyncRead`, `SyncFetch`, `SyncWrite`, `SyncArticle` |
| `deleteArticle`, clean-up of drafts, `updateArticle` | `DeleteJobs`, `DeleteArticle`, `UpdateArticle` |

Workers are requests, background dispatches and runs of the minute job. A run
of the minute job handles its due rows one after another; here each is a worker
of its own, which may start as late as the loop would. Whether a platform has a
publishable account and an executor that is online is the choice in
`SubmitPlan`. `Throw` is any failing database or ALQQ call outside submission;
where a `try` surrounds it, the catch block follows. `SubmitFail` also covers a
batch that ALQQ accepted although the call timed out. `remote` is ALQQ, which
the code only uses: it counts submissions and settles each at some time.

### PublishMetrics — the reads of what was published

`View` reads a job's row, `ReadBatch` asks ALQQ for its batch, `ReadRecords`
for the publish records page by page; `Matched` picks the record by id, else by
title, else because it is the only one (`matchAnalyticsItem`), `Applied` takes
its id and its reads, and `WriteTarget` writes the row back. `Enriches` is the
condition under which the second request is made at all. ALQQ's side is
`Submit`, `Ends`, `IsRead`; whether it names records in its batches and whether
it pages its lists is `api`.

### PublisherMedia, PublisherAccounts

`PublisherMedia`: an upload is three steps (sum, store, attach), saving an
article rewrites its rows and collects what it dropped, publishing and deletion
release, and the collectors (`gcUnusedHashes`, the orphan page, the page of
finished jobs) find, look again and delete in separate steps. `PublisherAccounts`: the credentials of a user,
the default among them, the account rows under each (`''` is credential 0: rows
from before credentials existed), and ALQQ's answer applied row by row.

### Sessions, QrLogin, SmsCodes, PasswordLock, RoleGrants — login

* `Sessions`: session keys, `user-session-map`, `kicked:*`, and handlers that
  register, refresh, log out or kick step by step; `Scan` is the job that counts
  who is online and drops dead entries.
* `QrLogin`: one ticket; scan, confirm and poll each read it, `set` it and put
  its time to live back. `Restart` may fall between the two.
* `SmsCodes`: token, cooldown, daily and address limits before a message; check
  and deletion of a code; what the code is for (sign-up, login, binding, a
  forgotten password), each looking the phone up before it writes it.
* `PasswordLock`: one row of failures and lock date, read before the password is
  compared and written by `loginFail` afterwards; resets in between.
* `RoleGrants`: administrators' edits of permissions, links and user roles, and
  sign-ins that read them twice, cache them and answer from the cache.

### OrderReports, Settlements, FinanceReports — sums of changing rows

* `OrderReports`: the nightly job reads and writes in three rounds
  (`StoreQuery`/`StoreWrite`, `GoodsQuery`/`GoodsWrite`, `PlatformWrite`) while
  orders are placed, advanced and cancelled; `getStatistics` counts stage after
  stage (`StatStart` to `StatAnswer`); trends, metrics and the daily report are
  operators on the rows. Orders have one amount, so counts stand for sums.
* `Settlements`: one `Collect` per query of `generateMonthlySettlement`, fees
  written on the way (`FeeLookup`, `FeeCreate`), then one row with its details.
  `Fail` is any call that throws; a run before the month is over is possible,
  because the route takes a month (`early`).
* `FinanceReports`: enter, move, update and delete records, each followed by
  `SyncRead` and `SyncPut` of its days' report rows; rebuild on a summary; the
  generation of a day's revenue from the till (`Preview`, `Apply`). The day
  detail, the list with merged overhead, the calendar and the summary are
  operators compared with the reports. Amounts are cents; water and electricity
  share a column.

### GoodsImages, ShelfOrder, StoreApplications — a store's back office

* `GoodsImages`: applications raise the quota in three steps (mark, read, add);
  an upload reads quota and cached use, may compute and cache it, checks,
  drops the cache and writes the version; updates give the old image back.
  Images are of size one.
* `ShelfOrder`: ranks of goods and categories; creation after the last one,
  exchange of neighbours, a category taken below another or to the top.
* `StoreApplications`: status, history and quota row; each call reads the store
  and commits later. `Note` is a change of settings (which touches the row),
  `Restart` forgets the calls under way.

### StaffDays, Feedback, DailyVisits, ChatDelivery

* `StaffDays`: a staff row, the phone and the account it belongs to, and one
  day's attendance: sign-in links a row found by phone, punches and corrections
  read the day before they write it.
* `Feedback`: count, create, attach and upload; a call may fail with part of it
  done, and midnight may pass between count and create.
* `DailyVisits`: visits are recorded while the night's job groups yesterday's
  and upserts a row per user; a user's step may throw, the process may die or be
  down at three.
* `ChatDelivery`: one user. `Connect`, `StartTelling`, `Tell`, `TellingDone`
  follow `handleConnection`; `Disconnect` and `Remove` follow
  `handleDisconnect`; `Send` reads the list of sockets and `Deliver` queues or
  emits by what was read; the two Redis keys expire; `Restart` forgets the
  sockets and keeps Redis.

## 4. The runs

| run | module | instance | checks | shows |
|---|---|---|---|---|
| `CashierRefunds` | MCCashier | 1 member, 2 orders, 2 requests, amounts 1–2, no pending rows | `RefundBooks`, `RefundReadsCurrent`, `BalanceExplained`, `PointsReversedOnce`, `ImplementsLedger` | refunds stay exact under every overlap with checkouts, account operations and restarts |
| `CashierScan` | MCCashier | 1 member, 2 orders, 1 pending row, 2 requests | `TypeOK`, `PaidHasOrder`, `SalesNeverOverdraw` | scan payments, updates and expiry overlap; paid implies charged |
| `CashierLive` | MCCashier | 1 order, 1 pending row, 2 requests, fairness | `RequestsAnswer` | the chain never blocks, also after failures |
| `CodesRedeem` | MCActivationCodes | 2 users, 3 stores, 2 quota orders, 2 codes, 2 requests | `ExtraWithinCodes`, `StoreCodesOpenOne`, `SpentCodesStay` | a code has one effect although it is validated early |
| `BillingRaces` | ServiceBilling | 1 subscription, 2 months, 2 requests, 2 payments, 1 dying run | `PaymentsHold`, `JobBillsOnce`, `BilledWithinTerm`, `UnpaidGoesOverdue` | the job and the handlers may die and overlap without double billing or lost payments |
| `OnlineOrdersRace` | MCOnlineOrders | 2 orders, 2 versions, 2 requests, 2 baskets; beside it the five back-office modules, each with 2 handlers | `StockLedger`, `OrdersFollowActions`, `ReportsAgree`, `SettlementWhole`, `QuotaHolds`, `ShelfOrderly`, `ApprovalsStand` | stock and rows agree with the action rows; reports, settlement, quota, ranks and applications go wrong only where a call was overtaken |
| `PublishRaces` | MCPublishJobs | 1 job, 2 platforms, 2 executors, 2 workers; beside it six services, each with 2 handlers | `SubmittedOnce`, `TargetsTrue`, `PublishedIsReal`, `MetricsOwn`, `ChatAccounted`, `FeedbackKept`, `VisitsReported`, `StaffDaysStand`, `BooksAgree` | timeouts, restarts and stale refreshes neither submit twice nor show a success that was none; what the services around lose, and when |
| `MediaRaces` | MCMedia | 2 images, 1 article, 2 editors, pages of 1; 1 platform, 2 credentials | `ImagesKept`, `AccountsSound` | five ways to delete a file race uploads and saves; credentials and accounts race ALQQ's answers |
| `LoginRaces` | MCAccess | 1 user with 2 sessions and 2 handlers; 2 phones at 1 ticket; 2 senders; 2 attempts of 3 failures; 2 roles, 1 permission, 2 sign-ins | `KicksHold`, `DeadLeave`, `QrSound`, `SmsSound`, `LockSound`, `WithdrawnIsGone` | nobody gets in by another's ticket, a used code, during a lock or after a kick |
| `CashierDoubleCharge` | MCCashier | | `PendingChargedOnce` violated | two scans of one pending order charge twice |
| `ScheduledEarly` | PublishJobs | | `ScheduledUntilDue` violated | a refresh takes a scheduled job out of the schedule before its time |
| `MediaNeverReleased` | PublisherMedia | | `ReleasedWhenDue` violated | finished jobs whose images are gone fill the collector's page for ever |

The violations are in `PROJECT.json` ("findings") with the words of the code
that promise otherwise.

The properties of the composed runs, part by part (the named parts are in the
part's module):

| property | of module | named parts |
|---|---|---|
| `OrdersFollowActions` | OnlineOrders | `TypeOK`, `StageExplained`, `CancelledStays` |
| `ReportsAgree` | OrderReports | `ViewsAgree`, `GoodsWithinOrders`, `StatsCover` |
| `SettlementWhole` | Settlements | `MonthComplete`, `FeeAccounted` |
| `QuotaHolds` | GoodsImages | `QuotaExplained`, `UsageKept`, `CacheCovers`, `RefusalsExplained` |
| `ShelfOrderly` | ShelfOrder | `RanksDistinct`, `NeighboursSwitch` |
| `ApprovalsStand` | StoreApplications | `ApprovedHasQuota`, `ApprovedAsSeen`, `ReviewFollowsPreview` |
| `TargetsTrue` | PublishJobs | `TypeOK`, `StatusMatches`, `SuccessIsReal`, `UnboundUntouched` |
| `MetricsOwn` | PublishMetrics | `OwnRecord`, `ReadsAreOwn`, `ReadsVanishLate` |
| `ChatAccounted` | ChatDelivery | `NoneDisappears`, `DeadIdsAfterRestart`, `WaitsBesideSocket` |
| `FeedbackKept` | Feedback | `LimitOvertaken`, `AnsweredWhole` |
| `VisitsReported` | DailyVisits | `ReportsFinal`, `OthersReported` |
| `StaffDaysStand` | StaffDays | `OutAfterIn`, `CheckInStays`, `OwnerStays`, `LinkStays` |
| `BooksAgree` | FinanceReports | `ReportExplained`, `SumsAgree`, `TakeawayKept` |
| `ImagesKept` | PublisherMedia | `QuotaNearlyKept`, `LostOnlyByOverlap` |
| `AccountsSound` | PublisherAccounts | `OneDefault`, `BoundIsKnown`, `AccountsStay` |
| `KicksHold`, `DeadLeave` | Sessions | `KickHolds` |
| `QrSound` | QrLogin | `EnteredByScanner`, `TicketTimed`, `SpentStaysSpent` |
| `SmsSound` | SmsCodes | `SmsLimited`, `UsedCodesDie`, `PhoneKept` |
| `LockSound` | PasswordLock | `LockedAtLimit`, `LockLastsTheDay` |
| `WithdrawnIsGone` | RoleGrants | |
| `PaymentsHold` | ServiceBilling | `TypeOK`, `PaidHasPayment`, `PaidStays` |

### Bounds, and why they are enough

* **Two requests.** Every race in this code is between one handler's read and
  one other writer. A third party is always there in the unlocked actions
  (account operations, expiry, stock edits, the job, a crash), which need no
  request of their own.
* **Two orders**: refunds of one order overlap, and refunds of two orders share
  a member. **Amounts 1 and 2**: a partial and a full refund of an order of 2,
  and a refund beyond it. **One member**: no operation touches two members.
  The theorems of section 5 hold for any number of each.
* **`MaxBooks`** bounds recharges, account refunds and edits (they could go on
  for ever); 2 is the price of the dearest basket, so both a covered and an
  uncovered sale occur.
* **Three stores, two codes**: a free store, one opened by a code, and room for
  a second use of that code. **`MaxMembers`** 1: a row to enrol, disable and
  revive.
* **`Counts`** {1}: with baskets that take one or two of a version, stock is
  enough, just enough, and negative.
* **`LastTick`** 2 covers both halves of the first month and the beginning of
  the second: an invoice falls due, a subscription ends, a month changes.
  **One subscription**: two meet only in the two checks of
  `createSubscription`, which overlapping calls pass together anyway;
  `MaxPayments` 2 admits the double payment; `MaxFailures` 1 lets a run die
  anywhere and the next one repeat it.
* **One job, two platforms** in `PublishRaces`: the hazards are between the
  writers of one row, and two platforms make a batch that half succeeds. Jobs
  of one article share only its status and the refresh of the latest job
  (`DueLatest`). With `MaxJobs = 2` and one platform the same properties hold
  over 3.4 million states; with two platforms that instance is too large to be
  run routinely.
  `MaxReads` 0: a record's readers are unknown or counted, and a refresh that
  mixes up two records shows a count where there is none; with 1 the properties
  hold over 2.8 million states.
* **The composed parts** have two handlers each (and whatever needs none: time,
  expiry, ALQQ, restarts), and two of whatever can be confused: days, stores,
  titles, images, phones, roles. `MaxCalls` bounds the calls of a behaviour to
  what a handler, one that overtakes it and one that starts after both need
  (four to six where a call is one of several of a protocol). Pages of one
  entry (`PageSize`, `OrphanPage`, `JobPage`) and limits of one
  (`DailyLimit`, `Quota`) make the boundary case occur with two rows.
  `LastDay`/`LastMonth` 2 or 3 give a day that is over and one that is not.
* **Three shelf items, two categories**: the exchange of neighbours needs one
  item that is no neighbour. **Three failures** (`FailedTimes`):
  the lock at the third, with two attempts that overlap. **Three tokens**
  (`MaxTokens`): SMS tokens before, at and beyond the limits of one and two.
* The supplies of ids and calls are finite, and an article ends, so
  `OnlineOrdersRace`, `PublishRaces`, `MediaRaces`, `LoginRaces` and
  `ScheduledEarly` may stop when nothing is left to do
  (`CHECK_DEADLOCK FALSE`); every other run checks for deadlock.
* TLC's coverage of the composed runs lists no expression of a part that is
  never evaluated: no guard, branch or failure of a part is out of reach.
* Symmetry is used in runs without liveness only, over ids no action compares.

### Fairness

* `Cashier!FairSpec` has weak fairness of `Continue(r)` for each request: the
  event loop resumes a handler when its await is settled, and every awaited
  database call settles, with an answer or an error. Beginning a request and
  crashing are not fair. The queue needs no stronger assumption because it is
  first come first served.
* `ServiceBilling!Spec` has weak fairness of `Job`: the scheduler starts it
  every night and Node runs it to its end unless it dies, which `JobFails` does
  a bounded number of times. Nothing is assumed about handlers, or the clock.
* `Sessions!Spec` has weak fairness of `Scan`, the job that visits the users
  online: the timer starts it again every few minutes. Handlers and crashes are
  not fair.
* `PublisherMedia!MediaSpec` has weak fairness of `Resume(e)`, a handler that
  began goes on, and strong fairness of the collector's start
  (`PublishedRead`): it begins again and again whatever else runs. Even so the
  images behind its page stay, which is the point of `MediaNeverReleased`.

## 5. The theorems

Every safety property that a passing run checks is proved for all values of
the constants that satisfy the modules' assumptions.

| theorem | statement |
|---|---|
| **CashierProofs** | |
| `TypeCorrect` | `Spec => []TypeOK` |
| `RefundsReadCurrentRows` | `Spec => []RefundReadsCurrent` |
| `RefundsWithinMoney` | `Spec => []RefundBooks` |
| `PointsGoBackOnce` | `Spec => PointsReversedOnce` |
| `SalesStayInBalance` | `Spec => SalesNeverOverdraw` |
| `PaidOrdersExist` | `Spec => []PaidHasOrder` |
| `CashierImplementsLedger` | `Spec => ImplementsLedger` |
| `BalancesAlwaysExplained` | `Spec => []BalanceExplained` |
| **ActivationCodesProofs** | |
| `StoreCodesOpenOneStore` | `Spec => []StoreCodesOpenOne` |
| `CodesStaySpent` | `Spec => SpentCodesStay` |
| `LimitsAlwaysCovered` | `Spec => []ExtraWithinCodes` |
| **ServiceBillingProofs** | |
| `BillsHold` | `Spec => PaymentsHold` |
| `BilledOnce` | `Spec => []JobBillsOnce` |
| `BilledInTerm` | `Spec => []BilledWithinTerm` |
| **StoreProofs** | |
| `OrdersAlwaysFollow` | `StoreSpec => OrdersFollowActions` |
| `StockAlwaysExplained` | `StoreSpec => []StockLedger` |
| `SettlementsStayWhole` | `StoreSpec => []SettlementWhole` |
| `ReportsAlwaysAgree` | `StoreSpec => []ReportsAgree` |
| `QuotaAlwaysHolds` | `StoreSpec => []QuotaHolds` |
| `ShelvesStayOrderly` | `StoreSpec => ShelfOrderly` |
| `ApprovalsAlwaysStand` | `StoreSpec => ApprovalsStand` |
| **PublishJobsProofs** | |
| `NeverSubmittedTwice` | `Spec => []SubmittedOnce` |
| `RowsTellTheTruth` | `Spec => []TargetsTrue` |
| `PublishedArticlesExist` | `Spec => PublishedIsReal` |
| `MetricsAlwaysOwn` | `ServicesSpec => MetricsOwn` |
| `ChatAlwaysAccounted` | `ServicesSpec => []ChatAccounted` |
| `FeedbackAlwaysKept` | `ServicesSpec => []FeedbackKept` |
| `VisitsAlwaysReported` | `ServicesSpec => []VisitsReported` |
| `StaffDaysAlwaysStand` | `ServicesSpec => StaffDaysStand` |
| `BooksAlwaysAgree` | `ServicesSpec => BooksAgree` |
| **MediaProofs** | |
| `ImagesStayKept` | `AuthorSpec => []ImagesKept` |
| `AccountsAlwaysSound` | `AuthorSpec => AccountsSound` |
| **AccessProofs** | |
| `KicksAlwaysHold` | `AccessSpec => []KicksHold` |
| `QrAlwaysSound` | `AccessSpec => []QrSound` |
| `SmsAlwaysSound` | `AccessSpec => SmsSound` |
| `LockAlwaysSound` | `AccessSpec => LockSound` |
| `WithdrawnAlwaysGone` | `AccessSpec => WithdrawnIsGone` |

`SumTheorems` holds the lemmas about sums that these modules share.

### Assumptions

Named, in the module that declares the constants; TLC evaluates each of them
in some run.

* **Special values.** `None`, `Guest`, `Unknown`, `"nobody"`, 0 and -1 are not
  rows: in the code they are `null`, a constant or a missing row. Sets of rows
  of different tables do not overlap where one variable holds ids of both.
* **Finite sets.** Wherever rows are counted or summed, the set of rows that
  may ever exist is finite (applications, stores, images, goods, senders).
* **Numbers.** Limits, prices and bounds of the models (`MaxCalls`, `LastDay`)
  are natural numbers, some of them positive: `FreeStores`, `FreeOrders`,
  `FailedTimes` and `DailyLimit` are constants of the code that are. A till's
  basket, the settings of a store and the entries of its books are well typed,
  as the request's validation makes them; a till's day is sums of payments.

No assumption bounds how many requests, rows, platforms or phones there are,
and none excludes an interleaving.

### Composed specifications

`StoreSpec`, `ServicesSpec`, `AuthorSpec` and `AccessSpec` put modules side by
side that share no state. The lemmas `Parts`, `PartsStep` and `AuthorParts` say
that a step of the whole is, for each part, a step of it or none. Where only
one part is alive in a behaviour, its invariant is proved under the condition
`part = ...`; in the others the part is idle and its property holds of that.

### The arguments

What is proved is an invariant `Inv` of each part that implies the property;
for each action there is a lemma that it keeps `Inv`. TLC checked each
invariant before it was proved. What each adds to the property, and why:

* **Cashier, types.** The one arithmetic fact is that a payable amount is a
  natural number: redemption takes at most the bill.
* **Cashier, refunds.** `RefundBooks` is not inductive: a commit adds
  `claim.amount` to the value *read*. `RefundInv` adds `RefundReadsCurrent`: a
  request in `credit` is the head of the chain, and its order is still open
  with the refunded amount it read. The only actions that change an existing
  order are commits, and a commit needs the head of the chain, which is one
  request. That is exactly the protection the promise chain gives; without it
  (mutant `HoldsAnyWaiting`) the invariant fails. `ClearsOnce` says the same of
  the points of a refund.
* **Cashier, paid orders.** `PayInv`: a scan payment waiting in `push` is
  charged to a member (`PushCharges`), a request in `mark` carries the order its
  push created (`MarkBacked`), and paid rows name such an order (`PaidBacked`).
* **Cashier, balances.** `BalanceInv`: the balance is the opening plus the books
  less a sum over the orders charged to the member. A sale adds an order to the
  sum, a refund changes one term of it, and `RefundInv` says that this term is
  still the one that was read.
* **Cashier, refinement.** The mapping reads `sale[o]` off the row's status,
  member and `money - refunded`, and `wallet` as `balance`. A `PushCommit` is a
  `Sell`, a `RefundCommit` is a `Refund` (by `RefundInv` it credits the customer
  it read with an amount that is left), account operations are `MoveWallet`,
  and everything else stutters. Hence the read steps outside the transactions
  never show in the books.
* **Cashier, no overdraft.** From the guard inside `PushCommit` and the types.
* **Codes.** `CodesInv`: a redemption of a member code commits on an old read,
  and does no harm to a spent code because a member code is bound to one store
  from its order on. `LimitInv`: the limit read before the code was seen unused
  did not count that code, so limit plus quota is covered once it is spent.
* **Billing.** `BillingInv`: what a request carries is still true of the rows
  when it uses it (rows are never deleted, payments never taken back, the end
  of a terminated subscription is at most now), the job works at one time on
  subscriptions that cover it, and one it is about to bill has no invoice of
  the month.
* **Orders and stock.** `OrderInv`: who will write rests on an action row that
  exists; status and stage are explained by the rows. `LedgerInv`: what was
  supplied less the stock is a double sum, over placed orders and over the
  lines of each, times the `accept` rows. An accepted order is counted at every
  acceptance, also the overlapping ones.
* **Settlements.** `SettlementInv`: what a call collected is all there is of its
  month if the month was over when it read, and a fee is held by one call,
  settled or stranded.
* **Reports.** `ReportsInv`: the day the job reports is over, so its orders are
  only advanced or cancelled; the rows written so far were exact when they were
  read, and those behind bound those after. What the rounds count differently
  is bounded by the orders that moved between them. For `getStatistics`, an
  order not yet counted is at a stage still to be asked for.
* **Quota.** `GoodsInv`: the quota row is the free one and the granted
  applications, but for those an approval is adding just now or a restart
  stranded; the images are within it plus one for each handler that met another
  one; a cached sum that may be used is not below the use.
* **Shelves.** `ShelfInv`: a rank that a call is about to write is above every
  rank of its list, or the list was written since it read it, in which case it
  is marked as overtaken; and an exchange holds two neighbours.
* **Applications.** `ApplicationInv`: an application that is reviewed or was last
  previewed is as it was seen, and a call that will commit has read that.
* **Publishing.** `PublishInv`: rows are replaced by what their writers read
  earlier, so it says what remains true of a *copy* of a row's targets while the
  row moves on: a success stays one at ALQQ, and the platforms bound at creation
  stay the bound ones. `OneSubmitter`: at most one worker may still submit a
  job, the one that created it or the run that claimed it, and while there is
  one nothing was submitted on its behalf.
* **Metrics.** `MetricsInv`: a target, and every copy of one that a refresh
  holds, has an own record id if it has one that a batch named, and reads of
  its own record unless it is in `mixed`.
* **Chat.** `ChatInv`: which sockets are listed, connected or gone, by the phase
  they are in; a socket that is being told gets everything that was queued when
  its telling began, so that what waits was queued late.
* **Feedback, visits, staff days.** `FeedbackInv` bounds the day's rows by the
  calls past the count; `VisitsInv` keeps with a job under way that its day is
  over and its groups are exact; `StaffInv` says of each call what it read and
  that, unless it was overtaken, it is still so.
* **Books.** `BooksInv`: a day's report is the bucket of its records unless the
  day is marked as crossed or a handler still owes it, and what a handler is
  about to put is the bucket; a kind of a day has at most one record; a
  generation nobody met still knows the record and the takeaway of its day. The
  views agree because the list's fold is the only solution of its recursion,
  and the sequence it folds names each record once, so its columns are sums over
  the same records.
* **Media.** `MediaInv`: images stored and about to be stored fit the quota but
  for uploads that overlap; a collector holds only files no article uses, or one
  that was attached while it held it.
* **Accounts.** `AccountsInv`: a call that met no other one is alone with the
  credentials (`AloneInv`), so what it found, deleted and promoted is all there
  is; what ALQQ answered is remembered as known.
* **Login.** `KickInv`: only a request the guard will turn away still serves a
  user who is out. `QrInv`: whatever a handler holds or the entry says, a phone
  is named as the scanner only if it scanned and as the user only if it also
  confirmed. `SmsInv`: messages sent are counted or in the hands of a sender,
  and those past the check are at most the senders there are. `LockInv`: who is
  about to count read a number short of the limit. `GrantInv`: what was
  withdrawn while nobody signed in is neither linked nor in what a sign-in read.
* **Sums.** `SumOver` is what the community modules' sums expand to. Its lemmas
  (a term added, taken away, changed; zeros; counting by parts; two functions
  added or subtracted; elements renamed) need induction over a finite set, which is made as a smallest
  counterexample from `WFMin` and `NatLessThanWellFounded`, library facts
  without operator parameters.

## 6. Only model-checked

* Liveness (`RequestsAnswer`, `UnpaidGoesOverdue`, `DeadLeave`): fairness and
  ENABLED are beyond the prover.
* That the three violations (section 4) are what they are: a counterexample
  needs no proof.

## 7. Not modelled, and why

* Lists, exports, rankings, remarks, texts, formatting.
* The settlement of stores (`store-settlement.service.ts`): it sums finished
  orders, and no caller of `finish` or `receive` exists, so it is always empty;
  `confirm` and `settle` write a status that nobody reads.
* Chat groups (a message to a group is a message to each member, and the
  members' rows are never written), comments on feedback, addresses, profiles.
* WeChat front end, banner, provinces, general, shell: forwarding, static data
  and wiring. The disk behind the file service. The JSON web token.
* Publishing: the platform catalogue and the texts handed to ALQQ.
* Inside modelled parts: the QR picture of a pending order; plans on and off
  sale; pay-proof URLs; admin settings. None decides a write that is modelled.
* Time zones: the code forms day keys with `toISOString` in places and with
  local time in others; days here are one clock's days.
* The last month of a settlement job started on a 29th to 31st
  (`getLastMonth` moves the month without the day): months here are numbers.

## 8. Plan

1. **An abstract publish job** that PublishJobs implements: per platform, asked
   or not, and what became of it; the mapping is read off `remote`, and
   `PublishInv` should carry its proof.
2. **PublishJobs**, liveness under fairness of the minute job: which jobs are
   settled in the end. Known not to be: a job claimed by a run that dies stays
   running, and so does one whose batch ids a stale refresh erased.
3. **Interaction** — member limits of ActivationCodes with the accounts of
   Cashier; the quota of OnlineOrders with ServiceBilling's subscription, once a
   stage that counts is reachable; chat groups, once their members are written.

## 9. Running it

`tlc -config <run>.cfg <module>` with the module section 4 names, and `tlapm
<module>` for the proof modules. Each run ends within four minutes on two
cores.
