--------------------------- MODULE MCOnlineOrders ---------------------------
(***************************************************************************)
(* A small instance of OnlineOrders for TLC, and of what a store has       *)
(* around its orders: the daily order report, the monthly settlement, the  *)
(* storage of its goods' images, the order of its shelves and its          *)
(* application.  They share no state, so a behaviour is one of `part`.     *)
(* The parts use the same model values where they need values that can be  *)
(* exchanged.                                                              *)
(***************************************************************************)
EXTENDS OnlineOrders, TLC

CONSTANTS v1, v2, Stores, LastDay, Payments, Purchases, BusyDays, Jobs, LastMonth,
          Images, Pictured, Applications, Admins, FreeQuota, MaxUploads, Goods,
          Categories, Merchants, MaxShelfCalls, Callers, MaxReviewCalls

(* A settlement's items are three kinds of rows, and none of them is the   *)
(* mark of a month without a settlement, nor an image or a version the     *)
(* mark of none; what a store has is finite.                               *)
ASSUME StoreAssumption ==
    /\ 0 \notin Payments \cup Purchases \cup BusyDays
    /\ Payments \cap Purchases = {}
    /\ (Payments \cup Purchases) \cap BusyDays = {}
    /\ LastMonth \in Nat /\ LastDay \in Nat \ {0} /\ IsFiniteSet(Stores)
    /\ -1 \notin Images \cup Pictured
    /\ IsFiniteSet(Images) /\ IsFiniteSet(Applications) /\ IsFiniteSet(Admins)
    /\ IsFiniteSet(Goods) /\ IsFiniteSet(Categories) /\ Goods \cap Categories = {}
    /\ {"goods", "0", "none"} \cap Categories = {}    \* ShelfOrder's lists
    /\ FreeQuota \in Nat

VARIABLE part

VARIABLES rToday, rOrder, storeRow, goodsRow, platformRow, rJob, ran, rStat,
          newcomers    \* OrderReports
VARIABLES month, made, approved, quiet, fee, settlement, mPhase, tray, early,
          mLate, stranded    \* Settlements
VARIABLES total, application, image, cache, iStep, iHeld, iCalls, iMixed,
          shared, dated, iLost    \* GoodsImages
VARIABLES sRow, sStep, sHeld, sCalls, tied    \* ShelfOrder
VARIABLES status, newest, quota, granted, content, seen, aStep, aHeld, aCalls,
          aCrossed    \* StoreApplications

Reports == INSTANCE OrderReports WITH
    today <- rToday, order <- rOrder, job <- rJob, stat <- rStat

Monthly == INSTANCE Settlements WITH
    Busy <- BusyDays, phase <- mPhase, late <- mLate

Goodsroom == INSTANCE GoodsImages WITH
    Versions <- Pictured, MaxCalls <- MaxUploads, step <- iStep, held <- iHeld,
    calls <- iCalls, mixed <- iMixed, lost <- iLost

Shelf == INSTANCE ShelfOrder WITH
    MaxCalls <- MaxShelfCalls, row <- sRow, step <- sStep, held <- sHeld,
    calls <- sCalls

Applied == INSTANCE StoreApplications WITH
    MaxCalls <- MaxReviewCalls, step <- aStep, held <- aHeld, calls <- aCalls,
    crossed <- aCrossed

reportVars == <<rToday, rOrder, storeRow, goodsRow, platformRow, rJob, ran,
                rStat, newcomers>>
settlementVars == <<month, made, approved, quiet, fee, settlement, mPhase,
                    tray, early, mLate, stranded>>
imagesVars == <<total, application, image, cache, iStep, iHeld, iCalls, iMixed,
                shared, dated, iLost>>
shelfVars == <<sRow, sStep, sHeld, sCalls, tied>>
applicationVars == <<status, newest, quota, granted, content, seen, aStep,
                     aHeld, aCalls, aCrossed>>

(* A part that a behaviour is not about has no values.                     *)
NoReports == /\ rToday = None /\ rOrder = None /\ storeRow = None
             /\ goodsRow = None /\ platformRow = None /\ rJob = None
             /\ ran = None /\ rStat = None /\ newcomers = None
NoMonthly == /\ month = None /\ made = None /\ approved = None
             /\ quiet = None /\ fee = None /\ settlement = None
             /\ mPhase = None /\ tray = None /\ early = None /\ mLate = None
             /\ stranded = None
NoGoodsroom == /\ total = None /\ application = None /\ image = None
               /\ cache = None /\ iStep = None /\ iHeld = None /\ iCalls = None
               /\ iMixed = None /\ shared = None /\ dated = None /\ iLost = None
NoShelf == /\ sRow = None /\ sStep = None /\ sHeld = None /\ sCalls = None
           /\ tied = None
NoApplied == /\ status = None /\ newest = None /\ quota = None
             /\ granted = None /\ content = None /\ seen = None /\ aStep = None
             /\ aHeld = None /\ aCalls = None /\ aCrossed = None

StoreInit ==
    /\ Init
    /\ \/ /\ part = "orders"
          /\ NoReports /\ NoMonthly /\ NoGoodsroom /\ NoShelf /\ NoApplied
       \/ /\ part = "reports" /\ Reports!ReportsInit
          /\ NoMonthly /\ NoGoodsroom /\ NoShelf /\ NoApplied
       \/ /\ part = "settlement" /\ Monthly!SettlementsInit
          /\ NoReports /\ NoGoodsroom /\ NoShelf /\ NoApplied
       \/ /\ part = "images" /\ Goodsroom!ImagesInit
          /\ NoReports /\ NoMonthly /\ NoShelf /\ NoApplied
       \/ /\ part = "shelf" /\ Shelf!ShelfInit
          /\ NoReports /\ NoMonthly /\ NoGoodsroom /\ NoApplied
       \/ /\ part = "application" /\ Applied!ApplicationsInit
          /\ NoReports /\ NoMonthly /\ NoGoodsroom /\ NoShelf

StoreNext ==
    /\ part' = part
    /\ \/ /\ part = "orders" /\ Next
          /\ UNCHANGED <<reportVars, settlementVars, imagesVars, shelfVars,
                        applicationVars>>
       \/ /\ part = "reports" /\ Reports!ReportsNext
          /\ UNCHANGED <<vars, settlementVars, imagesVars, shelfVars,
                        applicationVars>>
       \/ /\ part = "settlement" /\ Monthly!SettlementsNext
          /\ UNCHANGED <<vars, reportVars, imagesVars, shelfVars,
                        applicationVars>>
       \/ /\ part = "images" /\ Goodsroom!ImagesNext
          /\ UNCHANGED <<vars, reportVars, settlementVars, shelfVars,
                        applicationVars>>
       \/ /\ part = "shelf" /\ Shelf!ShelfNext
          /\ UNCHANGED <<vars, reportVars, settlementVars, imagesVars,
                        applicationVars>>
       \/ /\ part = "application" /\ Applied!ApplicationsNext
          /\ UNCHANGED <<vars, reportVars, settlementVars, imagesVars,
                        shelfVars>>

StoreSpec == StoreInit /\ [][StoreNext]_<<part, vars, reportVars,
        settlementVars, imagesVars, shelfVars, applicationVars>>

-----------------------------------------------------------------------------
Symmetry == Permutations(Orders) \cup Permutations(Reqs)

(* Two lines, and one version in two lines.                                *)
Line(v)   == [version |-> v, count |-> 1]
MCBaskets == {<<Line(v1), Line(v2)>>, <<Line(v1), Line(v1)>>}

(* An order's row is explained by its action rows, and a cancelled order   *)
(* never comes back to life (OrderService.accept, cancel, delivery).       *)
OrdersFollowActions ==
    /\ [](part = "orders" => TypeOK /\ StageExplained)
    /\ CancelledStays

(* The nightly report, the statistics and the daily report tell one story  *)
(* of a day, although their queries are taken apart by other requests.     *)
ReportsAgree ==
    part = "reports" =>
        /\ Reports!ReportsTypeOK
        /\ Reports!ViewsAgree
        /\ Reports!GoodsWithinOrders
        /\ Reports!StatsCover

(* A month's settlement has everything paid in that month, and every fee   *)
(* row is in one settlement, in a call's hands or stranded by a failure.   *)
SettlementWhole ==
    part = "settlement" => Monthly!MonthComplete /\ Monthly!FeeAccounted

(* A store's quota is explained by its approved applications, its images   *)
(* fit it, the cached use hides no image, and a refusal has a reason.      *)
QuotaHolds ==
    part = "images" =>
        /\ Goodsroom!QuotaExplained
        /\ Goodsroom!UsageKept
        /\ Goodsroom!CacheCovers
        /\ Goodsroom!RefusalsExplained

(* Items of a list have distinct ranks, and a switch exchanges neighbours. *)
ShelfOrderly ==
    /\ [](part = "shelf" => Shelf!ShelfTypeOK /\ Shelf!RanksDistinct)
    /\ [][part = "shelf" => Shelf!NeighboursSwitch]_shelfVars

(* An application is reviewed and approved as it was previewed, and an     *)
(* approved store has its quota row.                                       *)
ApprovalsStand ==
    /\ [](part = "application" => Applied!ApprovedHasQuota)
    /\ [][part = "application" =>
              Applied!ApprovedAsSeen /\ Applied!ReviewFollowsPreview]_applicationVars
=============================================================================
