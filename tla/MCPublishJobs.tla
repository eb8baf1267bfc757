--------------------------- MODULE MCPublishJobs ---------------------------
(***************************************************************************)
(* A small instance of PublishJobs for TLC, and of what else the platform  *)
(* does for authors, users and staff: the reads of what was published,     *)
(* chat, feedback, the nightly count of visits, the days of staff and the  *)
(* books they keep.                                                        *)
(* They share no state, so a behaviour is one of `part`.  The parts use    *)
(* the same model values where they need values that can be exchanged.     *)
(***************************************************************************)
EXTENDS PublishJobs, TLC

CONSTANTS t1, t2, d1, d2, Posts, Titles, Within, Viewers, PageSize, MaxPages,
          MaxReads, MaxViews, Sockets, Messages, Files, Reports, DailyLimit,
          LastFeedbackDay, Users, MaxVisits, LastVisitDay, Staff, Punches,
          LastHour, MaxPunches, Dates, Clerks, MaxRecords, Entries, TillDays,
          MaxFinanceCalls

(* None is no value of these parts; the bounds leave a day and an hour.    *)
ASSUME ServicesAssumption ==
    /\ None \notin Nat
    /\ None \notin [day : 1..LastFeedbackDay, status : {"open", "done"}, asked : SUBSET Files]
    /\ IsFiniteSet(Reports) /\ DailyLimit \in Nat
    /\ LastFeedbackDay \in Nat \ {0}
    /\ LastVisitDay \in Nat \ {0} /\ MaxVisits \in Nat
    /\ LastHour \in Nat \ {0}
    /\ None \notin Posts /\ {MaxReads, PageSize, MaxPages} \subseteq Nat
    /\ "nobody" \notin Punches    \* StaffDays' Nobody
    /\ IsFiniteSet(Dates) /\ Dates # {} /\ MaxRecords \in Nat \ {0}
    /\ Entries \subseteq
          [kind : {"daily_revenue", "ingredient_cost", "monthly_overhead", "rent", "utilities"},
           date : Dates, till : Nat, takeaway : Nat \cup {-1}, amount : Nat, rent : Nat, power : Nat]
    /\ \A day \in TillDays :
          /\ day.recharged \in Nat
          /\ IsFiniteSet(DOMAIN day.sold) /\ IsFiniteSet(DOMAIN day.refunded)
          /\ \A m \in DOMAIN day.sold : day.sold[m] \in Nat
          /\ \A m \in DOMAIN day.refunded : day.refunded[m] \in Nat

VARIABLE part

VARIABLES mTarget, title, api, mRecord, recent, mStep, mHeld, mCalls, broken,
          mMixed    \* PublishMetrics
VARIABLES cListed, queue, expiring, cKnown, client, cPhase, left, leaving,
          taken, sent, ids, got, restarted, expired, cLate    \* ChatDelivery
VARIABLES fToday, fRow, attached, fStep, uploads, counted, fLate    \* Feedback
VARIABLES vDay, night, visits, vReport, vJob, found, ran,
          skipped    \* DailyVisits
VARIABLES hour, phone, staff, linked, sDay, sStep, sHeld, sCalls,
          oneSided    \* StaffDays
VARIABLES bRecord, bReport, bStep, bHeld, bCrossed, bCalls    \* FinanceReports

Metrics == INSTANCE PublishMetrics WITH
    Jobs <- Posts, MaxCalls <- MaxViews, target <- mTarget, record <- mRecord,
    step <- mStep, held <- mHeld, calls <- mCalls, mixed <- mMixed

Chat == INSTANCE ChatDelivery WITH
    listed <- cListed, known <- cKnown, phase <- cPhase, late <- cLate

Given == INSTANCE Feedback WITH
    Calls <- Reports, LastDay <- LastFeedbackDay, today <- fToday, row <- fRow,
    step <- fStep, late <- fLate

Nightly == INSTANCE DailyVisits WITH
    LastDay <- LastVisitDay, day <- vDay, report <- vReport, job <- vJob

Presence == INSTANCE StaffDays WITH
    Calls <- Punches, MaxCalls <- MaxPunches, day <- sDay, step <- sStep,
    held <- sHeld, calls <- sCalls

Finance == INSTANCE FinanceReports WITH
    Days <- TillDays, MaxCalls <- MaxFinanceCalls, record <- bRecord, report <- bReport,
    step <- bStep, held <- bHeld, crossed <- bCrossed, calls <- bCalls

metricVars == <<mTarget, title, api, mRecord, recent, mStep, mHeld, mCalls,
                broken, mMixed>>
chatVars == <<cListed, queue, expiring, cKnown, client, cPhase, left, leaving,
              taken, sent, ids, got, restarted, expired, cLate>>
feedbackVars == <<fToday, fRow, attached, fStep, uploads, counted, fLate>>
visitsVars == <<vDay, night, visits, vReport, vJob, found, ran, skipped>>
staffVars == <<hour, phone, staff, linked, sDay, sStep, sHeld, sCalls,
               oneSided>>
financeVars == <<bRecord, bReport, bStep, bHeld, bCrossed, bCalls>>

(* A part that a behaviour is not about has no values.                     *)
NoMetrics == /\ mTarget = None /\ title = None /\ api = None
             /\ mRecord = None /\ recent = None /\ mStep = None /\ mHeld = None
             /\ mCalls = None /\ broken = None /\ mMixed = None
NoChat == /\ cListed = None /\ queue = None /\ expiring = None
          /\ cKnown = None /\ client = None /\ cPhase = None /\ left = None
          /\ leaving = None /\ taken = None /\ sent = None /\ ids = None
          /\ got = None /\ restarted = None /\ expired = None /\ cLate = None
NoGiven == /\ fToday = None /\ fRow = None /\ attached = None
           /\ fStep = None /\ uploads = None /\ counted = None /\ fLate = None
NoNightly == /\ vDay = None /\ night = None /\ visits = None
             /\ vReport = None /\ vJob = None /\ found = None /\ ran = None
             /\ skipped = None
NoPresence == /\ hour = None /\ phone = None /\ staff = None
              /\ linked = None /\ sDay = None /\ sStep = None /\ sHeld = None
              /\ sCalls = None /\ oneSided = None
NoFinance == /\ bRecord = None /\ bReport = None /\ bStep = None
             /\ bHeld = None /\ bCrossed = None /\ bCalls = None

ServicesInit ==
    /\ Init
    /\ \/ /\ part = "jobs"
          /\ NoMetrics /\ NoChat /\ NoGiven /\ NoNightly /\ NoPresence
          /\ NoFinance
       \/ /\ part = "metrics" /\ Metrics!MetricsInit
          /\ NoChat /\ NoGiven /\ NoNightly /\ NoPresence /\ NoFinance
       \/ /\ part = "chat" /\ Chat!ChatInit
          /\ NoMetrics /\ NoGiven /\ NoNightly /\ NoPresence /\ NoFinance
       \/ /\ part = "feedback" /\ Given!FeedbackInit
          /\ NoMetrics /\ NoChat /\ NoNightly /\ NoPresence /\ NoFinance
       \/ /\ part = "visits" /\ Nightly!VisitsInit
          /\ NoMetrics /\ NoChat /\ NoGiven /\ NoPresence /\ NoFinance
       \/ /\ part = "staff" /\ Presence!StaffInit
          /\ NoMetrics /\ NoChat /\ NoGiven /\ NoNightly /\ NoFinance
       \/ /\ part = "finance" /\ Finance!FinanceInit
          /\ NoMetrics /\ NoChat /\ NoGiven /\ NoNightly /\ NoPresence

ServicesNext ==
    /\ part' = part
    /\ \/ /\ part = "jobs" /\ Next
          /\ UNCHANGED <<metricVars, chatVars, feedbackVars, visitsVars,
                        staffVars, financeVars>>
       \/ /\ part = "metrics" /\ Metrics!MetricsNext
          /\ UNCHANGED <<vars, chatVars, feedbackVars, visitsVars, staffVars,
                        financeVars>>
       \/ /\ part = "chat" /\ Chat!ChatNext
          /\ UNCHANGED <<vars, metricVars, feedbackVars, visitsVars, staffVars,
                        financeVars>>
       \/ /\ part = "feedback" /\ Given!FeedbackNext
          /\ UNCHANGED <<vars, metricVars, chatVars, visitsVars, staffVars,
                        financeVars>>
       \/ /\ part = "visits" /\ Nightly!VisitsNext
          /\ UNCHANGED <<vars, metricVars, chatVars, feedbackVars, staffVars,
                        financeVars>>
       \/ /\ part = "staff" /\ Presence!StaffNext
          /\ UNCHANGED <<vars, metricVars, chatVars, feedbackVars, visitsVars,
                        financeVars>>
       \/ /\ part = "finance" /\ Finance!FinanceNext
          /\ UNCHANGED <<vars, metricVars, chatVars, feedbackVars, visitsVars,
                        staffVars>>

ServicesSpec == ServicesInit /\ [][ServicesNext]_<<part, vars, metricVars,
        chatVars, feedbackVars, visitsVars, staffVars, financeVars>>

-----------------------------------------------------------------------------
Symmetry == Permutations(Platforms) \cup Permutations(Executors) \cup Permutations(Workers)

(* The first title is a part of the second.                                *)
MCWithin == {<<t1, t2>>}

(* FinanceReports' Absent: no takeaway amount was entered.                 *)
Blank == -1

(* What a clerk can enter: a day's revenue of each of two days, with and   *)
(* without takeaway, and a month's overhead.                               *)
Entry(kind, date, till, takeaway, amount, rent, power) ==
    [kind |-> kind, date |-> date, till |-> till, takeaway |-> takeaway, amount |-> amount,
     rent |-> rent, power |-> power]
MCEntries == {Entry("daily_revenue", d1, 0, 1, 0, 0, 0),
              Entry("daily_revenue", d2, 1, Blank, 0, 0, 0),
              Entry("monthly_overhead", d1, 0, Blank, 2, 1, 1)}

(* A till's day: scanned and balance payments, and cash only refunded.     *)
MCDays ==
    {[sold      |-> [m \in {"member_scan", "cash", "balance"} |-> IF m = "cash" THEN 0 ELSE 1],
      refunded  |-> [m \in {"cash"} |-> 1],
      recharged |-> 0]}

(* A target holds its own record when its batch names it, shows the reads  *)
(* of the record it holds, and loses them only by an overlapping refresh.  *)
MetricsOwn ==
    /\ [](part = "metrics" => /\ Metrics!MetricsTypeOK
                              /\ Metrics!OwnRecord
                              /\ Metrics!ReadsAreOwn)
    /\ [][part = "metrics" => Metrics!ReadsVanishLate]_metricVars

(* A message is received or waits unless a connection ended, only restarts *)
(* leave dead socket ids, and nothing waits beside a told socket but what  *)
(* was queued by a race.                                                   *)
ChatAccounted ==
    part = "chat" =>
        /\ Chat!ChatTypeOK
        /\ Chat!NoneDisappears
        /\ Chat!DeadIdsAfterRestart
        /\ Chat!WaitsBesideSocket

(* The daily limit is only passed by overlapping calls, and a call that    *)
(* succeeded has stored all its files.                                     *)
FeedbackKept ==
    part = "feedback" =>
        Given!FeedbackTypeOK /\ Given!LimitOvertaken /\ Given!AnsweredWhole

(* A stored report equals the visits of its day, and one user's failure    *)
(* costs nobody else a report.                                             *)
VisitsReported == part = "visits" => Nightly!ReportsFinal /\ Nightly!OthersReported

(* A day's check-out is not before its check-in; a check-in stays until    *)
(* the owner moves it, what he entered is replaced only by a punch that    *)
(* read the row first, and a row with an account is not taken over.        *)
StaffDaysStand ==
    /\ [](part = "staff" => Presence!StaffTypeOK /\ Presence!OutAfterIn)
    /\ [][part = "staff" => /\ Presence!CheckInStays
                            /\ Presence!OwnerStays
                            /\ Presence!LinkStays]_staffVars

(* A day's report is that of its records, the month's summary is the sum   *)
(* of its days, and generating a day's revenue keeps its takeaway amount.  *)
BooksAgree ==
    /\ [](part = "finance" => /\ Finance!FinanceTypeOK
                              /\ Finance!ReportExplained
                              /\ Finance!SumsAgree)
    /\ [][part = "finance" => Finance!TakeawayKept]_financeVars
=============================================================================
