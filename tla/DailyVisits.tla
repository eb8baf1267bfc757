----------------------------- MODULE DailyVisits -----------------------------
(***************************************************************************)
(* The night's count of each user's visits (UsersFetchService, started at  *)
(* three by SchedulesService): yesterday's visits are grouped by user,     *)
(* then each user's row is looked for and updated or created, one user     *)
(* after another; a user whose step throws is skipped and only logged.     *)
(* Nothing makes up for a night on which the process was down or died.     *)
(***************************************************************************)
EXTENDS Naturals, FiniteSets

CONSTANTS
    Users,
    None,
    MaxVisits,    \* bound: visits of a user in a day
    LastDay       \* bound: days

VARIABLES
    day,       \* today
    night,     \* today's three o'clock has passed
    visits,    \* user_fetch rows, per user and day
    report,    \* report_daily_user_fetch: times, per user and day
    job,       \* the job's day, the groups it has read and has yet to store
    found,     \* the user whose row the job has looked for, and the result
    ran,       \* history: the days whose job ran to its end
    skipped    \* history: per day, the users whose step failed

visitsVars == <<day, night, visits, report, job, found, ran, skipped>>

Days == 1..LastDay
NoJob == [of |-> None, left |-> [u \in Users |-> 0]]
NotFound == [user |-> None, row |-> None]

VisitsInit ==
    /\ day = 1
    /\ night = FALSE
    /\ visits = [u \in Users |-> [d \in Days |-> 0]]
    /\ report = [u \in Users |-> [d \in Days |-> None]]
    /\ job = NoJob
    /\ found = NotFound
    /\ ran = {}
    /\ skipped = [d \in Days |-> {}]

Visit(u) ==
    /\ visits[u][day] < MaxVisits
    /\ visits' = [visits EXCEPT ![u][day] = @ + 1]
    /\ UNCHANGED <<day, night, report, job, found, ran, skipped>>

Tomorrow ==
    /\ day < LastDay
    /\ day' = day + 1
    /\ night' = FALSE
    /\ UNCHANGED <<visits, report, job, found, ran, skipped>>

(* Mutant of Grouped: everything up to now.                                *)
GroupedNow(u, d) == visits[u][d] + (IF d < LastDay THEN visits[u][d + 1] ELSE 0)

(* user_fetch.groupBy: the visits between the day's start and its end.     *)
Grouped(u, d) == visits[u][d]

(* dailyUsersFetch, at three, when the last one is long over; or the       *)
(* process is down at that hour.                                           *)
Start ==
    /\ ~night
    /\ job = NoJob
    /\ night' = TRUE
    /\ IF day > 1
       THEN job' = [of |-> day - 1, left |-> [u \in Users |-> Grouped(u, day - 1)]]
       ELSE UNCHANGED job
    /\ UNCHANGED <<day, visits, report, found, ran, skipped>>

Down ==
    /\ ~night
    /\ night' = TRUE
    /\ UNCHANGED <<day, visits, report, job, found, ran, skipped>>

(* upsertUserDailyFetch: findFirst, then update or create.                 *)
Find(u) ==
    /\ job # NoJob
    /\ job.left[u] > 0
    /\ found = NotFound
    /\ found' = [user |-> u, row |-> report[u][job.of]]
    /\ UNCHANGED <<day, night, visits, report, job, ran, skipped>>

Upsert ==
    /\ found # NotFound
    /\ report' = [report EXCEPT ![found.user][job.of] = job.left[found.user]]
    /\ job' = [job EXCEPT !.left[found.user] = 0]
    /\ found' = NotFound
    /\ UNCHANGED <<day, night, visits, ran, skipped>>

(* What is left after the step of `u` failed: the other users.             *)
LeftAfter(u) == [job.left EXCEPT ![u] = 0]

Skip(u) ==
    /\ job # NoJob
    /\ job.left[u] > 0
    /\ found.user \in {None, u}
    /\ job' = [job EXCEPT !.left = LeftAfter(u)]
    /\ skipped' = [skipped EXCEPT ![job.of] = @ \cup {u}]
    /\ found' = NotFound
    /\ UNCHANGED <<day, night, visits, report, ran>>

Finish ==
    /\ job # NoJob
    /\ \A u \in Users : job.left[u] = 0
    /\ ran' = ran \cup {job.of}
    /\ job' = NoJob
    /\ UNCHANGED <<day, night, visits, report, found, skipped>>

(* A restart ends the job.                                                 *)
Restart ==
    /\ job # NoJob
    /\ job' = NoJob
    /\ found' = NotFound
    /\ UNCHANGED <<day, night, visits, report, ran, skipped>>

VisitsNext ==
    \/ Tomorrow \/ Start \/ Down \/ Upsert \/ Finish \/ Restart
    \/ \E u \in Users : Visit(u) \/ Find(u) \/ Skip(u)

VisitsSpec == VisitsInit /\ [][VisitsNext]_visitsVars

(***************************************************************************)
(* Properties                                                              *)
(***************************************************************************)
(* A report is only made of a day that is over, so a stored one stays      *)
(* equal to the visits of that day, though it is made in the next.         *)
ReportsFinal ==
    \A u \in Users, d \in Days : report[u][d] # None => report[u][d] = visits[u][d]

(* After a job that came to its end, a user with visits has a row unless   *)
(* that user's own step failed: one failure costs nobody else a row.       *)
OthersReported ==
    \A u \in Users, d \in ran :
        visits[u][d] > 0 /\ report[u][d] = None => u \in skipped[d]
=============================================================================
