SPECIFICATION ServicesSpec
CONSTANTS
    None = None
    Platforms = {a1, a2}
    Executors = {b1, b2}
    Workers = {c1, c2}
    MaxJobs = 1
    t1 = t1
    t2 = t2
    Posts = {a1, a2}
    Titles = {t1, t2}
    Within <- MCWithin
    Viewers = {c1, c2}
    PageSize = 1
    MaxPages = 1
    MaxReads = 0
    MaxViews = 2
    Sockets = {a1, a2}
    Messages = {b1, b2}
    Files = {a1, a2}
    Reports = {c1, c2}
    DailyLimit = 1
    LastFeedbackDay = 2
    Users = {a1, a2}
    MaxVisits = 1
    LastVisitDay = 3
    Staff = {s1}
    Punches = {c1, c2}
    LastHour = 2
    MaxPunches = 3
    d1 = d1
    d2 = d2
    Dates = {d1, d2}
    Clerks = {c1, c2}
    MaxRecords = 2
    Entries <- MCEntries
    TillDays <- MCDays
    MaxFinanceCalls = 4
SYMMETRY Symmetry
INVARIANTS
    SubmittedOnce
    TargetsTrue
    ChatAccounted
    FeedbackKept
    VisitsReported
PROPERTIES
    PublishedIsReal
    MetricsOwn
    StaffDaysStand
    BooksAgree
CHECK_DEADLOCK FALSE
