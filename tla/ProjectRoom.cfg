SPECIFICATION Spec
CONSTANTS
    Tasks = {"t1", "t2"}
    Members = {"ann", "bob"}
    TaskStatuses = {"todo", "done"}
    MaxActivity = 3
    TaskMishaps <- WorstTasks
    Users = {"ann", "bob"}
    MaxDms = 3
    MaxTime = 3
    PageSize = 1
    ChatMishaps <- WorstChats
    Sockets = {"s1", "s2", "s3"}
    UserOf <- Owners
    Rubrics = {"first", "last"}
    ProjectRubrics = {"last"}
    Students = {"s1", "s2"}
    Evaluators = {"e1", "e2"}
    Points = {1, 2}
    Batches <- SampleBatches
    MaxSubmits = 2
    ScoreTroubles <- WorstScores
    Clients = {"c1", "c2"}
    Uploads = {"u1", "u2"}
    ForeignUrls = {"other"}
    MaxDefences = 1
    PageFaults <- WorstPages
    People = {"p1", "p2"}
    Emails = {"ann", "Ann"}
    LowerCase <- Lower
    InvitedRoles = {"EVALUATOR"}
    MaxAccounts = 4
    MaxInvitations = 2
    MaxSeconds = 1
    AccountSnags <- WorstSnags
    Requests = {"r1", "r2", "r3", "r4"}
    PoolSize = 3
    MaxMails = 1
    MaxStops = 2
INVARIANTS
    TasksAddUp
    ScoresAddUp
    PageIsSound
    AccountsAreSound
PROPERTIES
    ChatIsSound
    WorkEnds
\* Everything may be said and done, the bounds be reached, and the pool be used up.
CHECK_DEADLOCK FALSE
