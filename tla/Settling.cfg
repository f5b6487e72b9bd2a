SPECIFICATION SettlingSpec
CONSTANTS
    ReviewJob = {r1}
    PublicationJob = {p1}
    ReviewWorker = {w1, w2}
    PublicationWorker = {w3, w4}
    Mortal = {w1, w3}
    Stoppable = {w1}
    Nobody = Nobody
    LeaseTicks = 2
    ClockLag = 1
    BackoffCap = 1
    RetryAfter = 1
    MaxAttempts = 2
    PublicationAttempts = 1
    AttemptCap = 3
    EnqueueAgain = FALSE
    FailRaces = TRUE
    Caller = {a, b}
    Input = {i}
    Processes = 2
    Slots = 1
    MaxRequests = 1
    Nothing = 0
    Calls = 2
    Closings = 1
    Accidents = 1
    Client = {c1}
    Commits = {k1}
    Dirs = 2
    MaxEntries = 1
    Troubles = 1
    CommitCount = 2
    MaxMoves = 1
PROPERTIES ReviewJobsSettle LeaseEndsInOrder BroughtBackByOvertaken ImplementsLeases EveryCallEnds LeftoversGo
CHECK_DEADLOCK FALSE
