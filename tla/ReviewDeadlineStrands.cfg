SPECIFICATION ReviewSpec
CONSTANTS
    ReviewJob = {j1}
    PublicationJob = {}
    ReviewWorker = {w1}
    PublicationWorker = {}
    Mortal = {}
    Stoppable = {}
    Nobody = Nobody
    LeaseTicks = 1
    ClockLag = 0
    BackoffCap = 0
    RetryAfter = 1
    MaxAttempts = 2
    PublicationAttempts = 1
    AttemptCap = 0
    EnqueueAgain = FALSE
    FailRaces = FALSE
    Run = {r1}
    Head = {h1}
    Unit = {u1}
    Candidate = {c1}
    Concurrency = 1
    LateCap = 0
    Deadlines = {"cutoff", "hard"}
    Mishaps = {}
INVARIANTS RunHasDriver
