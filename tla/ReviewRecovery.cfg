SPECIFICATION FairReviewSpec
CONSTANTS
    ReviewJob = {j1}
    PublicationJob = {}
    ReviewWorker = {w1, w2}
    PublicationWorker = {}
    Mortal = {w1}
    Stoppable = {}
    Nobody = Nobody
    LeaseTicks = 1
    ClockLag = 0
    BackoffCap = 0
    RetryAfter = 1
    MaxAttempts = 2
    PublicationAttempts = 1
    AttemptCap = 0
    EnqueueAgain = FALSE
    FailRaces = FALSE
    Run = {r1}
    Head = {h1}
    Unit = {u1}
    Candidate = {}
    Concurrency = 1
    LateCap = 1
    Deadlines = {}
    Mishaps = {}
PROPERTIES ReviewsEnd LateCallsAreFenced KeepsPromise
