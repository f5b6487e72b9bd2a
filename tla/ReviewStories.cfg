SPECIFICATION ReviewSpec
CONSTANTS
    ReviewJob = {j1, j2}
    PublicationJob = {}
    ReviewWorker = {w1}
    PublicationWorker = {}
    Mortal = {w1}
    Stoppable = {w1}
    Nobody = Nobody
    LeaseTicks = 1
    ClockLag = 0
    BackoffCap = 0
    RetryAfter = 1
    MaxAttempts = 1
    PublicationAttempts = 1
    AttemptCap = 0
    EnqueueAgain = FALSE
    FailRaces = FALSE
    Run = {r1, r2}
    OnlyRun = r1
    OnlyHead = h1
    Head = {h1, h2}
    Unit = {u1}
    Candidate = {c1}
    Concurrency = 1
    LateCap = 0
    Deadlines = {"cutoff"}
    Mishaps = {"lookup", "work"}
CONSTRAINT Told
SYMMETRY Symmetry
INVARIANTS LifecycleTypeOK CompletedMeansReviewed OneLiveJob
PROPERTIES StrandedByItsHandler KeepsPromise OutcomeLostOnlyByExceptions
