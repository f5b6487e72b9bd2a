SPECIFICATION QueueSpec
CONSTANTS
    ReviewJob = {r1}
    PublicationJob = {}
    ReviewWorker = {w1, w2}
    PublicationWorker = {}
    Mortal = {w1, w2}
    Stoppable = {w1, w2}
    Nobody = Nobody
    LeaseTicks = 2
    ClockLag = 2
    BackoffCap = 1
    RetryAfter = 1
    MaxAttempts = 3
    PublicationAttempts = 1
    AttemptCap = 0
    EnqueueAgain = TRUE
    FailRaces = TRUE
PROPERTIES LeaseRespected
