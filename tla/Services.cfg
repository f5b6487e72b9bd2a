SPECIFICATION ServicesSpec
CONSTANTS
    Attempts = 2
    Findings = 2
    BatchSize = 1
    Unmappable = {2}
    MaxTries = 2
    RetryCap = 1
    FaultCap = 1
    Mishaps = {"crash", "stall", "shutdown", "slot", "moved", "edited", "withdrawn", "read", "changed", "refused", "lost"}
    Requests = 2
    Delivery = {d1, d2}
    ApiKey = {k1}
    Pushes = 3
    MaxRuns = 1
    Hour = 2
    Horizon = 3
    Faults = 2
    Caller = {a, b}
    Input = {i}
    Processes = 3
    Slots = 1
    MaxRequests = 2
    Nothing = 0
    Calls = 2
    Closings = 1
    Accidents = 1
    Client = {c1, c2}
    Commits = {k1, k2, k3}
    Dirs = 3
    MaxEntries = 2
    Troubles = 1
    s1 = s1
    h1 = h1
    Source = {s1}
    Hunk = {h1}
    Claimed = {s1}
    MaxCalls = 6
    MaxTools = 2
    Parallel = 2
CONSTANT SourcesOf <- SourcesOfHunks
SYMMETRY Symmetry
INVARIANTS ServicesTypeOK UnknownHoldsSlot PostedIsAccounted IntakeIsExact WebhookReviewStands
INVARIANTS ProcessesAreOwned CacheIsWhole ClientKeepsWorkspace ReceivedMaterial AgentIsBounded
PROPERTIES SuccessIsVisible KeepsPromise
CHECK_DEADLOCK FALSE
