SPECIFICATION InputsSpec
CONSTANTS
    Unit = {u1}
    Check = {c1}
    NoItem = NoItem
    MaxCalls = 4
    MaxInput = 8
    AgentCalls = 2
    RequestCap = 4
    Overview = 2
    Verification = 3
    Margin = 1
    Estimates = {2}
    Usages = {0, 5}
    MaxEpoch = 2
    Files = 4
    LinesOfHunk = {1, 3}
    HunkLines = 2
    Capacity = 6
    MaxUnitPaths = 2
    SmallChange = 5
    Priorities = {1}
    Source = {s1}
    Document = {d1}
    Blob = {b0, b1}
    BaseBlob = b0
    Faulty = {b1}
    MaxReviews = 3
    MaxPushes = 2
    CommitCount = 4
    MaxMoves = 1
    FilesInScope = 3
    Lines = {0, 1}
    WindowFiles = 2
    WindowBytes = 3
    MaxFileBytes = 2
    PageLimit = 2
    MaxPages = 3
INVARIANTS CallsWithinLimits GroupingAskedOnce InputWithinLimit SharesAreProtected
INVARIANTS PlansCoverTheScope ReuseIsGrounded SnapshotIsDeclared PagesMissNothing
PROPERTIES ReceiptsAreFinal
CHECK_DEADLOCK FALSE
