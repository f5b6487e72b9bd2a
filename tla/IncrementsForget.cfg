SPECIFICATION IncrementStory
CONSTANTS
    Source = {s1}
    Document = {d1}
    Blob = {b0, b1}
    BaseBlob = b0
    Faulty = {b1}
    MaxReviews = 3
    MaxPushes = 2
PROPERTIES DefectsAreRechecked
CHECK_DEADLOCK FALSE
