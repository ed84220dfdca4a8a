SPECIFICATION TabsSpec
CONSTANTS
    BookKinds = {"book"}
    Titles = {"a"}
    FirstFiles <- NoFiles
    MaxBooks = 2
    MaxDeeds = 3
    MaxLost = 0
INVARIANTS UnsavedMarked
CHECK_DEADLOCK FALSE
