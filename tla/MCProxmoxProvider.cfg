SPECIFICATION FairSpec
CONSTANTS
    Names = {"a", "b"}
    Ids = {1, 2, 3, 4, 5, 6}
    Settings <- MCSettings
    SpareIds = 3
    MaxSnapshots = 2
    MaxFailures = 1
INVARIANTS RecordedIsOwn CloudInitApplied StraysAreExplained
PROPERTY CreateCompletes
CHECK_DEADLOCK FALSE
