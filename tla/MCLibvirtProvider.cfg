SPECIFICATION FairSpec
CONSTANTS
    Names = {"a", "b"}
    DiskNameOf <- MCNoPairs
    Images = {"i1"}
    Snapshots = {s1}
    Operated = {"a"}
    Settings <- MCSettings
    MaxFailures = 1
INVARIANTS DomainHasItsFiles NothingLeft
PROPERTIES CreateCompletes
CHECK_DEADLOCK FALSE
