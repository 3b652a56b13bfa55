SPECIFICATION FairSpec
CONSTANTS
    Attempts <- MCAttempts
    Settings <- MCSettings
INVARIANTS ExportHoldsTheDisk
PROPERTIES VerifiedImportIsTheExport Converges
CHECK_DEADLOCK FALSE
