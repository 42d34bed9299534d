\* One dataset from any source, two controllers of which one may crash, broken
\* data and a user who archives at any time.
SPECIFICATION FairSpec
CONSTANTS
    Controllers = {c1, c2}
    NoProc = NoProc
    NumDatasets = 1
    SourceKinds = {"upload", "download", "git", "localfile", "localdir"}
    DataFails = TRUE
    MaxArchived = 1
    MaxCrashes = 1
INVARIANTS
    DatasetTypeOK
    OneHandler
    ValidatedIsUsable
    NothingLost
PROPERTIES
    DatasetsLiveOnce
    DatasetsSettle
CHECK_DEADLOCK FALSE
