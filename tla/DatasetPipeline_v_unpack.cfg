\* An uploaded dataset, and a controller that crashes while it unpacks.
SPECIFICATION FairSpec
CONSTANTS
    Controllers = {c1, c2}
    NoProc = NoProc
    NumDatasets = 1
    SourceKinds = {"upload"}
    DataFails = FALSE
    MaxArchived = 0
    MaxCrashes = 1
PROPERTIES
    TransferredGetUnpacked
CHECK_DEADLOCK FALSE
