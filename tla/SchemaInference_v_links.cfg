SPECIFICATION RoundTripSpec
CONSTANTS
    DimNames = {}
    Inf = 9
    Malformed = Malformed
    Null = Null
    Instances <- MCInstances
    Datasets <- MCDatasets
    Orders = {}
INVARIANT
    AllOrNoneHaveLinks
CHECK_DEADLOCK FALSE
