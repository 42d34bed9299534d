SPECIFICATION RoundTripSpec
CONSTANTS
    DimNames = {}
    Inf = 9
    Malformed = Malformed
    Null = Null
    Instances <- MCInstances
    Datasets <- MCDatasets
    Orders <- MCOrders
INVARIANTS
    GeneratedFits
    SchemaFitsSamples
    LinksFitLastSample
    FlagsDescribeSamples
    DirectedVerdict
PROPERTIES
    ImplementsDecision
    SearchEnds
CHECK_DEADLOCK FALSE
