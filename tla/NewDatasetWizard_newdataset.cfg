SPECIFICATION Spec
CONSTANTS
    f1 = f1
    f2 = f2
    f3 = f3
    name = name
    Files = {f1, f2, f3}
    BadFiles = {f3}
    IdOf <- MCIdOf
    TypedIds = {name}
    Sources = {"upload", "git"}
    None = None
    MaxOpens = 1
    MaxLoads = 1
    MaxPressed = 2
INVARIANTS
    TypeOK
    TransferredHasContent
    UploadIsWhatWasShown
    SuccessIsTrue
PROPERTIES
    PanelEnds
CHECK_DEADLOCK FALSE
