SPECIFICATION Spec
CONSTANTS
    d1 = d1
    d2 = d2
    o1 = o1
    o2 = o2
    m1 = m1
    Datasets = {d1, d2}
    Objectives = {o1, o2}
    Models = {m1}
    Fits <- MCFits
    None = None
    MaxOpens = 2
    MaxRequests = 2
    MaxPosts = 1
CHECK_DEADLOCK FALSE
INVARIANTS
    TypeOK
    SelectionIsShown
    PatientJobFits
