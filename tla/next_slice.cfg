\* The caller only applies the writebacks, and prepares the next slice.
SPECIFICATION Spec
CONSTANTS
    w1 = w1  w2 = w2  s1 = s1  s2 = s2
    NoOne = NoOne  NoSlice = NoSlice  NoState = NoState  NoTicket = NoTicket  NoPatch = NoPatch
    Workers <- OneWorker
    Slices <- TwoSlices
    Capabilities <- MCCapabilities
    InitialState <- FreshState
    AllowedAtFirst = 2
    TodosAtFirst = 2
    MultipleWorkers = FALSE
    LeaseLength = 1
    SlotCounts = {1}
    ChangingGates = {"human_gate"}
    StoreCompares = TRUE
    RetiresMarker = FALSE
    Resubmits = FALSE
    MaxTime = 1
    MaxWindows = 0
    MaxCrashes = 1
SYMMETRY Symmetry
INVARIANTS TicketAccountable
CHECK_DEADLOCK FALSE
