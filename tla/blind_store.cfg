\* The caller applies the writeback to whatever the state is by then.
SPECIFICATION Spec
CONSTANTS
    w1 = w1  w2 = w2  s1 = s1  s2 = s2
    NoOne = NoOne  NoSlice = NoSlice  NoState = NoState  NoTicket = NoTicket  NoPatch = NoPatch
    Workers <- MCWorkers
    Slices <- TwoSlices
    Capabilities <- MCCapabilities
    InitialState <- FreshState
    AllowedAtFirst = 2
    TodosAtFirst = 2
    MultipleWorkers = TRUE
    LeaseLength = 1
    SlotCounts = {1}
    ChangingGates = {"human_gate"}
    StoreCompares = FALSE
    RetiresMarker = TRUE
    Resubmits = FALSE
    MaxTime = 1
    MaxWindows = 0
    MaxCrashes = 1
SYMMETRY Symmetry
INVARIANTS SpentIsCharged
CHECK_DEADLOCK FALSE
