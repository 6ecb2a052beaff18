\* Every executed slice is settled, under fairness: no symmetry, and leases that do
\* not run out, but a new quota window and a crash.
SPECIFICATION FairSpec
CONSTANTS
    w1 = w1  w2 = w2  s1 = s1  s2 = s2
    NoOne = NoOne  NoSlice = NoSlice  NoState = NoState  NoTicket = NoTicket  NoPatch = NoPatch
    Workers <- MCWorkers
    Slices <- TwoSlices
    Capabilities <- MCCapabilities
    InitialState <- FreshState
    AllowedAtFirst = 2
    TodosAtFirst = 1
    MultipleWorkers = TRUE
    LeaseLength = 1
    SlotCounts = {0, 1, 2}
    ChangingGates = {"human_gate"}
    StoreCompares = TRUE
    RetiresMarker = TRUE
    Resubmits = FALSE
    MaxTime = 0
    MaxWindows = 1
    MaxCrashes = 1
INVARIANTS ChargedAtMostOnce
PROPERTIES SliceSettled
CHECK_DEADLOCK FALSE
