\* Two workers whose slices cost one or two slots, two todos, leases that expire,
\* a human gate that people move, a crash.
SPECIFICATION Spec
CONSTANTS
    w1 = w1  w2 = w2  s1 = s1  s2 = s2
    NoOne = NoOne  NoSlice = NoSlice  NoState = NoState  NoTicket = NoTicket  NoPatch = NoPatch
    Workers <- MCWorkers
    Slices <- TwoSlices
    Capabilities <- MCCapabilities
    InitialState <- FreshState
    AllowedAtFirst = 2
    TodosAtFirst = 2
    MultipleWorkers = TRUE
    LeaseLength = 1
    SlotCounts = {1, 2}
    ChangingGates = {"human_gate"}
    StoreCompares = TRUE
    RetiresMarker = TRUE
    Resubmits = FALSE
    MaxTime = 1
    MaxWindows = 0
    MaxCrashes = 1
SYMMETRY Symmetry
INVARIANTS TypeOK SpentIsCharged EvidenceFirst
           ReferencesDurable LiveTicketsDisjoint WithinQuota TicketAffordable
PROPERTIES ChargeJustified LeaseRespected ImplementsLedger
CHECK_DEADLOCK FALSE
