\* prepare with its context and its hand-off, or the artifact graph window.
SPECIFICATION Spec
CONSTANTS
    a = a  b = b  c = c  p = p  q = q  o = o
    Asked <- MCAsked
    Offered <- MCOffered
    StartUp = 2
    MemoryTimeout = 6
    IxTimeout = 9
    QueryTimeout = 6
    MapTimeout = 24
    MinConfidence = 1
    AssetPaths = {a, b, c}
    PackagePaths = {p, q}
    OtherPaths = {o}
    Projects <- MCProjects
    RootFolders <- MCRootFolders
    Depths = {1, 2, 8}
INVARIANTS PrepTypeOK NavigationIsOptional NoIxOutlivesPrepare DoubtIsReported
           TicketsAreFinalizable ScanIsExact ImpactIsExact
PROPERTIES PrepareEnds ImplementsDisplay
CHECK_DEADLOCK FALSE
