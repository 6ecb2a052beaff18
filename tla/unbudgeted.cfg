\* A hand-off whose context is not within budget, and the ticket prepare issues.
SPECIFICATION Spec
CONSTANTS
    a = a  b = b  c = c  p = p  q = q  o = o
    Asked <- MCAsked
    Offered <- MCOffered
    StartUp = 2
    MemoryTimeout = 6
    IxTimeout = 9
    QueryTimeout = 6
    MapTimeout = 24
    MinConfidence = 1
    AssetPaths = {a, b, c}
    PackagePaths = {p, q}
    OtherPaths = {o}
    Projects <- MCProjects
    RootFolders <- MCRootFolders
    Depths = {1, 2, 8}
INVARIANT MutationsAreWithinBudget
CHECK_DEADLOCK FALSE
