\* Captures of one id with different contents run at the same time.
SPECIFICATION Spec
CONSTANTS
    c1 = c1  c2 = c2  x = x  y = y  z = z  b1 = b1  b2 = b2
    NoFile = NoFile  NoRequest = NoRequest  NoRecord = NoRecord
    Callers <- MCCallers
    Ids <- MCIds
    Bodies <- MCBodies
    Requests <- Assorted
    Overlaps = TRUE
    MaxCrashes = 0
SYMMETRY Symmetry
INVARIANTS EvidenceIntact
CHECK_DEADLOCK FALSE
