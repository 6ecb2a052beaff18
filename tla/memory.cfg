\* Two callers, conflicting and dependent requests, one crash.
SPECIFICATION ReadingSpec
CONSTANTS
    c1 = c1  c2 = c2  x = x  y = y  z = z  b1 = b1  b2 = b2  q1 = q1
    NoFile = NoFile  NoRequest = NoRequest  NoRecord = NoRecord
    Callers <- MCCallers
    Ids <- MCIds
    Bodies <- MCBodies
    Requests <- Assorted
    Overlaps = FALSE
    Readers <- MCReaders
    Asks <- Questions
    NoAsk = NoAsk
    MaxCrashes = 1
CONSTRAINT OneBesideReader
SYMMETRY Symmetry
INVARIANTS
    TypeOK EvidenceIntact Derivations IndexSound AnswersHold
    NothingInternalRead AnswersStayTrue EvidenceReached FindsWhatWasStored
PROPERTIES ImplementsArchive RefusalsAreDue
CHECK_DEADLOCK FALSE
