SPECIFICATION ScanSpec
CONSTANTS
    Events = {h1, h2, h3}
    Messages <- MCMessages
    Cases <- MCCases
    Generations = {old, new}
    Entries <- MCEntries
    Patterns <- MCPatterns
    Legacy <- MCLegacy
    Absent = Absent
    Gap = 1
    ScanLimit = 3
    MaxAdmitted = 2
    MaxScans = 1
    h1 = h1
    h2 = h2
    h3 = h3
    old = old
    new = new
CHECK_DEADLOCK FALSE
INVARIANT SlotsMatch
INVARIANT ProtectedStaysHidden
PROPERTY HitsAreReported
PROPERTY CallsEnd
