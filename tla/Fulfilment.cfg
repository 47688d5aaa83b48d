CONSTANTS
    None = None
    award = award
    supplier = supplier
    h1 = h1
    RequestBound = 8
    Seeded = 5
    MaxInFlight = 2
    Faults = {"query", "crash"}
    SeededEvents <- MCSeededEvents
    Terms <- MCTerms
    Amounts <- MCAmounts
    Numeric <- MCNumeric
    Hashes <- MCHashes
SPECIFICATION Spec
INVARIANTS
    MatchIsBacked
    RowsTellTheirTrail
    FulfilmentFollowsAcceptance
    NoDuplicates
CHECK_DEADLOCK FALSE
