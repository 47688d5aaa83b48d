CONSTANTS
    Suppliers = {s1, s2}
    RequestBound = 6
    CaseBound = 1
    MaxInFlight = 2
    Faults = {"query", "crash"}
    None = None

SPECIFICATION Spec

SYMMETRY SupplierSymmetry

CHECK_DEADLOCK FALSE

INVARIANTS
    AwardHasItsOrder
    TrailTellsTheCase
    QuotationsAnswerTheRfq

PROPERTIES
    AwardIsFinal
