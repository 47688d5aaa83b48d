CONSTANTS
    Ids = {e1, e2}
    Orders = {"o1"}
    RequestBound = 4
    MaxInFlight = 2
    Faults = {"query", "crash"}
    Adapters = {"localSandbox", "manualSettlement"}
    Requested = {"failed"}
    None = None

SPECIFICATION LoadSpec

CHECK_DEADLOCK FALSE

INVARIANTS
    AtMostOneActiveInstruction
    InstructionIsBacked
    StatusIsAnnounced
