CONSTANTS
    Migrations = 1
    SeedNeeds = 1
    MaxStarts = 2
    MaxMoves = 3
    Absent = Absent

SPECIFICATION DeploymentSpec

CHECK_DEADLOCK FALSE

PROPERTIES
    TerminalEscrowStays
