CONSTANTS
    None = None
    RequestBound = 4
    Seeded = 2
    MaxInFlight = 2
    MaxConnections = 2
    Faults = {"connection", "crash"}
    Registrations <- MCRegistrations
    SeededRegistrations <- MCSeededRegistrations
    SeededSent <- MCSeededSent
    Invitations <- MCInvitations
    RelationshipTypes = {"supplier"}
    Aliases = {"alias1"}
    Actors <- MCActors
SPECIFICATION FairSpec
INVARIANTS
    WholeOrNothing
    UniqueEntries
    RelationshipsAreAccepted
PROPERTIES
    EveryHandlerAnswers
CHECK_DEADLOCK FALSE
