CONSTANTS
    None = None
    t1 = t1
    t2 = t2
    RequestBound = 4
    Seeded = 1
    MaxInFlight = 2
    Faults = {"query", "crash"}
    Users = {"ann"}
    RoleCodes = {"administrator", "buyer"}
    SeededRoles = {"administrator"}
    SeededGrants <- MCSeededGrants
    SeededLogins <- MCSeededLogins
    Numbers = {1, 2, 3, 4}
    TermSets <- MCTermSets
    SeededContracts <- MCSeededContracts
    Clients = {"scm"}
    DeliveryRoutes = {"iot"}
    Keys = {"k1"}
    Absent = Absent
    Migrations = 2
    SeedNeeds = 2
    MaxStarts = 2
    MaxMoves = 1
    FewRequests = 3
    Orgs = {"o1", "o2"}
    DocumentRoles = {"supplier", "auditor"}
    RegistrationNumbers = {"n1", "n2"}
    Companies = {"acme", "bolt", "credit"}
    DealOrders = {"d1"}
    PartiesOf <- MCPartiesOf
    DealInvoices = {"i1"}
    WorkspaceActors <- MCWorkspaceActors
    TasksAsked <- MCTasksAsked
    Environments <- MCEnvironments
    MaxRestarts = 1
SPECIFICATION Spec
INVARIANTS
    AssignmentsAreAccounted
    KeysStandForWork
    DatabaseIsWhole
    DocumentsAreWhole
    MembersAreAccounted
    
    ProofsAreTold
PROPERTIES
    EndedSessionsStayEnded
    AgreementFollowsNegotiation
    BundlesStayCheckable
    HistoryOutlivesRestarts
CHECK_DEADLOCK FALSE
