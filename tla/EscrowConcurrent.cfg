CONSTANTS
    RequestBound = 3
    MaxInFlight = 3
    Faults = {"query", "crash", "ledger"}
    Offered = {"fund", "requestRelease", "approveRelease", "hold", "openDispute", "arbitrateApproveRelease", "arbitrateRefund", "arbitrateCancel"}
    Acknowledgements = {"accepted"}
    Orders = {"o1"}
    References = {"none", "demo"}
    DemoOrders = {}
    VolatileOrgs = {}
    Orgs <- MCOrgs
    Actors <- MCActors
    BuyerOf <- MCBuyerOf
    SupplierOf <- MCSupplierOf
    FinancierOf <- MCFinancierOf
    None = None

SPECIFICATION MCLoadSpec

CHECK_DEADLOCK FALSE

INVARIANTS
    RowMatchesEvent
    AnchorIsProven
    ChainCheckAccepts
    SerialForksComeFromFailures

PROPERTIES
    ImplementsHistory
