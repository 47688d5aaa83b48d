CONSTANTS
    RequestBound = 5
    MaxInFlight = 2
    Faults = {}
    Offered = {"fund", "requestRelease", "approveRelease", "hold", "arbitrateApproveRelease", "arbitrateCancel"}
    Acknowledgements = {"accepted"}
    Orders = {"o1"}
    References = {"none"}
    DemoOrders = {}
    VolatileOrgs = {}
    Orgs <- MCOrgs
    Actors <- MCActors
    BuyerOf <- MCBuyerOf
    SupplierOf <- MCSupplierOf
    FinancierOf <- MCFinancierOf
    None = None

SPECIFICATION Spec

CHECK_DEADLOCK FALSE

INVARIANTS
    SettlementIsBacked
    AtMostOneActiveEscrow
