CONSTANTS
    RequestBound = 3
    MaxInFlight = 2
    Faults = {"ledger", "query", "crash"}
    Offered = {"fund"}
    Acknowledgements = {"accepted", "rejected"}
    Orders = {"o1"}
    References = {"none"}
    DemoOrders = {}
    VolatileOrgs = {"supplierOrg"}
    Orgs <- MCOrgs
    Actors <- MCActors
    BuyerOf <- MCBuyerOf
    SupplierOf <- MCSupplierOf
    FinancierOf <- MCFinancierOf
    None = None

SPECIFICATION FairSpec

CHECK_DEADLOCK FALSE

PROPERTIES
    AnchorStatusIsSettled
