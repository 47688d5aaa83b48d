CONSTANTS
    RequestBound = 1
    MaxInFlight = 1
    Faults = {"query"}
    Offered = {}
    Acknowledgements = {"accepted"}
    Orders = {"o1"}
    References = {"none"}
    DemoOrders = {}
    VolatileOrgs = {}
    Orgs <- MCOrgs
    Actors <- MCActors
    BuyerOf <- MCBuyerOf
    SupplierOf <- MCSupplierOf
    FinancierOf <- MCFinancierOf
    None = None

SPECIFICATION Spec

CHECK_DEADLOCK FALSE

PROPERTIES
    AnchoringNeverFailsARequest
