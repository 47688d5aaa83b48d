CONSTANTS
    RequestBound = 4
    MaxInFlight = 2
    Faults = {}
    Offered = {"fund", "requestRelease", "hold"}
    Acknowledgements = {"accepted"}
    Orders = {"o1"}
    References = {"none"}
    DemoOrders = {}
    VolatileOrgs = {}
    Orgs <- MCOrgs
    Actors <- MCActors
    BuyerOf <- MCBuyerOf
    SupplierOf <- MCSupplierOf
    FinancierOf <- MCFinancierOf
    None = None

SPECIFICATION Spec

CHECK_DEADLOCK FALSE

PROPERTIES
    ReleaseOnlyWhenDisputeFree
