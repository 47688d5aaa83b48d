CONSTANTS
    None = None
    org1 = org1
    org2 = org2
    item1 = item1
    k1 = k1
    t1 = t1
    t2 = t2
    RequestBound = 5
    Seeded = 2
    MaxInFlight = 2
    Faults = {"query", "crash"}
    Organizations <- MCOrganizations
    SeededCases <- MCSeededCases
    ReviewerOutcomes = {"pass", "block"}
    Items <- MCItems
    Mandatory <- MCMandatory
    ReviewOutcomes = {"approved", "rejected"}
    Templates <- MCTemplates
    SeededReviews <- MCSeededReviews
    SeededCertificates <- MCSeededCertificates
    Contracts <- MCContracts
    Terms <- MCTerms
    Results <- MCResults
SPECIFICATION Spec
INVARIANTS
    OneOpenCase
    DecisionsAreTold
    DecidedOnCompleteChecklist
    DistributionConserves
PROPERTIES
    DecisionsStand
    ActivationIsCovered
CHECK_DEADLOCK FALSE
