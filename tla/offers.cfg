SPECIFICATION Spec
CONSTANTS
    OfferIds = {o1, o2}
    Commands = {c1, c2}
    Proposals <- MCProposals
    Records <- MCRecords
    MaxRevision = 3
    MaxLife = 2
SYMMETRY Interchangeable
INVARIANTS AwardIsAgreed AwardsBacked
 
CHECK_DEADLOCK FALSE
