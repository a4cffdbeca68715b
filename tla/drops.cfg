SPECIFICATION Spec
CONSTANTS
    d1 = d1
    d2 = d2
    l1 = l1
    b1 = b1
    c1 = c1
    c2 = c2
    Drops = {d1, d2}
    Listings = {l1}
    Buyers = {b1}
    Claims = {c1, c2}
    Totals = {2}
    MaxSyncs = 2
    MaxGeneration = 1
SYMMETRY Symmetric
INVARIANTS
    NeverOversold
    BuyerWithinLimit
    EditionsGapless

    
CHECK_DEADLOCK FALSE
