SPECIFICATION FairBidSpec
CONSTANTS
    b1 = b1
    b2 = b2
    b3 = b3
    Bidders = {b1, b2, b3}
    Opening = 2
    Increment = 2
    MaxAmount = 8
    LastEnd = 2
    MaxSpan = 1
    MaxBids = 3
    MaxNow = 3
INVARIANTS
    LeaderBidHighestFirst
    PriceBetweenBids

    
CHECK_DEADLOCK FALSE
