SPECIFICATION FairSpec
CONSTANTS
    o1 = o1
    l1 = l1
    l2 = l2
    Orders = {o1}
    Listings = {l1, l2}
    Quantity <- OneEach
    Stock <- OneUnit
    MaxTotal = 1
    PickupOrders = {o1}
    Rails = {"sandbox", "bitcoin", "stripe", "paypal", "locks"}
    MaxAttempts = 2

    
PROPERTIES
    DecisionsAreFinal
    StockFollowsLedger
    HoldsEnd
    ReviewsEnd
CHECK_DEADLOCK FALSE
