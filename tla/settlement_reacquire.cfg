SPECIFICATION Spec
CONSTANTS
    o1 = o1
    l1 = l1
    l2 = l2
    Orders = {o1}
    Listings = {l1, l2}
    Quantity <- OneEach
    Stock <- OneUnit
    MaxTotal = 1
    PickupOrders = {}
    Rails = {"bitcoin"}
    MaxAttempts = 1
INVARIANTS
    ReservedHasHolder
CHECK_DEADLOCK FALSE
