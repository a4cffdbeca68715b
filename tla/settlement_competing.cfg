SPECIFICATION Spec
CONSTANTS
    o1 = o1
    o2 = o2
    l1 = l1
    Orders = {o1, o2}
    Listings = {l1}
    Quantity <- OneEach
    Stock <- OneUnit
    MaxTotal = 1
    PickupOrders = {}
    Rails = {"bitcoin", "paypal"}
    MaxAttempts = 1
SYMMETRY Symmetric
INVARIANTS
    SoldIsPaidFor
    HoldsAreBacked
    ReceiptOncePerPayment
PROPERTIES
    SeenMoneyKeepsStock
CHECK_DEADLOCK FALSE
