SPECIFICATION AuctionSpec
CONSTANTS
    b1 = b1
    b2 = b2
    r1 = r1
    r2 = r2
    Bidders = {b1, b2}
    Reservations = {r1, r2}
    Opening = 1
    Increment = 1
    MaxAmount = 2
    LastEnd = 1
    MaxSpan = 0
    MaxBids = 1
    MaxNow = 1
    Quantity = 2
    MaxTotal = 2
PROPERTIES
    WaitingMoneyKeepsHold
    ReservationsEnd
CHECK_DEADLOCK FALSE
