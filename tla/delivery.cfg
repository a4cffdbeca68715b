SPECIFICATION DeliverySpec
CONSTANTS
    w1 = w1
    w2 = w2
    Workers = {w1, w2}
    Deliverers = {w1, w2}
    Tasks <- Order
    Tolerant = {"reseal"}
    Nobody = Nobody
    Gone = Gone
    BatchSize = 2
    MaxBinds = 2
    MaxFaults = 1
INVARIANTS
    NoticesOnce
    
PROPERTIES
    RowsSettle
    LaterTasksRun
