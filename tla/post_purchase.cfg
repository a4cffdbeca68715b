SPECIFICATION Spec
CONSTANTS
    LinesOf <- Kinds
    Reviewers = {"buyer"}
    Total = 2
    Sent <- Sending
    Misfits <- Contradicting
    Assortments <- Goods
    Notice <- Notices
    MaxEdits = 2
    InstantKinds = {"file"}
    MaxUpdates = 1
INVARIANTS
    
    WithheldWhenTakenBack
    
    PayableIsDeliverable
PROPERTIES
    HandoverOnPinnedTerms
    DeliveredOrdersEnd
CHECK_DEADLOCK FALSE
