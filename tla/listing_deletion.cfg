SPECIFICATION FairSpec
CONSTANTS
    Listings = {l1}
    NoListing = NoListing
    NoOne = NoOne
    Followers = {f1, f2}
    Sessions = {s1, s2}
    Page = 2
    MaxEvents = 3
    MaxFaults = 1
INVARIANTS
    DeletedIsNewer
    
 
CHECK_DEADLOCK FALSE
