SPECIFICATION Spec
CONSTANTS
    s1 = s1  s2 = s2  s3 = s3  s4 = s4
    p1 = p1  k1 = k1  h1 = h1  h2 = h2
    Submissions <- Sent
    Processes = {p1}
    Writers = {p1}
    Keys = {k1}
    Hashes = {h1, h2}
    ProcessOf <- Places
    KeyOf <- Ids
    HashOf <- Inputs
    Registers = {h1}
    Sealed = {h2}
    NoOne = NoOne
    NoHash = NoHash
    RefusalKinds = {"invalid", "refused", "conflict", "unreadable"}
    QueueCapacity = 1
    DeliveryAttempts = 2
    HourlyRows = 1
INVARIANTS OneResultPerCommand OneReaderPerFlight RefusalsAccounted
SYMMETRY Alike
