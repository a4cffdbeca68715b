SPECIFICATION Spec
CONSTANTS
    f1 = f1
    f2 = f2
    Flows = {f1, f2}
    MaxLiveFlows = 2
    ReaperBatch = 1
    MaxVersion = 3
    MaxNonces = 1

    
PROPERTIES
    StatusMoves
    FlowsEnd
