CONSTANTS
    Link = {"fiber", "5g"}
    Moved <- MCMoved
    Prediction <- MCPrediction
    Inventories <- MCInventories
    MaxPredictions = 3
    MaxRequests = 2
    MaxTroubles = 1

SPECIFICATION Spec

PROPERTIES
    MakeBeforeBreak
    SickLinksAreLeft
    RequestsAreAnswered
