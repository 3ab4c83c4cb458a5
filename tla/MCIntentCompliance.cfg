\* One intent of every kind through its life, among rules, forecasts and telemetry.
CONSTANTS
    ActiveLink  <- MCLinks
    RequestLink <- MCLinks
    Request     <- MCNoReports
    Classes     <- MCBulk
    Score       <- MCScores
    NoReport    = "none"
    HistoryCap  = 2
    MaxRules    = 2
    Intent      <- MCIntents
    Goal        <- MCGoals
    NoLink      = "none"
    LinkOrder   <- MCLinkOrder

SPECIFICATION ControlSpec

PROPERTIES
    ClosedIntentsAreLeftAlone
    ComplianceIsNoticed
    ViolationIsAnswered

