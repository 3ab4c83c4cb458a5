\* Two validations interleaved with each other and with new forecasts, and every
\* sequence of four rules applied and rolled back among three links.
CONSTANTS
    ActiveLink  <- MCWithWifi
    RequestLink <- MCWithWifi
    Request     <- MCReports
    Classes     <- MCMixed
    Score       <- MCScores
    NoReport    = "none"
    HistoryCap  = 1
    MaxRules    = 4

SPECIFICATION Spec
CHECK_DEADLOCK FALSE
CONSTRAINT RulesOrValidations

INVARIANT
    PassMeansCompliant

PROPERTIES
    RulesImplementDiversion
