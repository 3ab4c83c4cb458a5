CONSTANTS
    s1 = s1
    s2 = s2
    f1 = f1
    f2 = f2
    o1 = o1
    o2 = o2
    Link <- MCLink
    Session <- MCSession
    Node <- MCNode
    Flow <- MCFlow
    OnosId <- MCOnosId
    CtrlType = "onos"
    Mode = "memory"
    NetconfEnabled = FALSE
    CanDrop = TRUE
    MaxHandoffs = 2

SPECIFICATION HandoffSpec
SYMMETRY Symmetry
CHECK_DEADLOCK FALSE

INVARIANTS
    RulesPassedSandbox
    RecordedIffReported
    MigrationsPassedSandbox
    RollbackTrueMeansGone
    RecordReachesRules
    OneHome
    ActiveIsListed
    HistoryAccounts

PROPERTIES
    PreservedMeansMoved
    RulesFallOnlyToTheirOwn
