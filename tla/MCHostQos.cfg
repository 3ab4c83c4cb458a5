SPECIFICATION Spec
CONSTANTS
    t1 = t1
    t2 = t2
    r1 = r1
    r2 = r2
    zoom = zoom
    youtube = youtube
    alice = alice
    Thread <- MCThread
    RuleId <- MCRuleId
    App <- MCApp
    User <- MCUser
    Setting <- MCSetting
    Matches <- MCMatches
    Parts = 2
    Link = 10000
    MaxFaults = 1
SYMMETRY Symmetry
INVARIANTS
    NoStrayArtifacts
    ActiveBlocksHold
    SettledIsEnforced
    SettledIsSomeonesSetting
    SharesFitTheTotal
