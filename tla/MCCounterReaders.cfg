CONSTANTS
    Width = 4
    Rounded <- MCRounded
    Exact = 2

SPECIFICATION CountersSpec

INVARIANT
    ReportsMissAtMostAWrap
