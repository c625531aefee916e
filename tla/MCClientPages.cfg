SPECIFICATION PagesSpec

CONSTANTS
    Docs = {1, 2, 3}
    ServerCap = 2
    MaxAsked = 3
    MaxOthers = 1
    FirstLogs = 5
    MaxLogs = 7
    LogPage = 2
    SampleSize = 5
    MaxOpened = 2
    MaxDocs = 1
    Slack = 1
    MaxWrites = 3
    MaxMoves = 3
    MaxFnWrites = 3
    MaxMounts = 1
    MaxCalls = 2
    MaxExpiries = 1
    MaxReloads = 1

INVARIANTS
    ReviewedIsWhatIsChanged
    ExtrasBelongToTheShown
    SampleHasNoGaps
    CompletedMeansJustified
    ReportsAreTheServers
    HoursAgree
    HeldForARefresh
    LoggedOutLeavesNothing

PROPERTIES
    RefusedOnlyWhenOutdated
    LiveSessionIsKept
    PagesSettle

CHECK_DEADLOCK FALSE
