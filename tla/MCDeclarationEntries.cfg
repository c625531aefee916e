SPECIFICATION MCSpec
CONSTANTS
    Users = {u1, admin}
    Admins = {admin}
    Declarations = {d1, d2}
    Requests = {r1, r2}
    FunctionIds = {f1}
    LicenseIds = {l1}
    RestIds = {t1}
    LicenseTypes = {vacation, medical}
    EntryRequests = {e1, e2}
    MaxRows = 3
    MaxLife = 5
    MaxEntryRows = 2
    NoUser = NoUser
    NoDeclaration = NoDeclaration
    NoEntry = NoEntry
SYMMETRY Interchangeable
CONSTRAINTS RowBound EntriesBound
INVARIANTS TypeOK HistoryFollowsTransitions OneIncompletePerUser RowsByEntitledUsers CompletedIsJustified EntriesTypeOK FunctionRowsConsistent
PROPERTIES DbRefusesOnlyAfterRace LifecycleSpec TablesAreKept WritersBeganIncomplete
