SPECIFICATION MCSpec
CONSTANTS
    Users = {u1}
    Admins = {}
    Declarations = {d1}
    Requests = {r1}
    FunctionIds = {f1}
    LicenseIds = {l1}
    RestIds = {t1}
    LicenseTypes = {vacation, medical}
    EntryRequests = {e1, e2}
    MaxRows = 2
    MaxLife = 2
    MaxEntryRows = 2
    NoUser = NoUser
    NoDeclaration = NoDeclaration
    NoEntry = NoEntry
SYMMETRY Interchangeable
CONSTRAINTS RowBound EntriesBound
INVARIANTS RestDurationWithinMax
