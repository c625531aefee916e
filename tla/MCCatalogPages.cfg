SPECIFICATION CatalogSpec

CONSTANTS
    MaxRows = 2
    MaxSent = 2

INVARIANTS
    SettledRowsAreCurrent
    FormsSendWhatTheApiTakes

PROPERTIES
    CatalogSettles

CHECK_DEADLOCK FALSE
