SPECIFICATION MCSpec
CONSTANTS
    a1 = a1
    d1 = d1
    s1 = s1
    Areas = {a1}
    Departments = {d1}
    Sections = {s1}
    Units = {u1}
    Plazas = {p1}
    Requests = {r1, r2}
    MaxTouched = 1
    NoOp = NoOp
PROPERTIES NoFloatingPlaza
