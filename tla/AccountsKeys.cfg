SPECIFICATION Spec
CONSTANTS
    Conns = {c1, c2}
    Users = {u1}
    Keys = {k1, k2}
    Names = {hello}
    Grants = {{"functions:read"}, {"functions:write"}}
    DbFaults = FALSE
PROPERTIES
    ScopesDecide
