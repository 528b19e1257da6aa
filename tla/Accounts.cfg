SPECIFICATION FairSpec
CONSTANTS
    Conns = {c1, c2}
    Users = {u1, u2}
    Keys = {k1}
    Names = {hello}
    Grants = {{"functions:write"}}
    DbFaults = TRUE
INVARIANTS
    TypeOK
    RevokedNeverServed
PROPERTIES
    ScopesDecide
    FunctionsChangeByOwner
    EveryRequestAnswered
