CONSTANTS
    Conns = {c1, c2}
    Handles = {h1, h2}
    MaxCalls = 5
    MaxClears = 1
    Nil = Nil
SPECIFICATION Spec
INVARIANTS
    TypeOK
    ExclusiveUse
    IdleConnectionsOpen
PROPERTY
    ImplementsPooledConnection
\* Callers stop once they have made MaxCalls handle calls.
CHECK_DEADLOCK FALSE
