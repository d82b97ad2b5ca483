CONSTANTS
    Sizes <- MCSizes
    MaxMessageSize = 8
    DefaultMaxMessageSize = 48
    MaxRequests = 3
    Nil = Nil

SPECIFICATION Spec

INVARIANT TypeOK
INVARIANT StreamAligned
INVARIANT SuccessImpliesUsable

\* The caller stops after MaxRequests requests.
CHECK_DEADLOCK FALSE
