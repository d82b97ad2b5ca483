CONSTANTS
    Builders = {o1, o2}
    URIs <- MCURIs
    SetterCalls <- MCSetterCalls
    MaxCalls = 4
    Nil = Nil
SPECIFICATION Spec
PROPERTY ApplyURIKeepsUnsetLevels
\* The application stops configuring after MaxCalls calls.
CHECK_DEADLOCK FALSE
