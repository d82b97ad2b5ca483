CONSTANTS
    Builders = {o1}
    URIs <- MCCertFileURIs
    SetterCalls <- MCSetterCalls
    MaxCalls = 1
    Nil = Nil
SPECIFICATION Spec
PROPERTY SeparateFilesUseNamedKey
\* The application stops configuring after MaxCalls calls.
CHECK_DEADLOCK FALSE
