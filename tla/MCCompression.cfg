SPECIFICATION Spec
INVARIANTS
    NegotiatesFirstCommon
