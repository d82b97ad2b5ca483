SPECIFICATION Spec
INVARIANT ClientCertMatchesReference
