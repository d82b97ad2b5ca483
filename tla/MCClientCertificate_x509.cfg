SPECIFICATION Spec
INVARIANT X509UsernameReversesRDNs
