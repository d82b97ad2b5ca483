--------------------------- MODULE MCClientOptions ---------------------------
(* ClientOptions instantiated for TLC: two builders, a handful of URIs    *)
(* and setter calls touching the options Validate checks together.        *)
EXTENDS ClientOptions

\* A connection string with one host and nothing else set.
URIBase ==
    [parsed |-> TRUE, scheme |-> "mongodb", direct |-> Nil,
     compressors |-> <<>>, heartbeat |-> Nil, hosts |-> 1,
     loadBalanced |-> Nil, maxPoolSize |-> Nil, minPoolSize |-> Nil,
     replicaSet |-> Nil, srvMaxHosts |-> 0, ssl |-> FALSE,
     zlibLevel |-> Nil, zstdLevel |-> Nil, readPrefValid |-> TRUE,
     caFile |-> Nil, certKeyFile |-> Nil, certFile |-> Nil, keyFile |-> Nil,
     password |-> "", auth |-> Nil]

PEM(type, pair) == [type |-> type, pair |-> pair]

\* mongodb://h1/?tls=true&tlsCertificateFile=<file>&tlsPrivateKeyFile=<file>
SeparateFilesURI(certFile, keyFile, password) ==
    [URIBase EXCEPT !.ssl = TRUE, !.certFile = File(TRUE, certFile),
                    !.keyFile = File(TRUE, keyFile), !.password = password]

Credential(mechanism, username, machine, props) ==
    [mechanism |-> mechanism, username |-> username, password |-> FALSE,
     machine |-> machine, human |-> FALSE, props |-> props]

\* MONGODB-X509 with and without a username, and MONGODB-OIDC with a
\* machine callback and the k8s ENVIRONMENT, which Validate rejects.
X509Credential(username) == Credential("MONGODB-X509", username, FALSE, <<>>)
OIDCK8sCallback == Credential("MONGODB-OIDC", "", TRUE, [ENVIRONMENT |-> "k8s"])

MCURIs ==
    { \* mongodb://h1/?compressors=zlib,zstd
      [URIBase EXCEPT !.compressors = <<"zlib", "zstd">>],
      \* a URI ParseAndValidate rejects
      [URIBase EXCEPT !.parsed = FALSE],
      \* mongodb://h1/?minPoolSize=2&readPreference=bogus
      [URIBase EXCEPT !.minPoolSize = 2, !.readPrefValid = FALSE],
      \* mongodb+srv://h/?loadBalanced=true (ssl is implied by SRV)
      [URIBase EXCEPT !.scheme = "mongodb+srv", !.loadBalanced = TRUE,
                      !.ssl = TRUE],
      \* mongodb://h1,h2/?replicaSet=rs&srvMaxHosts=0
      [URIBase EXCEPT !.hosts = 2, !.replicaSet = "rs"],
      \* mongodb://h1/?replicaSet=rs&tls=true&tlsCAFile=<unreadable>
      [URIBase EXCEPT !.replicaSet = "rs", !.ssl = TRUE,
                      !.caFile = File(FALSE, <<>>)],
      SeparateFilesURI(<<PEM("cert", 1)>>, <<PEM("dekKey", 1)>>, RightPassword),
      \* ...&authMechanism=MONGODB-X509&tlsCertificateFile=...&tlsPrivateKeyFile=...
      [SeparateFilesURI(<<PEM("cert", 2)>>, <<PEM("key", 2)>>, "") EXCEPT
          !.auth = X509Credential("")] }

\* A certificate with its encrypted key and the password, and a combined
\* PEM named as the certificate file next to a key of another pair.
MCCertFileURIs ==
    { SeparateFilesURI(<<PEM("cert", 1)>>, <<PEM("dekKey", 1)>>, RightPassword),
      SeparateFilesURI(<<PEM("cert", 1), PEM("key", 1)>>, <<PEM("key", 2)>>, "") }

MCSetterCalls ==
    { [field |-> "compressors", value |-> <<>>],
      [field |-> "zlibLevel", value |-> 9],
      [field |-> "loadBalanced", value |-> TRUE],
      [field |-> "direct", value |-> TRUE],
      [field |-> "maxPoolSize", value |-> 1],
      [field |-> "tlcp", value |-> TRUE],
      [field |-> "replicaSet", value |-> "rs"],
      [field |-> "srvMaxHosts", value |-> 2],
      [field |-> "auth", value |-> X509Credential("")],
      [field |-> "auth", value |-> X509Credential("app")],
      [field |-> "auth", value |-> OIDCK8sCallback] }
=============================================================================
