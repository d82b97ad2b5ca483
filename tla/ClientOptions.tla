---------------------------- MODULE ClientOptions ----------------------------
(***************************************************************************)
(* The ClientOptions builder (mongo/options/clientoptions.go): setters,  *)
(* ApplyURI with setURIOpts, MergeClientOptions and Validate, restricted *)
(* to the options that configure connections and the topology checks    *)
(* Validate makes on them.  An option is Nil while its pointer is nil.   *)
(* A parsed connection string is a record of the options it sets; the  *)
(* files its TLS options name are ClientCertificate files.              *)
(***************************************************************************)
EXTENDS Naturals, Sequences, SequencesExt, Compression, ClientCertificate

CONSTANTS
    Builders,     \* *ClientOptions values the application builds
    URIs,         \* connstring.ParseAndValidate results of the URIs it applies
    SetterCalls,  \* setter calls it makes: [field |-> f, value |-> v]
    MaxCalls,     \* bound on builder calls
    Nil           \* a nil pointer or slice

VARIABLES
    opts,         \* each builder's fields
    uriFailed,    \* history: the builder was given a URI setURIOpts must reject
    merged,       \* the result of the last MergeClientOptions, or Nil
    mergedFailed, \* history: a merged builder had uriFailed
    calls

vars == <<opts, uriFailed, merged, mergedFailed, calls>>

\* Fields of ClientOptions the model keeps; connString is the URI scheme
\* of the unexported connString ("none" while nil), err the unexported err.
Fields == {"compressors", "zlibLevel", "zstdLevel", "direct", "heartbeat",
           "hosts", "loadBalanced", "minPoolSize", "maxPoolSize",
           "replicaSet", "srvMaxHosts", "tls", "tlcp", "auth"}

\* Client(): every option nil.
NewOptions == [f \in Fields |-> Nil] @@ [connString |-> "none", err |-> "none"]

\* The zero values MergeClientOptions skips: nil pointers and nil slices.
IsZero(v) == v = Nil

-----------------------------------------------------------------------------
(* A Credential: its mechanism, username, whether a password and each    *)
(* OIDC callback is set, and its AuthMechanismProperties as a function   *)
(* from the keys present to their values.  A value of Auth is copied     *)
(* whole: the in-place username write of setURIOpts is the only write    *)
(* through the pointer, and it reaches the builder it runs on.           *)
Prop(c, k) == IF k \in DOMAIN c.props THEN c.props[k] ELSE ""

\* strings.ToLower(mechanism) == "mongodb-x509", over the spellings used.
X509Mechanisms == {"MONGODB-X509", "mongodb-x509"}

\* The OIDC ENVIRONMENT values Validate knows.
OIDCEnvironments == {"gcp", "azure", "k8s", "test"}

\* Validate, the ENVIRONMENT switch (with the gcp/azure fallthrough).
ValidateOIDCEnvironment(c) ==
    LET env == c.props["ENVIRONMENT"]
        cloud == env \in {"gcp", "azure", "k8s"}
    IN  CASE env \in {"gcp", "azure"} /\ Prop(c, "TOKEN_RESOURCE") = ""
                -> "oidcResourceMissing"
          [] cloud /\ c.machine -> "oidcEnvMachineCallback"
          [] cloud /\ c.human -> "oidcEnvHumanCallback"
          [] env = "test" /\ Prop(c, "TOKEN_RESOURCE") # "" -> "oidcTestResource"
          [] env = "test" /\ c.username # "" -> "oidcTestUsername"
          [] env \in OIDCEnvironments -> "none"
          [] OTHER -> "oidcEnvUnsupported"

\* Validate, the MONGODB-OIDC checks on c.Auth, in the code's order.
ValidateOIDC(c) ==
    CASE c.mechanism # "MONGODB-OIDC" -> "none"
      [] c.password -> "oidcPassword"
      [] c.machine /\ c.human -> "oidcBothCallbacks"
      [] ~c.human /\ Prop(c, "ALLOWED_HOSTS") # "" -> "oidcAllowedHosts"
      [] ~c.machine /\ ~c.human /\ Prop(c, "ENVIRONMENT") = "" -> "oidcNoSource"
      [] DOMAIN c.props \ {"ALLOWED_HOSTS", "ENVIRONMENT", "TOKEN_RESOURCE"} # {}
            -> "oidcProperty"
      [] "ENVIRONMENT" \in DOMAIN c.props -> ValidateOIDCEnvironment(c)
      [] OTHER -> "none"

\* The username extractX509UsernameFromSubject derives from the subject of
\* the first certificate of key pair p (checked on its own by
\* MCClientCertificate); no client certificate gives the subject "".
X509Username(p) == IF p = 0 THEN "" ELSE <<"CN=client1", "CN=client2">>[p]

(* Mutant of X509Fill: the username is taken from the certificate even  *)
(* when one was specified.                                               *)
X509FillAlways(o, subject) ==
    IF o.auth # Nil /\ o.auth.mechanism \in X509Mechanisms
    THEN [o EXCEPT !.auth.username = X509Username(subject)]
    ELSE o

\* setURIOpts: when the credential is MONGODB-X509 without a username, the
\* username comes from the client certificate's subject.
X509Fill(o, subject) ==
    IF o.auth # Nil /\ o.auth.mechanism \in X509Mechanisms /\ o.auth.username = ""
    THEN [o EXCEPT !.auth.username = X509Username(subject)]
    ELSE o

\* stringSliceContains.
StringSliceContains(source, target) == source # Nil /\ Contains(source, target)

\* Options set from the URI when the given condition holds.
SetIf(o, cond, f, v) == IF cond THEN [o EXCEPT ![f] = v] ELSE o

\* setURIOpts, from the connString assignment to the compressors: a new
\* Credential when the URI has auth parameters (no callbacks), direct
\* (connect or directConnection), then compressors with their default
\* levels.
URIConnectOpts(o, u) ==
    LET o1 == SetIf(SetIf([o EXCEPT !.connString = u.scheme],
                          u.auth # Nil, "auth", u.auth),
                    u.direct # Nil, "direct", u.direct)
    IN  IF Len(u.compressors) = 0 THEN o1
        ELSE SetIf(SetIf([o1 EXCEPT !.compressors = u.compressors],
                         StringSliceContains(u.compressors, "zlib"),
                         "zlibLevel", DefaultZlibLevel),
                   StringSliceContains(u.compressors, "zstd"),
                   "zstdLevel", DefaultZstdLevel)

\* setURIOpts: heartbeat, hosts (always overwritten), loadBalanced and the
\* pool sizes.
URIPoolOpts(o, u) ==
    SetIf(SetIf(SetIf(SetIf([o EXCEPT !.hosts = u.hosts],
        u.heartbeat # Nil, "heartbeat", u.heartbeat),
        u.loadBalanced # Nil, "loadBalanced", u.loadBalanced),
        u.maxPoolSize # Nil, "maxPoolSize", u.maxPoolSize),
        u.minPoolSize # Nil, "minPoolSize", u.minPoolSize)

\* setURIOpts' ssl block: the CA file, then the client certificate from
\* tlsCertificateKeyFile or, failing that, from tlsCertificateFile and
\* tlsPrivateKeyFile.  The call passes SSLCertificateFile as the keyFile
\* parameter of addClientCertFromSeparateFiles and SSLPrivateKeyFile as its
\* certFile; a file option left unset is the path "", which does not read.
URITLSLoad(u) ==
    LET Path(f) == IF f = Nil THEN File(FALSE, <<>>) ELSE f
        ca == AddCACertFromFile(u.caFile)
    IN  CASE u.caFile # Nil /\ ca # "none" -> Result(ca, 0)
          [] u.certKeyFile # Nil ->
               AddClientCertFromConcatenatedFile(u.certKeyFile, u.password)
          [] u.certFile # Nil \/ u.keyFile # Nil ->
               AddClientCertFromSeparateFiles(Path(u.certFile), Path(u.keyFile),
                                              u.password)
          [] OTHER -> Result("none", 0)

\* The ssl block returns no error.
CertsLoad(u) == URITLSLoad(u).err = "none"

\* setURIOpts after the read preference: replicaSet, srvMaxHosts, then for
\* ssl the certificate loading, the x509 username, and TLSConfig, stored
\* only after the certificates loaded.
URISecurityOpts(o, u) ==
    LET o2 == SetIf(SetIf(o, u.replicaSet # Nil, "replicaSet", u.replicaSet),
                    u.srvMaxHosts # 0, "srvMaxHosts", u.srvMaxHosts)
    IN  IF u.ssl /\ CertsLoad(u)
        THEN [X509Fill(o2, URITLSLoad(u).subject) EXCEPT !.tls = TRUE]
        ELSE o2

\* setURIOpts: the compression levels the URI names.
URILevelOpts(o, u) ==
    SetIf(SetIf(o, u.zlibLevel # Nil, "zlibLevel", u.zlibLevel),
          u.zstdLevel # Nil, "zstdLevel", u.zstdLevel)

(* Mutant of SetURIOpts: the error of the ssl block is dropped, so a    *)
(* certificate that fails to load leaves TLS unset without an error.    *)
SetURIOptsCertErrDropped(o, u) ==
    IF ~u.parsed THEN [o EXCEPT !.err = "parse"]
    ELSE
    LET o3 == URIPoolOpts(URIConnectOpts(o, u), u)
        o4 == URISecurityOpts(o3, u)
    IN  IF ~u.readPrefValid THEN [o3 EXCEPT !.err = "readPreference"]
        ELSE [URILevelOpts(o4, u) EXCEPT !.err = "none"]

\* setURIOpts: its options in the code's order.  A URI that fails to
\* parse changes nothing; an invalid readPreference, or certificate files
\* that fail to load, return after the options before them were already
\* applied.  Its result becomes c.err.
SetURIOpts(o, u) ==
    IF ~u.parsed THEN [o EXCEPT !.err = "parse"]
    ELSE
    LET o3 == URIPoolOpts(URIConnectOpts(o, u), u)
        o4 == URISecurityOpts(o3, u)
    IN  CASE ~u.readPrefValid -> [o3 EXCEPT !.err = "readPreference"]
          [] u.ssl /\ ~CertsLoad(u) -> [o4 EXCEPT !.err = "certificate"]
          [] OTHER -> [URILevelOpts(o4, u) EXCEPT !.err = "none"]

\* Validate, on the options modelled: the first error found.
Validate(o) ==
    CASE o.err # "none" -> o.err
      [] o.direct = TRUE /\ o.hosts # Nil /\ o.hosts > 1 -> "directMultipleHosts"
      [] o.direct = TRUE /\ o.connString = "mongodb+srv" -> "directSRV"
      [] o.heartbeat = "short" -> "heartbeatTooShort"
      [] o.maxPoolSize # Nil /\ o.minPoolSize # Nil /\ o.maxPoolSize # 0
            /\ o.minPoolSize > o.maxPoolSize -> "minPoolSize"
      [] o.loadBalanced = TRUE /\ o.hosts # Nil /\ o.hosts > 1 -> "lbMultipleHosts"
      [] o.loadBalanced = TRUE /\ o.replicaSet # Nil -> "lbReplicaSet"
      [] o.loadBalanced = TRUE /\ o.direct = TRUE -> "lbDirect"
      [] o.srvMaxHosts # Nil /\ o.srvMaxHosts > 0 /\ o.replicaSet # Nil
            -> "srvMaxHostsReplicaSet"
      [] o.srvMaxHosts # Nil /\ o.srvMaxHosts > 0 /\ o.loadBalanced = TRUE
            -> "srvMaxHostsLB"
      [] o.auth # Nil /\ ValidateOIDC(o.auth) # "none" -> ValidateOIDC(o.auth)
      [] OTHER -> "none"

\* MergeClientOptions of two or more options: starting from Client(), each
\* non-zero field of each option in turn overwrites, and so do a non-nil
\* err and connString.
MergeStep(c, opt) ==
    [f \in DOMAIN c |->
        CASE f = "err" -> IF opt.err # "none" THEN opt.err ELSE c.err
          [] f = "connString" ->
                IF opt.connString # "none" THEN opt.connString ELSE c.connString
          [] OTHER -> IF IsZero(opt[f]) THEN c[f] ELSE opt[f]]

MergeClientOptions(list) == FoldLeft(MergeStep, NewOptions, list)

-----------------------------------------------------------------------------
(* History input, judged from the URI alone and not from setURIOpts:    *)
(* ApplyURI must report a URI that does not parse, names an unknown     *)
(* read preference, or asks for TLS with certificate files that do not  *)
(* load.                                                                 *)
URIRejected(u) == ~u.parsed \/ ~u.readPrefValid \/ (u.ssl /\ ~CertsLoad(u))

Init ==
    /\ opts = [b \in Builders |-> NewOptions]
    /\ uriFailed = [b \in Builders |-> FALSE]
    /\ merged = Nil
    /\ mergedFailed = FALSE
    /\ calls = 0

Call == calls < MaxCalls /\ calls' = calls + 1

\* ApplyURI: nothing once c.err is set; else c.err = setURIOpts(uri, c).
ApplyURI(b, u) ==
    /\ Call
    /\ IF opts[b].err # "none" THEN UNCHANGED opts
       ELSE opts' = [opts EXCEPT ![b] = SetURIOpts(@, u)]
    /\ uriFailed' = [uriFailed EXCEPT ![b] = @ \/ URIRejected(u)]
    /\ UNCHANGED <<merged, mergedFailed>>

\* A setter call: c.<field> = its argument (or a pointer to it).
SetField(b, s, fields) ==
    /\ s.field \in fields
    /\ Call
    /\ opts' = [opts EXCEPT ![b][s.field] = s.value]
    /\ UNCHANGED <<uriFailed, merged, mergedFailed>>

SetCompressors(b, s) == SetField(b, s, {"compressors"})

\* SetDirect, SetHeartbeatInterval, SetHosts, SetLoadBalanced.
SetTopology(b, s) == SetField(b, s, {"direct", "heartbeat", "hosts", "loadBalanced"})

\* SetMaxPoolSize, SetMinPoolSize.
SetPoolSize(b, s) == SetField(b, s, {"maxPoolSize", "minPoolSize"})

SetReplicaSet(b, s) == SetField(b, s, {"replicaSet"})

\* SetTLSConfig, SetTLCPConfig.
SetSecureConfig(b, s) == SetField(b, s, {"tls", "tlcp"})

\* SetZlibLevel, SetZstdLevel.
SetCompressionLevel(b, s) == SetField(b, s, {"zlibLevel", "zstdLevel"})

SetSRVMaxHosts(b, s) == SetField(b, s, {"srvMaxHosts"})

SetAuth(b, s) == SetField(b, s, {"auth"})

\* MergeClientOptions(opts[b1], opts[b2]).
Merge(b1, b2) ==
    /\ b1 # b2
    /\ Call
    /\ merged' = MergeClientOptions(<<opts[b1], opts[b2]>>)
    /\ mergedFailed' = (uriFailed[b1] \/ uriFailed[b2])
    /\ UNCHANGED <<opts, uriFailed>>

Next ==
    \E b \in Builders :
        \/ \E u \in URIs : ApplyURI(b, u)
        \/ \E s \in SetterCalls :
              \/ SetCompressors(b, s) \/ SetTopology(b, s) \/ SetPoolSize(b, s)
              \/ SetReplicaSet(b, s) \/ SetSecureConfig(b, s)
              \/ SetCompressionLevel(b, s) \/ SetSRVMaxHosts(b, s)
              \/ SetAuth(b, s)
        \/ \E b2 \in Builders : Merge(b, b2)

Spec == Init /\ [][Next]_vars

-----------------------------------------------------------------------------
(* A bad connection string is never forgotten: once a builder was given *)
(* a URI that does not parse, has an invalid read preference or TLS    *)
(* files that do not load, Validate of that builder, and of any merge  *)
(* of it, reports an error, whatever setters, further ApplyURI calls    *)
(* and merges followed.  It needs setURIOpts to return each of these   *)
(* errors, ApplyURI to keep c.err, and MergeClientOptions to copy it.   *)
URIErrorSticky ==
    /\ \A b \in Builders : uriFailed[b] => Validate(opts[b]) # "none"
    /\ (merged # Nil /\ mergedFailed) => Validate(merged) # "none"

(* ApplyURI documents that it overwrites the options the connection      *)
(* string contains: a URI that sets no compression level leaves a       *)
(* level the application had already set (SetZlibLevel, SetZstdLevel)  *)
(* alone.                                                                 *)
ApplyURIKeepsUnsetLevels ==
    [][\A b \in Builders, u \in URIs :
         (ApplyURI(b, u) /\ u.zlibLevel = Nil /\ u.zstdLevel = Nil) =>
            /\ opts[b].zlibLevel # Nil => opts'[b].zlibLevel = opts[b].zlibLevel
            /\ opts[b].zstdLevel # Nil => opts'[b].zstdLevel = opts[b].zstdLevel]_vars

(* setURIOpts takes the x509 username from the client certificate only  *)
(* "if a username wasn't specified": an ApplyURI whose URI brings no     *)
(* credential of its own keeps the username of the credential the       *)
(* builder already has (from SetAuth, an earlier URI or a fill), whatever *)
(* certificate it loads.                                                  *)
ApplyURIKeepsUsername ==
    [][\A b \in Builders, u \in URIs :
         (/\ ApplyURI(b, u) /\ u.auth = Nil
          /\ opts[b].auth # Nil /\ opts[b].auth.username # "") =>
            opts'[b].auth.username = opts[b].auth.username]_vars

(* ApplyURI with tlsCertificateFile and tlsPrivateKeyFile takes the     *)
(* private key from the private key file: the TLS options of such a URI  *)
(* load exactly when addClientCertFromSeparateFiles, given the private   *)
(* key file as its keyFile and the certificate file as its certFile,     *)
(* loads them.                                                            *)
SeparateFilesUseNamedKey ==
    [][\A b \in Builders, u \in URIs :
         (/\ ApplyURI(b, u) /\ opts[b].err = "none"
          /\ u.parsed /\ u.readPrefValid /\ u.ssl
          /\ u.caFile = Nil /\ u.certKeyFile = Nil
          /\ u.certFile # Nil /\ u.keyFile # Nil) =>
            (opts'[b].err = "none" <=>
               AddClientCertFromSeparateFiles(u.keyFile, u.certFile,
                                              u.password).err = "none")]_vars

=============================================================================
