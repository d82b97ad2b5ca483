# TLA+ models of the connection layer

These modules model `src/x/mongo/driver/topology/connection.go`, the
driver's network transport. It establishes a connection (dial, TLS or TLCP,
hello, authentication, compressor negotiation), frames wire messages over it,
and wraps it in the `Connection` handle that the pool hands to operations.
They also model the part of `src/mongo/options/clientoptions.go` that builds
the options connections are configured from, certificate loading included.
Each module below says which functions it translates. `PROJECT.json` maps every
definition to its source lines.

## The system and how its parts interact

| Part | Source | Concurrency |
|---|---|---|
| `connection.connect` | connection.go 206-359 | Runs once (state CAS Initialized→Connected). A listener goroutine cancels the dial context when the caller's context is done. `close()` may be called concurrently by the pool or by the cancellation listener of an operation. |
| `connection.close` | 553-571 | CAS Connected→Disconnected; only the winner closes `c.nc`, which it reads without synchronisation with connect's assignment. |
| `writeWireMessage` / `readWireMessage` / `read` | 402-551 | Each I/O starts a cancellation listener goroutine that closes the connection if the context is cancelled during the I/O. A CSOT timeout may mark the connection with the bytes still owed (`awaitRemainingBytes`), instead of closing it, so the pool can drain the reply before reuse. |
| compressor negotiation, `CompressWireMessage` | 330-357, 718-749 | Pure. |
| `Connection` handle | 676-900 | Any goroutine holding a handle calls Close, Expire, pin/unpin, Stale, Write/Read, before or after the handle was released. The pool's check-in and pinned statistics are driven from here. |
| `ClientOptions` | clientoptions.go | Sequential builder. Setters, `ApplyURI` (which records a sticky error), `MergeClientOptions` and `Validate` produce the options from which connection configurations are built. |
| certificate loading | clientoptions.go 1137-1299 | Pure, called from `setURIOpts`' ssl block (452-490): the CA file, the client certificate and key (one file or two), the x509 username from the certificate subject. |
| pool | not in `src/` | `checkOut`, `checkIn`, `stale`, pinned counters, generation clear, and the drain of marked connections, modelled from the spec only where the handle and I/O need them. |

## Modules

- **`ConnectionLifecycle`**: one connection's `connect` as a program counter `connectPc`.
  - Steps: `ConnectStart` (the CAS and listener start), `Dial`, `ConfigureTLS`, `ConfigureTLCP`, `Hello`, `FinishHandshake` (which includes the compressor negotiation), `ConnectReturn`.
  - `ConnectFail` is the deferred error handler, shared by every failing step.
  - Other actors: `ListenerReturn` is the connect listener goroutine, `CallerCancel` is the caller's context, and each closer `k` runs `CloseStateCAS(k)` then its deferred `CloseConnectContext(k)`.
  - `nc` is the stack of layers on the socket, so TLS over TCP is `<<"tcp","tls">>`. `socket` is the physical socket.
  - Configurations cover load balanced or not, TLS and TLCP, and with or without a handshaker. They come from the `Configs` constant.
  - `Abstract == INSTANCE ConnectionState WITH result <- connectResult` and `ImplementsConnectionState == Abstract!Spec` state the refinement.
- **`ConnectionState`**: what a connection promises the pool. `Establish` (the CAS), `Open` (dialling while connect runs), `Disconnect` (close), `Fail` (connect's error path: Disconnected, socket closed, error reported), `Succeed`, and `Reap`, with weak fairness on `Reap` so that a socket left open on a disconnected connection is eventually closed. The lifecycle's other variables (layers, description, listener, closers) are hidden.
- **`ConnectionIO`**: requests on one established connection.
  - `WriteStart`, `WriteIO`, `WriteReturn`, `ReadStart`, `ReadHeader` and `ReadBody` model partial reads, timeouts and network errors. `ReadReturn` closes the connection or keeps the marker.
  - `CancelCtx` is the caller, `ListenerAbort` is the cancellation listener's callback, and `AwaitPendingResponse` is the pool's drain (from the spec).
  - `respSize` is the int32 reading of the next reply's length prefix, taken from `Sizes`, which includes negative, too-small and too-large values. `consumed` counts the bytes read from the stream.
- **`ConnectionHandle`**: handles over pooled connections.
  - `CheckOut` (pool) and `Close`, `Expire`, `CleanupReferences`.
  - `PinCall(h,r)` is `PinToCursor`/`PinToTransaction` evaluating its arguments. `Pin(h,r)` is `pin` under the lock, and the two are separate steps as in the code.
  - Also `Unpin`, `StaleCall`, `DriverConnectionIDCall`, `WriteRead`, and `ClearPool` (a generation bump).
  - `ServerConnectionID` reads `c.connection` twice without the lock, so it is two steps: `ServerConnectionIDCheck` (the nil check) and `ServerConnectionIDRead` (the field read). `reading` holds the handles between the two.
  - `pinned` is the pool's pinned-connection counters; `panicked` is the set of methods that dereferenced a nil connection.
  - At the end of the module, `Lease == INSTANCE PooledConnection WITH ...` maps the handle model onto the abstract lease protocol: `location` new/idle/out/removed becomes new/idle/leased/gone, the holder is the live handle whose `conn` is the connection, `open` is `connState = "Connected"`, and `used` is the set of handles ever created. `ImplementsPooledConnection == Lease!Spec` is checked as a PROPERTY.
- **`PooledConnection`**: the abstract promise of the pool and handle together. A connection is new, idle, leased to one holder, or gone. `Lease` takes an open new or idle connection for a holder that never held one. `Break` closes a leased connection (Expire, an I/O error). `GiveBack` returns it, either to the idle set if it is still open or as gone and closed. A holder leases at most once, because a `Connection` handle wraps exactly one check-out.
- **`Compression`**: pure operators.
  - `ClientMethodLoop` is a RECURSIVE translation of the labelled loop; `SelectCompressor` and `Install` complete the negotiation.
  - `CompressWireMessage` translates the control of the envelope code (no-op copy, too-short error, envelope, length patch), with the codec abstracted to a record. No property checks it: with the codec abstracted, a round trip would hold by construction.
- **`ClientOptions`**: the builder on the options that configure connections and the topology.
  - Options modelled: compressors and levels, direct, heartbeat, hosts, load balanced, pool sizes, replica set, srvMaxHosts, TLS and TLCP, and the credential `Auth`, plus the unexported `err` and `connString`.
  - A credential is a record: mechanism, username, whether a password and each OIDC callback is set, and the mechanism properties present. A URI with auth parameters brings a new credential without callbacks. The ssl block's `X509Fill` writes the username derived from the client certificate (`X509Username`) into a MONGODB-X509 credential that has none.
  - `SetURIOpts` applies a parsed connection string (a record of the options it sets) in the code's order, in four stretches: `URIConnectOpts` (scheme, direct, compressors and their default levels), `URIPoolOpts`, then, after the read preference check, `URISecurityOpts` (replica set, srvMaxHosts, TLS once the certificate files load) and `URILevelOpts`. Two early returns leave the options before them applied: a bad readPreference and certificate files that fail to load.
  - `ApplyURI`, one action per group of setters (`SetCompressors`, `SetTopology`, `SetPoolSize`, `SetReplicaSet`, `SetSecureConfig`, `SetCompressionLevel`, `SetSRVMaxHosts`, `SetAuth`; each stores its argument), `Merge` and `Validate` (the checks up to srvMaxHosts, then the MONGODB-OIDC checks `ValidateOIDC` with the ENVIRONMENT switch `ValidateOIDCEnvironment`; first error wins).
  - `URITLSLoad` is the ssl block: the CA file, then `tlsCertificateKeyFile`, or else `tlsCertificateFile` and `tlsPrivateKeyFile`, loaded with the `ClientCertificate` operators. The two separate files are passed in the code's argument order: the certificate file goes where `addClientCertFromSeparateFiles` takes the key file.
  - `uriFailed` and `mergedFailed` are history variables. `uriFailed` is set from the URI's own content (`URIRejected`: it does not parse, its read preference is invalid, or its TLS files do not load), not from the `err` that `setURIOpts` returns.
- **`ClientCertificate`**: pure operators for certificate loading.
  - A file is a record of whether it reads and the sequence of what `pem.Decode` meets in it: CERTIFICATE blocks, plain private keys, keys encrypted with a DEK-Info header or as PKCS #8, other PEM types, and text. A block carries the id of its key pair, and a key matches a certificate when the ids agree.
  - `AddClientCertFromBytes` folds `CertBlockStep` (one iteration of the decode loop, with the slices `data[start:...]`, decryption, and `CertDecodedBlock` for the first certificate) over the blocks, then checks for certificates and keys and calls `X509KeyPair`.
  - `AddClientCertFromSeparateFiles`, `AddClientCertFromConcatenatedFile` and `AddCACertFromFile` read their files first.
  - `ExtractX509UsernameFromSubject` is `strings.Split`, the swap loop and `strings.Join` (`SplitOn`, `Reverse`, `JoinWith`) over strings as sequences of characters.
- **`MC*` modules**: bind the constants, for example the configurations to explore and the length prefixes the server may send. `MCCompression` and `MCClientCertificate` enumerate inputs as variables. `MCClientCertificate` also defines the references the operators are checked against, including Go's `pkix.Name.String` (RDNs last to first, a comma in a value escaped).

## Runs

| Run | Checks | Result |
|---|---|---|
| `lifecycle` | `TypeOK`; `SocketMatchesState` (once connect and closers are quiescent, the socket is open iff the state is Connected); `GenerationMatchesService` (a load-balanced connection that connected has the generation of its service id, others were numbered at creation); `ListenerExits` (liveness: connect finishes and its listener goroutine exits); `ImplementsConnectionState` (refinement, with liveness: state and socket move only forward, the socket is never closed under Connected, a failed connect has torn the connection down, and an open socket on a disconnected connection is eventually closed) | pass |
| `lifecycle_leak` | `SocketMatchesState` with no handshaker | **violated**: close wins the CAS while `c.nc` is nil, then connect dials and returns nil, so the open socket leaks (finding) |
| `io` | `TypeOK`; `StreamAligned` (an idle, unmarked, usable connection has consumed exactly the last reply); `SuccessImpliesUsable` (a call that returned success did not have the connection closed under it) | pass |
| `handle` | `TypeOK`; `ExclusiveUse` (a checked-out connection is reachable from exactly one handle, idle or removed ones from none); `IdleConnectionsOpen`; `ImplementsPooledConnection` (refinement: every step is a `PooledConnection` step or a stutter, so a connection is given back once, never leased while leased or closed, and no handle leases twice) | pass |
| `handle_pinstats` | `PinnedCountsBalanced` | **violated**: pin, unpin, pin counts the connection twice (finding: the spec says unpin at 1→0 releases the count) |
| `handle_racy` | `NoRacyNilDereference` (the one accessor that does check for nil, `ServerConnectionID`, never panics) | **violated**: a `Close` between its nil check and its read makes it dereference nil (finding) |
| `compression` | `NegotiatesFirstCommon` (against a reference: the codec and level of the first client name the server lists, nothing when none is common) | pass |
| `options` | `URIErrorSticky` (after any sequence of setters, `ApplyURI` and merges, a builder that was given a URI that does not parse, has a bad read preference or TLS files that do not load, and any merge of it, fails `Validate`; the history judges the URI by its content, so an error `setURIOpts` swallows is caught); `ApplyURIKeepsUsername` (action property: an `ApplyURI` whose URI brings no credential keeps a username the builder's credential already has, whatever certificate it loads) | pass |
| `options_levels` | `ApplyURIKeepsUnsetLevels` (action property: a URI without a compression level keeps a level the application set) | **violated**: `SetZlibLevel(9)` then `ApplyURI` with `compressors=zlib` resets the level to 6 (finding) |
| `options_certfiles` | `SeparateFilesUseNamedKey` (action property: a URI with `tlsCertificateFile` and `tlsPrivateKeyFile` loads exactly when the key from the private key file belongs to the certificate file's certificate) | **violated**: with a combined PEM as the certificate file and another pair's key as the key file, `ApplyURI` succeeds using the certificate file's key (finding) |
| `certs` | `ClientCertMatchesReference` (for every file of up to three blocks and every password, loaded as one file or split into key and certificate files at any point: the error and the subject are the reference's, which takes the first certificate and the first key, needs the right password for an encrypted key, and returns the first certificate's subject) | pass |
| `certs_x509` | `X509UsernameReversesRDNs` (the x509 username is the subject with its RDNs in the opposite order, each RDN kept whole) | **violated**: a value containing a comma, escaped by `pkix.Name.String`, is split in the middle (finding) |

Two known defects have no run. Both are reached by a single call or a single
configuration, which a unit test reaches directly:
- connect layers TLCP over TLS when both configurations are set (connection.go 252 and 270), and `Validate` does not reject that;
- `Stale`, `DriverConnectionID` and `PinTo*` dereference the nil connection of a released handle.

The models keep these steps (`ConfigureTLCP`, `panicked`). The checked handle
violation is the `ServerConnectionID` race, which needs the interleaving.

Each property of a passing run has a mutant in `PROJECT.json`: a plausible bug
in the code that makes TLC find the property violated.

## Bounds

- **Lifecycle:**
  - two closers (two `close()` calls can race each other and connect) and one service id;
  - server compression lists `<<>>` and `<<"zlib","snappy">>`;
  - all six handshake configurations that do not combine TLS and TLCP.
- **IO:**
  - prefixes `{-1, 2, 4, 7, 9}` against a maximum of 8, which gives a negative, a too-small, a minimal, an ordinary and an oversized prefix;
  - three requests, which is enough for a timeout, a drain and a following request.
- **Handle:** two connections, two handles, five calls and one pool clear. That is enough for a Close racing an Expire, a pin/unpin/pin sequence, a stale connection checked in, and a Close between the two reads of `ServerConnectionID`. The `handle` run checks a temporal property (the refinement), so it uses no symmetry.
- **Compression:**
  - client lists of at most 3 distinct names out of 5, including an upper-case spelling and an unknown codec;
  - server lists of at most 2;
  - set and unset levels.

- **Options:** two builders and four calls, enough for set, apply, apply and merge. The URIs are:
  - compressors zlib and zstd;
  - one that fails to parse;
  - one with a bad readPreference after a minPoolSize;
  - an SRV load-balanced one;
  - a two-host replica set;
  - a replica set with TLS whose CA file cannot be read;
  - TLS with a certificate file and an encrypted key file with its password;
  - the same with another key pair's files and a MONGODB-X509 credential without a username.

  The setters cover an empty compressor list, zlib level 9, load balanced, direct, maxPoolSize 1, TLCP, a replica set, srvMaxHosts 2, and three credentials: MONGODB-X509 with and without a username, and MONGODB-OIDC with a machine callback and ENVIRONMENT=k8s (which Validate rejects). Every setter group is called.

  `options_certfiles` applies one URI to one builder. The URI is either a certificate with its encrypted key, or a combined certificate-and-key PEM named as the certificate file next to a key of another pair.
- **Certificates:**
  - files of up to three blocks drawn from: certificates of two pairs, plain keys of both, a DEK-Info key of pair 1, a PKCS #8 key of pair 2, another PEM type, and text;
  - each file also split at every point into a key file and a certificate file;
  - passwords empty, right and wrong. That is enough for chains, keys before or after certificates, mismatches and every decryption outcome.
  - Subjects of one or two RDNs with values `a`, `,` and `a,`.

## Fairness

Weak fairness is assumed for each of connect's steps: goroutines are scheduled,
and every blocking call returns because connectTimeoutMS bounds dialing and
the handshakes. It is also assumed for the connect listener, which returns once
its context is done or StopListening is called, and for a closer's deferred
`closeConnectContext`. Nothing forces anyone to call `close()` or the caller to
cancel, so those actions have no fairness. `ConnectionState` asks for weak fairness only on closing an open socket of a disconnected connection; the lifecycle satisfies it through the weak fairness of connect's steps, which must reach the error path once the state is not Connected. The IO, handle and compression runs
check only safety.

Deadlock checking is off. The lifecycle ends when connect and the closers
finish. The IO and handle callers stop after their bounded number of calls, and
a client may stop issuing calls at any time.

## Plan for extending the models

1. *(done: `PooledConnection` and `ImplementsPooledConnection`.)*
2. *(done: `ConnectionState` and `ImplementsConnectionState`; it is violated under the leak configuration as well, through its liveness part.)*
3. **Compose `ConnectionIO` with `ConnectionHandle`.** An operation's I/O failure (WriteRead) would be expanded into `ConnectionIO`'s steps, and the pool's drain would run at check-out. The aim is to check that a marked connection is never handed to a second handle before it is drained.
4. **Idle timeouts.** Model `bumpIdleStart`/`idleTimeoutExpired` against the pool's check-out, with a bounded clock.

## Not modelled

- **Idle timing and flags:** idle timeouts, `setStreaming`, `setCanStream` and socket timeouts only set flags that no property reads.
- **Read-only accessors:** `ID`, `Address` and `Description` take the lock or read `c.connection` once and change no state. `Alive` reads it once without the lock; its race only returns a stale answer, and its definition `Live` is used by the other actions.
- **Client options:** the remaining options are passed through unchecked: auth source, monitors, concerns, timeouts other than heartbeat. Also left out are Validate's server API, monitoring mode and Timeout checks. The credential is copied by value, although `MergeClientOptions` copies the `Auth` pointer: a merge made before a later x509 username fill on its source builder would see the fill in the code but not in the model. Certificate loading abstracts key material to a pair id and does not reach the 64 MiB and size-overflow checks. The x509 username is checked as an operator in `certs_x509`. In `ClientOptions` it is abstracted to one name per key pair. Connection-string parsing (`connstring`) is not in this repository and is represented by its parsed result. `MergeClientOptions` with a single argument returns that argument (or `Client()` for nil); the model's `Merge` always merges two builders, so that branch is left out, and nil options are not modelled.
- **TLCP library, codecs, OCSP:** external.
- **Example programs and `go.mod`:** no state.
- **The pool beyond what the handle needs:** it is not in this repository's sources.
