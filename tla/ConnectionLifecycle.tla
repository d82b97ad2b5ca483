------------------------- MODULE ConnectionLifecycle -------------------------
(***************************************************************************)
(* The establishment and teardown of one topology.connection              *)
(* (x/mongo/driver/topology/connection.go): newConnection, connect (dial, *)
(* TLS, TLCP, the two handshake phases, compressor selection, and its     *)
(* deferred error handler), close, and the connect-context listener       *)
(* goroutine, racing with close() called from other goroutines and with   *)
(* the caller cancelling its context.                                     *)
(*                                                                         *)
(* Each action is one stretch of code between two suspension points (a   *)
(* blocking network call or a goroutine hand-off).  The network is        *)
(* abstracted to "this call succeeds or fails"; a call made with a        *)
(* cancelled context always fails.                                        *)
(***************************************************************************)
EXTENDS Naturals, Sequences, SequencesExt, Compression

CONSTANTS
    Closers,        \* goroutines that may call close() on the connection
    Configs,        \* the connectionConfig values the connection may be given
    Services,       \* service ids a load balancer may report in hello
    NoService,      \* desc.ServiceID == nil
    NoGeneration,   \* the generation field before setGenerationNumber ran
    ServerCompressionLists  \* desc.Compression lists a server may advertise

ASSUME /\ NoService \notin Services
       /\ NoGeneration \notin Services \cup {NoService}

VARIABLES
    config,         \* c.config, fixed at newConnection
    state,          \* c.state: "Initialized", "Connected" or "Disconnected"
    nc,             \* c.nc as the stack of layers on the socket, <<>> = nil
    socket,         \* the physical socket: "unopened", "open" or "closed"
    desc,           \* c.desc: the service id and compressors from hello
    generation,     \* the key c.generation was fetched for
    compression,    \* c.compressor, c.zliblevel, c.zstdLevel
    connectPc,      \* where the connect goroutine is
    connectResult,  \* what connect returned: "none", "ok" or "err"
    callerCancelled,\* the ctx passed to connect is done
    cancelled,      \* the cancel func of connect's derived ctx was called
    listener,       \* c.connectListener's goroutine
    closerPc        \* where each close() call is

vars == <<config, state, nc, socket, desc, generation, compression,
          connectPc, connectResult, callerCancelled, cancelled, listener,
          closerPc>>

-----------------------------------------------------------------------------
ConfigType == [loadBalanced : BOOLEAN, tls : BOOLEAN, tlcp : BOOLEAN,
               handshaker : BOOLEAN, compressors : Seq(STRING),
               zlibLevel : Int, zstdLevel : Int]

Layers == {"tcp", "tls", "tlcp"}

TypeOK ==
    /\ config \in Configs
    /\ state \in {"Initialized", "Connected", "Disconnected"}
    /\ nc \in Seq(Layers)
    /\ socket \in {"unopened", "open", "closed"}
    /\ desc \in [service : Services \cup {NoService},
                 compression : ServerCompressionLists]
    /\ generation \in Services \cup {NoService, NoGeneration}
    /\ compression \in [compressor : CompressorIds, zlibLevel : Int,
                        zstdLevel : Int]
    /\ connectPc \in {"idle", "dial", "tls", "tlcp", "hello", "finish",
                      "return", "done"}
    /\ connectResult \in {"none", "ok", "err"}
    /\ callerCancelled \in BOOLEAN
    /\ cancelled \in BOOLEAN
    /\ listener \in {"idle", "running", "stopRequested", "done"}
    /\ closerPc \in [Closers -> {"idle", "stop", "done"}]

-----------------------------------------------------------------------------
(* The derived ctx of connect is done once its parent is done or its      *)
(* cancel func has run.                                                   *)
ConnCtxDone == callerCancelled \/ cancelled

(* The blocking steps connect takes, in order, for this configuration.    *)
Phases ==
    <<"dial">> \o (IF config.tls THEN <<"tls">> ELSE <<>>)
               \o (IF config.tlcp THEN <<"tlcp">> ELSE <<>>)
               \o (IF config.handshaker THEN <<"hello", "finish">> ELSE <<>>)

(* The step after p; "return" after the last one (including the early    *)
(* return when no handshaker is configured).                              *)
Following(p) ==
    LET i == SelectInSeq(Phases, LAMBDA q : q = p)
    IN  IF i = Len(Phases) THEN "return" ELSE Phases[i + 1]

(* setGenerationNumber: the generation is fetched for c.desc.ServiceID.   *)
SetGenerationNumber(service) == generation' = service

(* connectListener.StopListening on the non-blocking listener.           *)
StopListening ==
    listener' = IF listener = "running" THEN "stopRequested" ELSE listener

-----------------------------------------------------------------------------
(* newConnection: the generation is set eagerly unless load balanced.     *)
Init ==
    /\ config \in Configs
    /\ state = "Initialized"
    /\ nc = <<>>
    /\ socket = "unopened"
    /\ desc = [service |-> NoService, compression |-> <<>>]
    /\ generation = IF config.loadBalanced THEN NoGeneration ELSE NoService
    /\ compression = NoCompression
    /\ connectPc = "idle"
    /\ connectResult = "none"
    /\ callerCancelled = FALSE
    /\ cancelled = FALSE
    /\ listener = "idle"
    /\ closerPc = [k \in Closers |-> "idle"]

(* connect: the state CAS Initialized -> Connected, then the listener     *)
(* goroutine is started on the derived ctx.                               *)
ConnectStart ==
    /\ connectPc = "idle"
    /\ state = "Initialized"
    /\ state' = "Connected"
    /\ listener' = "running"
    /\ connectPc' = "dial"
    /\ UNCHANGED <<config, nc, socket, desc, generation, compression,
                   connectResult, callerCancelled, cancelled, closerPc>>

(* Mutant of ConnectFail: the error handler forgets to close c.nc.       *)
ConnectFailKeepSocket ==
    /\ state' = "Disconnected"
    /\ socket' = socket
    /\ connectResult' = "err"
    /\ connectPc' = "done"
    /\ cancelled' = TRUE
    /\ StopListening

(* The deferred functions of connect when it returns an error: cancel(), *)
(* the error handler (state := Disconnected, close c.nc when non-nil),   *)
(* close(connectDone), closeConnectContext.                              *)
ConnectFail ==
    /\ state' = "Disconnected"
    /\ socket' = IF nc # <<>> THEN "closed" ELSE socket
    /\ connectResult' = "err"
    /\ connectPc' = "done"
    /\ cancelled' = TRUE
    /\ StopListening

(* DialContext; c.nc is only assigned on success.                        *)
Dial ==
    /\ connectPc = "dial"
    /\ \/ /\ ConnectFail
          /\ UNCHANGED nc
       \/ /\ ~ConnCtxDone
          /\ nc' = <<"tcp">>
          /\ socket' = "open"
          /\ connectPc' = Following("dial")
          /\ UNCHANGED <<state, connectResult, cancelled, listener>>
    /\ UNCHANGED <<config, desc, generation, compression, callerCancelled,
                   closerPc>>

(* configureTLS / configureTLCP: handshake (and OCSP for TLS) on the      *)
(* current c.nc; c.nc is replaced by the secured conn only on success.   *)
ConfigureSecure(layer) ==
    /\ connectPc = layer
    /\ \/ /\ ConnectFail
          /\ UNCHANGED nc
       \/ /\ ~ConnCtxDone
          /\ nc' = Append(nc, layer)
          /\ connectPc' = Following(layer)
          /\ UNCHANGED <<state, socket, connectResult, cancelled, listener>>
    /\ UNCHANGED <<config, desc, generation, compression, callerCancelled,
                   closerPc>>

ConfigureTLS == ConfigureSecure("tls")

ConfigureTLCP == ConfigureSecure("tlcp")

(* Mutant of Hello: the load-balanced service id check is missing.       *)
HelloNoServiceCheck ==
    /\ connectPc = "hello"
    /\ \/ /\ ConnectFail
          /\ UNCHANGED <<desc, generation>>
       \/ /\ ~ConnCtxDone
          /\ state = "Connected"
          /\ \E s \in Services \cup {NoService}, comp \in ServerCompressionLists :
                /\ desc' = [service |-> s, compression |-> comp]
                /\ IF config.loadBalanced
                   THEN SetGenerationNumber(s)
                   ELSE UNCHANGED generation
                /\ connectPc' = "finish"
                /\ UNCHANGED <<state, socket, connectResult, cancelled, listener>>
    /\ UNCHANGED <<config, nc, compression, callerCancelled, closerPc>>

(* GetHandshakeInformation: hello goes through writeWireMessage and       *)
(* readWireMessage, which fail once the state is not Connected.  On       *)
(* success c.desc is stored, a load-balanced connection without a        *)
(* service id fails, and a load-balanced one fetches its generation.     *)
Hello ==
    /\ connectPc = "hello"
    /\ \/ /\ ConnectFail
          /\ UNCHANGED <<desc, generation>>
       \/ /\ ~ConnCtxDone
          /\ state = "Connected"
          /\ \E s \in Services \cup {NoService}, comp \in ServerCompressionLists :
                /\ desc' = [service |-> s, compression |-> comp]
                /\ IF config.loadBalanced /\ s = NoService
                   THEN /\ ConnectFail
                        /\ UNCHANGED generation
                   ELSE /\ IF config.loadBalanced
                           THEN SetGenerationNumber(s)
                           ELSE UNCHANGED generation
                        /\ connectPc' = "finish"
                        /\ UNCHANGED <<state, socket, connectResult,
                                       cancelled, listener>>
    /\ UNCHANGED <<config, nc, compression, callerCancelled, closerPc>>

(* FinishHandshake, then the compressor negotiation.                      *)
FinishHandshake ==
    /\ connectPc = "finish"
    /\ \/ /\ ConnectFail
          /\ UNCHANGED compression
       \/ /\ ~ConnCtxDone
          /\ state = "Connected"
          /\ compression' = SelectCompressor(config.compressors,
                                desc.compression, config.zlibLevel,
                                config.zstdLevel)
          /\ connectPc' = "return"
          /\ UNCHANGED <<state, socket, connectResult, cancelled, listener>>
    /\ UNCHANGED <<config, nc, desc, generation, callerCancelled, closerPc>>

(* Mutant of ConnectReturn: the deferred cancel and closeConnectContext  *)
(* are missing.                                                           *)
ConnectReturnNoDefer ==
    /\ connectPc = "return"
    /\ connectResult' = "ok"
    /\ connectPc' = "done"
    /\ UNCHANGED <<config, state, nc, socket, desc, generation, compression,
                   callerCancelled, cancelled, listener, closerPc>>

(* connect returns nil: cancel() and closeConnectContext run.            *)
ConnectReturn ==
    /\ connectPc = "return"
    /\ connectResult' = "ok"
    /\ connectPc' = "done"
    /\ cancelled' = TRUE
    /\ StopListening
    /\ UNCHANGED <<config, state, nc, socket, desc, generation, compression,
                   callerCancelled, closerPc>>

(* The caller cancels the ctx it passed to connect.                      *)
CallerCancel ==
    /\ ~callerCancelled
    /\ connectPc # "done"
    /\ callerCancelled' = TRUE
    /\ UNCHANGED <<config, state, nc, socket, desc, generation, compression,
                   connectPc, connectResult, cancelled, listener, closerPc>>

(* The listener goroutine: Listen returns when the ctx is done or        *)
(* StopListening was called, and the deferred cancel() runs.             *)
ListenerReturn ==
    /\ \/ listener = "stopRequested"
       \/ listener = "running" /\ ConnCtxDone
    /\ listener' = "done"
    /\ cancelled' = TRUE
    /\ UNCHANGED <<config, state, nc, socket, desc, generation, compression,
                   connectPc, connectResult, callerCancelled, closerPc>>

(* close: the CAS Connected -> Disconnected; only its winner closes      *)
(* c.nc, read without synchronisation with connect's assignment.  The    *)
(* owners of a connection call close only once connect has begun.       *)
(* Mutant of CloseStateCAS: the state is loaded, not swapped, so close() *)
(* closes c.nc but leaves the connection Connected.                      *)
CloseStateLoad(k) ==
    /\ closerPc[k] = "idle"
    /\ state # "Initialized"
    /\ socket' = IF state = "Connected" /\ nc # <<>> THEN "closed" ELSE socket
    /\ closerPc' = [closerPc EXCEPT ![k] = "stop"]
    /\ UNCHANGED <<config, state, nc, desc, generation, compression, connectPc,
                   connectResult, callerCancelled, cancelled, listener>>

CloseStateCAS(k) ==
    /\ closerPc[k] = "idle"
    /\ state # "Initialized"
    /\ IF state = "Connected"
       THEN /\ state' = "Disconnected"
            /\ socket' = IF nc # <<>> THEN "closed" ELSE socket
       ELSE UNCHANGED <<state, socket>>
    /\ closerPc' = [closerPc EXCEPT ![k] = "stop"]
    /\ UNCHANGED <<config, nc, desc, generation, compression, connectPc,
                   connectResult, callerCancelled, cancelled, listener>>

(* The deferred closeConnectContext of close.                            *)
CloseConnectContext(k) ==
    /\ closerPc[k] = "stop"
    /\ StopListening
    /\ closerPc' = [closerPc EXCEPT ![k] = "done"]
    /\ UNCHANGED <<config, state, nc, socket, desc, generation, compression,
                   connectPc, connectResult, callerCancelled, cancelled>>

Next ==
    \/ ConnectStart \/ Dial \/ ConfigureTLS \/ ConfigureTLCP
    \/ Hello \/ FinishHandshake \/ ConnectReturn
    \/ CallerCancel \/ ListenerReturn
    \/ \E k \in Closers : CloseStateCAS(k) \/ CloseConnectContext(k)

(* Goroutines are scheduled fairly, and every blocking call in connect    *)
(* returns (connectTimeoutMS bounds dialing and the handshakes).  Nothing *)
(* obliges anyone to call close(), or the caller to cancel.              *)
Fairness ==
    /\ WF_vars(ConnectStart) /\ WF_vars(Dial) /\ WF_vars(ConfigureTLS)
    /\ WF_vars(ConfigureTLCP) /\ WF_vars(Hello) /\ WF_vars(FinishHandshake)
    /\ WF_vars(ConnectReturn) /\ WF_vars(ListenerReturn)
    /\ \A k \in Closers : WF_vars(CloseConnectContext(k))

Spec == Init /\ [][Next]_vars /\ Fairness

-----------------------------------------------------------------------------
(* Every goroutine touching the connection has finished.                 *)
Quiescent ==
    /\ connectPc = "done"
    /\ \A k \in Closers : closerPc[k] \in {"idle", "done"}

(* No socket is leaked or lost: once connect and every close() call have *)
(* returned, the socket is open exactly when the state is Connected.  A  *)
(* close() that wins the state CAS before connect has assigned c.nc      *)
(* closes nothing, so connect's later steps must find the state changed  *)
(* or the ctx cancelled and close the socket on their error path.        *)
SocketMatchesState ==
    Quiescent => (socket = "open" <=> state = "Connected")

(* A connect that reports success to its caller has the generation the   *)
(* pool will judge staleness by: under load balancing the one fetched for *)
(* the service id the server reported (and it reported one); otherwise   *)
(* the one fetched eagerly by newConnection.                             *)
GenerationMatchesService ==
    (connectResult = "ok" /\ config.handshaker) =>
        IF config.loadBalanced
        THEN /\ desc.service # NoService
             /\ generation = desc.service
        ELSE generation = NoService

(* connect always returns, and the connect-context listener goroutine it *)
(* started always exits.                                                  *)
ListenerExits ==
    <>[](connectPc = "done" /\ listener = "done")

-----------------------------------------------------------------------------
(* connect and close implement the connection's promise to the pool      *)
(* (ConnectionState): the state only moves forward, the socket is opened *)
(* only by a running connect and never closed under a Connected state,   *)
(* a connect that returns an error has set Disconnected and closed the   *)
(* socket it dialled, and a socket dialled after a racing close() won    *)
(* the state CAS is eventually closed by connect's error path.           *)
Abstract == INSTANCE ConnectionState WITH result <- connectResult

ImplementsConnectionState == Abstract!Spec

=============================================================================
