------------------------ MODULE MCConnectionLifecycle ------------------------
(***************************************************************************)
(* Model-checking instances of ConnectionLifecycle.                       *)
(***************************************************************************)
EXTENDS ConnectionLifecycle

\* Client compressor preferences as a connectionConfig carries them; the
\* compressors option is not validated, so it may name a codec the driver
\* does not have ("lz4").
MCCompressors == <<"zstd", "lz4", "zlib">>

\* Servers advertising nothing, a common known codec, and the unknown one
\* ahead of a known one.
MCServerCompressionLists == {<<>>, <<"zlib", "snappy">>, <<"lz4", "zlib">>}

ConfigWith(lb, tls, tlcp, hs) ==
    [loadBalanced |-> lb, tls |-> tls, tlcp |-> tlcp, handshaker |-> hs,
     compressors |-> MCCompressors, zlibLevel |-> NoLevel,
     zstdLevel |-> NoLevel]

\* A handshaker is configured (the pool always sets one) and at most one
\* of the TLS and TLCP configurations is given.
HandshakeConfigs ==
    {ConfigWith(lb, tls, tlcp, TRUE) :
        lb \in BOOLEAN, tls \in BOOLEAN, tlcp \in BOOLEAN} \
    {ConfigWith(lb, TRUE, TRUE, TRUE) : lb \in BOOLEAN}

\* No handshaker: the early "return nil" after dialing.
NoHandshakerConfigs == {ConfigWith(FALSE, FALSE, FALSE, FALSE)}

=============================================================================
