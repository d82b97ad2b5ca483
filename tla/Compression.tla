---------------------------- MODULE Compression ----------------------------
(***************************************************************************)
(* Compressor negotiation performed at the end of connection.connect      *)
(* (x/mongo/driver/topology/connection.go): the client's configured       *)
(* compressor list is walked in preference order and the first name the   *)
(* server also advertised is selected, together with its level.  Pure     *)
(* operators only; MCCompression checks them over all bounded inputs.     *)
(* Also Connection.CompressWireMessage, which rewraps a wire message in   *)
(* an OP_COMPRESSED envelope with the negotiated compressor.              *)
(***************************************************************************)
EXTENDS Naturals, Sequences, SequencesExt

\* wiremessage compressor ids; "noop" is the zero value CompressorNoOp.
CompressorIds == {"noop", "snappy", "zlib", "zstd"}

\* Stand-in for an unset *int level option (config.zlibLevel == nil).
NoLevel == -100

\* wiremessage.DefaultZlibLevel and wiremessage.DefaultZstdLevel.
DefaultZlibLevel == 6
DefaultZstdLevel == 6

\* Connection fields left untouched: compressor NoOp, levels zero.
NoCompression == [compressor |-> "noop", zlibLevel |-> 0, zstdLevel |-> 0]

\* strings.ToLower on the upper-case spellings of the names models use.
ToLower(method) ==
    LET upper == "ZLIB" :> "zlib" @@ "ZSTD" :> "zstd" @@ "SNAPPY" :> "snappy"
    IN IF method \in DOMAIN upper THEN upper[method] ELSE method

\* Mutant of Install: the lower-cased name is taken as the compressor id,
\* whether or not the driver has a codec of that name.
InstallNameAsId(method, zlibCfg, zstdCfg) ==
    [compressor |-> ToLower(method),
     zlibLevel |-> IF ToLower(method) # "zlib" THEN 0
                   ELSE IF zlibCfg = NoLevel THEN DefaultZlibLevel ELSE zlibCfg,
     zstdLevel |-> IF ToLower(method) # "zstd" THEN 0
                   ELSE IF zstdCfg = NoLevel THEN DefaultZstdLevel ELSE zstdCfg]

\* The switch on strings.ToLower(method): the id and level a matched name
\* installs.  A matched name outside the switch installs nothing.
Install(method, zlibCfg, zstdCfg) ==
    CASE ToLower(method) = "snappy" -> [NoCompression EXCEPT !.compressor = "snappy"]
      [] ToLower(method) = "zlib" ->
            [NoCompression EXCEPT !.compressor = "zlib",
               !.zlibLevel = IF zlibCfg = NoLevel THEN DefaultZlibLevel ELSE zlibCfg]
      [] ToLower(method) = "zstd" ->
            [NoCompression EXCEPT !.compressor = "zstd",
               !.zstdLevel = IF zstdCfg = NoLevel THEN DefaultZstdLevel ELSE zstdCfg]
      [] OTHER -> NoCompression

\* Mutant of ClientMethodLoop: no "break clientMethodLoop", so every
\* common name installs in turn and the last one wins.
RECURSIVE ClientMethodLoopNoBreak(_, _, _, _)
ClientMethodLoopNoBreak(client, server, zlibCfg, zstdCfg) ==
    IF client = <<>> THEN NoCompression
    ELSE LET rest == ClientMethodLoopNoBreak(Tail(client), server, zlibCfg, zstdCfg)
         IN IF rest # NoCompression \/ ~Contains(server, Head(client)) THEN rest
            ELSE Install(Head(client), zlibCfg, zstdCfg)

\* clientMethodLoop: the outer loop over the client's list; the inner loop
\* over the server's list is the Contains test; "break clientMethodLoop"
\* ends the walk at the first common name.
RECURSIVE ClientMethodLoop(_, _, _, _)
ClientMethodLoop(client, server, zlibCfg, zstdCfg) ==
    IF client = <<>> THEN NoCompression
    ELSE IF Contains(server, Head(client))
         THEN Install(Head(client), zlibCfg, zstdCfg)
         ELSE ClientMethodLoop(Tail(client), server, zlibCfg, zstdCfg)

\* The whole negotiation: skipped when the server advertised nothing.
SelectCompressor(client, server, zlibCfg, zstdCfg) ==
    IF Len(server) = 0 THEN NoCompression
    ELSE ClientMethodLoop(client, server, zlibCfg, zstdCfg)

-----------------------------------------------------------------------------
(* Wire messages.  A message is the sequence of its header's four int32  *)
(* fields (messageLength, requestID, responseTo, opCode) followed by the  *)
(* body's bytes; a sequence shorter than four fields is a message of     *)
(* fewer than 16 bytes.  The compression codec itself is out of scope:   *)
(* its output is a record naming the codec, level and input bytes.       *)
OpCompressed == "OP_COMPRESSED"

\* Bytes a message occupies: 4 per header field, 1 per body byte.
MsgBytes(msg) == IF Len(msg) <= 4 THEN 4 * Len(msg) ELSE 16 + (Len(msg) - 4)

\* wiremessage.ReadHeader: fails on fewer than 16 bytes, else the fields
\* and the remaining bytes.
ReadHeaderOk(src) == Len(src) >= 4
Rem(src) == SubSeq(src, 5, Len(src))

\* driver.CompressPayload, abstracted; it produces as many bytes as it got.
CompressPayload(rem, conn) ==
    [codec |-> conn.compressor,
     level |-> CASE conn.compressor = "zlib" -> conn.zlibLevel
                 [] conn.compressor = "zstd" -> conn.zstdLevel
                 [] OTHER -> 0,
     data |-> rem]

\* An OP_COMPRESSED envelope: a 16-byte header, the original opcode and
\* uncompressed size (int32), the compressor id (1 byte), the payload.
EnvelopeBytes(env) == 16 + 4 + 4 + 1 + Len(env.payload.data)

\* bsoncore.UpdateLength(dst, idx, int32(len(dst[idx:]))): the bytes
\* appended since idx, the start of the envelope.
EnvelopeLength(dst, env) == EnvelopeBytes(env)

\* CompressWireMessage on a live handle, appending to dst (dst is the
\* number of bytes dst already holds): a copy when no compressor was
\* negotiated, an error below 16 bytes, else the envelope whose length
\* field UpdateLength patches to the bytes written from idx on.
CompressWireMessage(conn, src, dst) ==
    IF conn.compressor = "noop" THEN [err |-> "none", dst |-> dst, out |-> src]
    ELSE IF ~ReadHeaderOk(src) THEN [err |-> "tooShort", dst |-> dst, out |-> <<>>]
    ELSE LET env == [length |-> 0, requestID |-> src[2], responseTo |-> src[3],
                     opCode |-> OpCompressed, originalOpCode |-> src[4],
                     uncompressedSize |-> Len(Rem(src)),
                     compressorID |-> conn.compressor,
                     payload |-> CompressPayload(Rem(src), conn)]
         IN [err |-> "none", dst |-> dst,
             out |-> [env EXCEPT !.length = EnvelopeLength(dst, env)]]

=============================================================================
