---------------------------- MODULE MCCompression ----------------------------
(***************************************************************************)
(* Checks the negotiation of Compression over every bounded input:       *)
(* client and server compressor lists and level options, held in        *)
(* variables that each step may replace by any other input.              *)
(***************************************************************************)
EXTENDS Compression, FiniteSets

\* Names a compressors option or a server's hello may carry: the three
\* known ones, an upper-case spelling and a name the driver has no codec for.
Names == {"zstd", "zlib", "snappy", "ZLIB", "lz4"}

\* Lists without repeated names, of at most n names.
Lists(n) == UNION {{s \in [1..k -> Names] : IsInjective(s)} : k \in 0..n}

\* Unset level options, and one set level.
Levels == {NoLevel, 1}

VARIABLES client, server, zlibCfg, zstdCfg
vars == <<client, server, zlibCfg, zstdCfg>>

Init ==
    /\ client \in Lists(3)
    /\ server \in Lists(2)
    /\ zlibCfg \in Levels
    /\ zstdCfg \in Levels

\* The application reconfigures the client, or a connection meets another
\* server.
Reconfigure ==
    /\ \E l \in Lists(3), z \in Levels, t \in Levels :
          client' = l /\ zlibCfg' = z /\ zstdCfg' = t
    /\ UNCHANGED server

MeetServer ==
    /\ server' \in Lists(2)
    /\ UNCHANGED <<client, zlibCfg, zstdCfg>>

Next == Reconfigure \/ MeetServer

Spec == Init /\ [][Next]_vars

\* The connection's compression fields after connect's negotiation.
Negotiated == SelectCompressor(client, server, zlibCfg, zstdCfg)

-----------------------------------------------------------------------------
(* Spec (negotiation contract): the selected compressor is the codec of  *)
(* the first name in the client's preference order that the server also *)
(* advertised, with the configured level or the default, and nothing    *)
(* when no name is common; clientMethodLoop's labelled break is what    *)
(* stops the walk at that name.                                          *)
FirstCommonReference ==
    LET common == {i \in DOMAIN client : Contains(server, client[i])}
        first == CHOOSE i \in common : \A j \in common : i <= j
    IN IF common = {} THEN NoCompression
       ELSE Install(client[first], zlibCfg, zstdCfg)

NegotiatesFirstCommon == Negotiated = FirstCommonReference
=============================================================================
