---------------------------- MODULE MCConnectionIO ----------------------------
(***************************************************************************)
(* Model-checking instance of ConnectionIO.                               *)
(***************************************************************************)
EXTENDS ConnectionIO

\* Length prefixes a server reply may carry: malformed (2, and -1 for a
\* prefix with the top bit set), header only (4), a body (7) and one over
\* the negotiated maximum (9).
MCSizes == {-1, 2, 4, 7, 9}

=============================================================================
