--------------------------- MODULE ConnectionState ---------------------------
(***************************************************************************)
(* What one connection promises its pool about its state and its socket: *)
(* it is connected exactly once and torn down for good; the socket is    *)
(* opened only while connect is running, never reopened, and never       *)
(* closed under a connection still marked Connected; a connect that      *)
(* reports an error has torn the connection down; and a socket left open  *)
(* on a disconnected connection is eventually closed.                     *)
(***************************************************************************)
VARIABLES
    state,      \* "Initialized", "Connected" or "Disconnected"
    socket,     \* "unopened", "open" or "closed"
    result      \* what connect returned: "none", "ok" or "err"

vars == <<state, socket, result>>

\* The socket after a teardown: an open one is closed.
TornDown == IF socket = "open" THEN "closed" ELSE socket

Init ==
    /\ state = "Initialized"
    /\ socket = "unopened"
    /\ result = "none"

\* connect claims the connection.
Establish ==
    /\ state = "Initialized"
    /\ state' = "Connected"
    /\ UNCHANGED <<socket, result>>

\* connect, still running, opens the socket (a concurrent close may
\* already have torn the connection down).
Open ==
    /\ state # "Initialized"
    /\ result = "none"
    /\ socket = "unopened"
    /\ socket' = "open"
    /\ UNCHANGED <<state, result>>

\* close on a connected connection.
Disconnect ==
    /\ state = "Connected"
    /\ state' = "Disconnected"
    /\ socket' = TornDown
    /\ UNCHANGED result

\* connect fails: the connection is torn down and the error reported.
Fail ==
    /\ state # "Initialized"
    /\ result = "none"
    /\ state' = "Disconnected"
    /\ socket' = TornDown
    /\ result' = "err"

\* connect succeeds.
Succeed ==
    /\ state # "Initialized"
    /\ result = "none"
    /\ result' = "ok"
    /\ UNCHANGED <<state, socket>>

\* An open socket on a disconnected connection is closed.
Reap ==
    /\ state = "Disconnected"
    /\ socket = "open"
    /\ socket' = "closed"
    /\ UNCHANGED <<state, result>>

Next == Establish \/ Open \/ Disconnect \/ Fail \/ Succeed \/ Reap

\* Nothing obliges connect or close to happen, but once a connection is
\* torn down its socket does not stay open.
Spec == Init /\ [][Next]_vars /\ WF_vars(Reap)
===============================================================================
