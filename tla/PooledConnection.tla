--------------------------- MODULE PooledConnection ---------------------------
(***************************************************************************)
(* What the pool and its Connection handles promise about one physical   *)
(* connection: it is leased to one holder at a time, every holder is a   *)
(* fresh one, it is given back exactly once by that holder, and it goes  *)
(* back to the idle set only while still open; a connection that was     *)
(* closed, or that the pool discards, is gone for good.                  *)
(***************************************************************************)
CONSTANTS
    Conns,      \* physical connections
    Holders,    \* lease holders (handles)
    NoHolder    \* no one holds the connection

VARIABLES
    lease,      \* "new", "idle", "leased" or "gone"
    holder,     \* who holds a leased connection
    open,       \* the socket is still usable
    used        \* holders that have held a lease

vars == <<lease, holder, open, used>>

Init ==
    /\ lease = [c \in Conns |-> "new"]
    /\ holder = [c \in Conns |-> NoHolder]
    /\ open = [c \in Conns |-> TRUE]
    /\ used = {}

\* A new or idle, open connection is leased to a holder that never held one.
Lease(c, h) ==
    /\ lease[c] \in {"new", "idle"}
    /\ open[c]
    /\ h \notin used
    /\ lease' = [lease EXCEPT ![c] = "leased"]
    /\ holder' = [holder EXCEPT ![c] = h]
    /\ used' = used \cup {h}
    /\ UNCHANGED open

\* The holder's use of a leased connection closes it.
Break(c) ==
    /\ lease[c] = "leased"
    /\ open' = [open EXCEPT ![c] = FALSE]
    /\ UNCHANGED <<lease, holder, used>>

\* The holder gives the connection back: to the idle set if it is open,
\* or it is closed and discarded.
GiveBack(c) ==
    /\ lease[c] = "leased"
    /\ holder' = [holder EXCEPT ![c] = NoHolder]
    /\ \/ open[c] /\ lease' = [lease EXCEPT ![c] = "idle"] /\ UNCHANGED open
       \/ lease' = [lease EXCEPT ![c] = "gone"]
          /\ open' = [open EXCEPT ![c] = FALSE]
    /\ UNCHANGED used

Next == \E c \in Conns : Break(c) \/ GiveBack(c) \/ \E h \in Holders : Lease(c, h)

Spec == Init /\ [][Next]_vars
===============================================================================
