--------------------------- MODULE ConnectionHandle ---------------------------
(***************************************************************************)
(* The topology.Connection handle (x/mongo/driver/topology/connection.go) *)
(* over pooled topology.connections: Write/Read delegation, Close,        *)
(* Expire, cleanupReferences, PinToCursor / PinToTransaction and their    *)
(* unpin counterparts, and Stale, called from any goroutine holding the   *)
(* handle, before and after it has been released.                         *)
(*                                                                         *)
(* The pool's side (checkOut, checkIn, stale, the pinned-connection       *)
(* counters, clearing a generation) is not in this repository's sources; *)
(* it is modelled from the spec (sections 3, 4.5).                        *)
(***************************************************************************)
EXTENDS Naturals, FiniteSets

CONSTANTS
    Conns,      \* physical connections the pool may create
    Handles,    \* handle values the pool may create on checkout
    MaxCalls,   \* bound on handle method calls
    MaxClears,  \* bound on pool generation bumps
    Nil         \* a nil *connection

Reasons == {"cursor", "transaction"}

\* Handle methods that dereference c.connection.
Methods == {"PinTo", "Stale", "DriverConnectionID", "ServerConnectionID"}

VARIABLES
    location,   \* where the pool has each connection
    connState,  \* each connection's state: "Connected" or "Disconnected"
    connGen,    \* each connection's generation
    poolGen,    \* the pool's current generation
    pinned,     \* the pool's pinned-connection counter for each reason
    handle,     \* each handle: its connection, refCount, cleanupPoolFn
    pinning,    \* PinTo* calls that read c.connection.pool and await c.mu
    panicked,   \* handle methods that dereferenced a nil connection
    calls,      \* handle method calls made
    clears,     \* generation bumps made
    reading     \* ServerConnectionID calls between the nil check and the read

vars == <<location, connState, connGen, poolGen, pinned, handle, pinning,
          panicked, calls, clears, reading>>

-----------------------------------------------------------------------------
HandleType == [conn : Conns \cup {Nil}, refCount : Nat,
               cleanup : Reasons \cup {"none"}, created : BOOLEAN]

TypeOK ==
    /\ location \in [Conns -> {"new", "idle", "out", "removed"}]
    /\ connState \in [Conns -> {"Connected", "Disconnected"}]
    /\ connGen \in [Conns -> 0..MaxClears]
    /\ poolGen \in 0..MaxClears
    /\ pinned \in [Reasons -> Nat]
    /\ handle \in [Handles -> HandleType]
    /\ pinning \subseteq Handles \X Reasons
    /\ panicked \subseteq Methods
    /\ reading \subseteq Handles
    /\ calls \in 0..MaxCalls
    /\ clears \in 0..MaxClears

Live == {h \in Handles : handle[h].conn # Nil}

(* pool.stale.                                                            *)
Stale(c) == connGen[c] # poolGen

(* pool.checkIn of connection c whose state is st by then: a closed or  *)
(* stale connection is closed and removed, a healthy one goes back to    *)
(* the idle set.                                                          *)
CheckIn(c, st) ==
    LET remove == st = "Disconnected" \/ Stale(c) IN
    /\ location' = [location EXCEPT ![c] = IF remove THEN "removed" ELSE "idle"]
    /\ connState' = [connState EXCEPT ![c] = IF remove THEN "Disconnected"
                                                      ELSE st]

(* Running and clearing cleanupPoolFn, the unpin callback of the reason  *)
(* the handle was first pinned for.                                       *)
RunCleanupPoolFn(h) ==
    pinned' = IF handle[h].cleanup = "none" THEN pinned
              ELSE [pinned EXCEPT ![handle[h].cleanup] = @ - 1]

(* A handle method call, counted against the bound.                       *)
Call == calls < MaxCalls /\ calls' = calls + 1

-----------------------------------------------------------------------------
Init ==
    /\ location = [c \in Conns |-> "new"]
    /\ connState = [c \in Conns |-> "Connected"]
    /\ connGen = [c \in Conns |-> 0]
    /\ poolGen = 0
    /\ pinned = [r \in Reasons |-> 0]
    /\ handle = [h \in Handles |-> [conn |-> Nil, refCount |-> 0,
                                    cleanup |-> "none", created |-> FALSE]]
    /\ pinning = {}
    /\ panicked = {}
    /\ calls = 0
    /\ clears = 0
    /\ reading = {}

(* Mutant of CheckOut: a removed connection is still found in the idle   *)
(* list and handed out.                                                    *)
CheckOutRemovedEntry(h, c) ==
    /\ ~handle[h].created
    /\ \/ location[c] \in {"idle", "removed"} /\ ~Stale(c)
       \/ location[c] = "new" /\ connGen' = [connGen EXCEPT ![c] = poolGen]
    /\ location[c] # "new" => UNCHANGED connGen
    /\ location' = [location EXCEPT ![c] = "out"]
    /\ handle' = [handle EXCEPT ![h] = [conn |-> c, refCount |-> 0,
                                       cleanup |-> "none", created |-> TRUE]]
    /\ UNCHANGED <<connState, poolGen, pinned, pinning, panicked, calls,
                   clears, reading>>

(* pool.checkOut: an idle connection of the current generation, or a new *)
(* one established for the current generation, wrapped in a new handle. *)
CheckOut(h, c) ==
    /\ ~handle[h].created
    /\ \/ location[c] = "idle" /\ ~Stale(c)
       \/ location[c] = "new" /\ connGen' = [connGen EXCEPT ![c] = poolGen]
    /\ location[c] = "idle" => UNCHANGED connGen
    /\ location' = [location EXCEPT ![c] = "out"]
    /\ handle' = [handle EXCEPT ![h] = [conn |-> c, refCount |-> 0,
                                       cleanup |-> "none", created |-> TRUE]]
    /\ UNCHANGED <<connState, poolGen, pinned, pinning, panicked, calls,
                   clears, reading>>

(* Mutant of CleanupReferences: c.connection is not set to nil.           *)
CleanupReferencesKeepConn(h, st) ==
    /\ CheckIn(handle[h].conn, st)
    /\ RunCleanupPoolFn(h)
    /\ handle' = [handle EXCEPT ![h].cleanup = "none"]

(* cleanupReferences, the connection's state being st: check it in, run  *)
(* and clear cleanupPoolFn, then drop the reference to the connection.   *)
CleanupReferences(h, st) ==
    /\ CheckIn(handle[h].conn, st)
    /\ RunCleanupPoolFn(h)
    /\ handle' = [handle EXCEPT ![h].cleanup = "none", ![h].conn = Nil]

(* Write / Read: under the read lock, ErrConnectionClosed on a released  *)
(* handle; otherwise delegated, and a failed write or read closes the    *)
(* connection.                                                            *)
WriteRead(h) ==
    /\ handle[h].created
    /\ Call
    /\ IF handle[h].conn = Nil
       THEN UNCHANGED connState
       ELSE \/ UNCHANGED connState
            \/ connState' = [connState EXCEPT ![handle[h].conn] = "Disconnected"]
    /\ UNCHANGED <<location, connGen, poolGen, pinned, handle, pinning,
                   panicked, clears, reading>>

(* Close: a no-op on a released or pinned handle.                         *)
Close(h) ==
    /\ handle[h].created
    /\ Call
    /\ IF handle[h].conn = Nil \/ handle[h].refCount > 0
       THEN UNCHANGED <<location, connState, pinned, handle>>
       ELSE CleanupReferences(h, connState[handle[h].conn])
    /\ UNCHANGED <<connGen, poolGen, pinning, panicked, clears, reading>>

(* Mutant of Expire: the connection is checked in before it is closed.   *)
ExpireCheckInFirst(h) ==
    /\ handle[h].created
    /\ Call
    /\ IF handle[h].conn = Nil
       THEN UNCHANGED <<location, connState, pinned, handle>>
       ELSE LET c == handle[h].conn IN
            /\ location' = [location EXCEPT ![c] =
                              IF Stale(c) \/ connState[c] = "Disconnected"
                              THEN "removed" ELSE "idle"]
            /\ connState' = [connState EXCEPT ![c] = "Disconnected"]
            /\ RunCleanupPoolFn(h)
            /\ handle' = [handle EXCEPT ![h].cleanup = "none", ![h].conn = Nil]
    /\ UNCHANGED <<connGen, poolGen, pinning, panicked, clears, reading>>

(* Expire: close the connection whatever its pins (c.connection.close), *)
(* then release it.                                                       *)
Expire(h) ==
    /\ handle[h].created
    /\ Call
    /\ IF handle[h].conn = Nil
       THEN UNCHANGED <<location, connState, pinned, handle>>
       ELSE CleanupReferences(h, "Disconnected")
    /\ UNCHANGED <<connGen, poolGen, pinning, panicked, clears, reading>>

(* PinToCursor / PinToTransaction evaluate c.connection.pool's callbacks *)
(* before pin takes the lock: on a released handle that is a nil         *)
(* pointer dereference.                                                   *)
PinCall(h, r) ==
    /\ handle[h].created
    /\ <<h, r>> \notin pinning
    /\ Call
    /\ IF handle[h].conn = Nil
       THEN panicked' = panicked \cup {"PinTo"} /\ UNCHANGED pinning
       ELSE pinning' = pinning \cup {<<h, r>>} /\ UNCHANGED panicked
    /\ UNCHANGED <<location, connState, connGen, poolGen, pinned, handle,
                   clears, reading>>

(* pin, under c.mu: an error on a released handle; the first reference   *)
(* runs the pool's pin callback and records its unpin callback.          *)
Pin(h, r) ==
    /\ <<h, r>> \in pinning
    /\ pinning' = pinning \ {<<h, r>>}
    /\ IF handle[h].conn = Nil
       THEN UNCHANGED <<pinned, handle>>
       ELSE IF handle[h].refCount = 0
            THEN /\ pinned' = [pinned EXCEPT ![r] = @ + 1]
                 /\ handle' = [handle EXCEPT ![h].refCount = 1,
                                             ![h].cleanup = r]
            ELSE /\ handle' = [handle EXCEPT ![h].refCount = @ + 1]
                 /\ UNCHANGED pinned
    /\ UNCHANGED <<location, connState, connGen, poolGen, panicked, calls,
                   clears, reading>>

(* Mutant of Unpin: the refCount == 0 check is missing.                 *)
UnpinNoZeroCheck(h) ==
    /\ handle[h].created
    /\ Call
    /\ IF handle[h].conn # Nil
       THEN handle' = [handle EXCEPT ![h].refCount = @ - 1]
       ELSE UNCHANGED handle
    /\ UNCHANGED <<location, connState, connGen, poolGen, pinned, pinning,
                   panicked, clears, reading>>

(* unpin: tolerated on a released handle, an error when not pinned.      *)
Unpin(h) ==
    /\ handle[h].created
    /\ Call
    /\ IF handle[h].conn # Nil /\ handle[h].refCount > 0
       THEN handle' = [handle EXCEPT ![h].refCount = @ - 1]
       ELSE UNCHANGED handle
    /\ UNCHANGED <<location, connState, connGen, poolGen, pinned, pinning,
                   panicked, clears, reading>>

(* Stale reads c.connection.pool, under the read lock but without a nil *)
(* check.                                                                 *)
StaleCall(h) ==
    /\ handle[h].created
    /\ Call
    /\ panicked' = IF handle[h].conn = Nil THEN panicked \cup {"Stale"}
                   ELSE panicked
    /\ UNCHANGED <<location, connState, connGen, poolGen, pinned, handle,
                   pinning, clears, reading>>

(* DriverConnectionID calls c.connection.DriverConnectionID() with      *)
(* neither the lock nor a nil check.                                      *)
DriverConnectionIDCall(h) ==
    /\ handle[h].created
    /\ Call
    /\ panicked' = IF handle[h].conn = Nil
                   THEN panicked \cup {"DriverConnectionID"} ELSE panicked
    /\ UNCHANGED <<location, connState, connGen, poolGen, pinned, handle,
                   pinning, clears, reading>>

(* ServerConnectionID, without the lock: the nil check reads             *)
(* c.connection, and returns nil when it is nil ...                       *)
ServerConnectionIDCheck(h) ==
    /\ handle[h].created
    /\ h \notin reading
    /\ Call
    /\ reading' = IF handle[h].conn # Nil THEN reading \cup {h} ELSE reading
    /\ UNCHANGED <<location, connState, connGen, poolGen, pinned, handle,
                   pinning, panicked, clears>>

(* ... and c.connection.serverConnectionID reads it a second time, after *)
(* a Close or Expire on another goroutine may have set it to nil.        *)
ServerConnectionIDRead(h) ==
    /\ h \in reading
    /\ reading' = reading \ {h}
    /\ panicked' = IF handle[h].conn = Nil
                   THEN panicked \cup {"ServerConnectionID"} ELSE panicked
    /\ UNCHANGED <<location, connState, connGen, poolGen, pinned, handle,
                   pinning, calls, clears>>

(* The pool's generation is bumped (a topology change clears the pool):  *)
(* connections of older generations become stale.                        *)
ClearPool ==
    /\ clears < MaxClears
    /\ clears' = clears + 1
    /\ poolGen' = poolGen + 1
    /\ UNCHANGED <<location, connState, connGen, pinned, handle, pinning,
                   panicked, calls, reading>>

Next ==
    \/ \E h \in Handles, c \in Conns : CheckOut(h, c)
    \/ \E h \in Handles :
          \/ WriteRead(h) \/ Close(h) \/ Expire(h) \/ Unpin(h)
          \/ StaleCall(h) \/ DriverConnectionIDCall(h)
          \/ ServerConnectionIDCheck(h) \/ ServerConnectionIDRead(h)
          \/ \E r \in Reasons : PinCall(h, r) \/ Pin(h, r)
    \/ ClearPool

Spec == Init /\ [][Next]_vars

-----------------------------------------------------------------------------
(* Each connection the pool has handed out is held by exactly one live   *)
(* handle, and one in the idle set or removed by none: releasing a       *)
(* handle twice (Close after Expire, Close racing Close) never checks    *)
(* the connection in twice, and a released handle never keeps reaching  *)
(* a connection the pool has since handed to someone else.               *)
ExclusiveUse ==
    \A c \in Conns :
        LET holders == {h \in Handles : handle[h].conn = c} IN
        IF location[c] = "out" THEN Cardinality(holders) = 1
        ELSE holders = {}

(* The pool's idle set only holds connections that are still open:      *)
(* Expire closes the socket before the connection goes back to the pool. *)
IdleConnectionsOpen ==
    \A c \in Conns : location[c] = "idle" => connState[c] = "Connected"

(* The pool's pinned counters count exactly the handles out there whose  *)
(* pin accounting is still open, one per handle, whatever sequence of    *)
(* pins and unpins was made on it.                                        *)
PinnedCountsBalanced ==
    \A r \in Reasons :
        pinned[r] = Cardinality({h \in Live : handle[h].cleanup = r})

(* ServerConnectionID, which does check for a released handle, never    *)
(* dereferences nil, even when the handle is released by another        *)
(* goroutine while the call is in progress.                              *)
NoRacyNilDereference == "ServerConnectionID" \notin panicked

(* The handles and the pool implement PooledConnection: a connection's  *)
(* lease follows where the pool has it, its holder is the live handle   *)
(* that references it, and it is open while Connected.  So a connection *)
(* is handed out only to a fresh handle and only while open, is given   *)
(* back once and only by that handle (Close, Expire, Close racing       *)
(* Expire), returns to the idle set only while open, and never comes    *)
(* back once removed.                                                    *)
LeaseOf == [new |-> "new", idle |-> "idle", out |-> "leased",
            removed |-> "gone"]

Lease == INSTANCE PooledConnection WITH
    Holders <- Handles,
    NoHolder <- Nil,
    lease <- [c \in Conns |-> LeaseOf[location[c]]],
    holder <- [c \in Conns |->
                 IF \E h \in Live : handle[h].conn = c
                 THEN CHOOSE h \in Live : handle[h].conn = c ELSE Nil],
    open <- [c \in Conns |-> connState[c] = "Connected"],
    used <- {h \in Handles : handle[h].created}

ImplementsPooledConnection == Lease!Spec

=============================================================================
