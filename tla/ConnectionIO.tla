---------------------------- MODULE ConnectionIO ----------------------------
(***************************************************************************)
(* Steady-state message exchange on one connected topology.connection     *)
(* (x/mongo/driver/topology/connection.go): writeWireMessage / write and  *)
(* readWireMessage / read with the per-operation cancellation listener    *)
(* goroutine racing the socket call, the wire framer (size prefix, body,  *)
(* partial reads under a deadline) and the awaitRemainingBytes marker.    *)
(*                                                                         *)
(* The caller issues requests (a write, then a read of the reply) with a  *)
(* fresh context each, which may carry a deadline and may be cancelled.   *)
(* Between requests a connection whose marker is set is reconciled by the *)
(* pool, which drains the outstanding bytes (that code is not in this     *)
(* repository's sources; it is modelled from the spec, section 4.1/9).    *)
(*                                                                         *)
(* The byte stream is abstracted to the declared size of the reply in     *)
(* flight and how many of its bytes the client has consumed.              *)
(***************************************************************************)
EXTENDS Naturals, Integers

CONSTANTS
    Sizes,                  \* a reply's length prefix, read as an int32
    MaxMessageSize,         \* c.desc.MaxMessageSize (0 before hello)
    DefaultMaxMessageSize,  \* defaultMaxMessageSize
    MaxRequests,            \* bound on the requests the caller issues
    Nil                     \* awaitRemainingBytes == nil

ASSUME /\ Sizes \subseteq Int
       /\ MaxRequests \in Nat
       /\ Nil \notin Int

VARIABLES
    state,          \* c.state; the socket is closed exactly when Disconnected
    opPc,           \* where the caller's goroutine is
    ctxCancelled,   \* the request's ctx was cancelled
    deadlineUsed,   \* the request's ctx carries a deadline
    listener,       \* c.cancellationListener: "idle", "listening", "aborted"
    err,            \* the error the socket calls of the current op produced
    result,         \* what the last write or read returned to the caller
    marker,         \* c.awaitRemainingBytes
    respSize,       \* declared length of the reply in flight (0: none yet)
    consumed,       \* bytes of that reply the client has consumed
    requests        \* requests issued so far

vars == <<state, opPc, ctxCancelled, deadlineUsed, listener, err, result,
          marker, respSize, consumed, requests>>

-----------------------------------------------------------------------------
ErrorKinds == {"none", "closed", "timeout", "network", "malformed",
               "tooLarge", "canceled", "deadline"}

TypeOK ==
    /\ state \in {"Connected", "Disconnected"}
    /\ opPc \in {"idle", "write", "writeDone", "written", "readHeader",
                 "readBody", "readDone"}
    /\ ctxCancelled \in BOOLEAN
    /\ deadlineUsed \in BOOLEAN
    /\ listener \in {"idle", "listening", "aborted"}
    /\ err \in ErrorKinds
    /\ result \in [op : {"none", "write", "read"}, err : ErrorKinds]
    /\ marker = Nil \/ marker \in Int
    /\ respSize \in {0} \cup Sizes
    /\ consumed \in Nat
    /\ requests \in 0..MaxRequests

-----------------------------------------------------------------------------
(* parseWmSizeBytes: the error it returns for a length prefix, "none"     *)
(* when the length is accepted.  The prefix is the int32 reading of the   *)
(* four little-endian bytes, so a prefix with the top bit set is negative *)
(* and rejected as malformed before the uint32 comparison with the limit. *)
ParseWmSizeBytes(size) ==
    LET max == IF MaxMessageSize = 0 THEN DefaultMaxMessageSize
               ELSE MaxMessageSize
    IN  CASE size < 4   -> "malformed"
          [] size > max -> "tooLarge"
          [] OTHER      -> "none"

(* transformNetworkError.                                                 *)
TransformNetworkError(e) ==
    CASE e = "none"       -> "none"
      [] ctxCancelled     -> "canceled"
      [] ~deadlineUsed    -> e
      [] e = "timeout"    -> "deadline"
      [] OTHER            -> e

(* c.close(): the state CAS and closing c.nc, idempotent.                 *)
Close == state' = "Disconnected"

(* cancellationListener.StopListening reports whether the listener fired; *)
(* a nil error is then overwritten by context.Canceled.                   *)
ErrAfterStopListening ==
    IF listener = "aborted" /\ err = "none" THEN "canceled" ELSE err

-----------------------------------------------------------------------------
Init ==
    /\ state = "Connected"
    /\ opPc = "idle"
    /\ ctxCancelled = FALSE
    /\ deadlineUsed = FALSE
    /\ listener = "idle"
    /\ err = "none"
    /\ result = [op |-> "none", err |-> "none"]
    /\ marker = Nil
    /\ respSize = 0
    /\ consumed = 0
    /\ requests = 0

(* The caller starts a request with a fresh ctx on a connection the pool *)
(* handed out (its marker is clear).  writeWireMessage rejects a closed  *)
(* connection; otherwise write() starts the listener goroutine.          *)
WriteStart ==
    /\ opPc = "idle"
    /\ marker = Nil
    /\ requests < MaxRequests
    /\ requests' = requests + 1
    /\ ctxCancelled' = FALSE
    /\ deadlineUsed' \in BOOLEAN
    /\ err' = "none"
    /\ IF state = "Connected"
       THEN /\ listener' = "listening"
            /\ opPc' = "write"
            /\ UNCHANGED result
       ELSE /\ result' = [op |-> "write", err |-> "closed"]
            /\ UNCHANGED <<opPc, listener>>
    /\ UNCHANGED <<state, marker, respSize, consumed>>

(* c.nc.Write: a whole request reaches the server, which will reply with *)
(* some length; or the write times out (deadline set) or fails, as it    *)
(* always does once the listener closed the socket.                      *)
WriteIO ==
    /\ opPc = "write"
    /\ \/ /\ state = "Connected"
          /\ err' = "none"
          /\ respSize' \in Sizes
          /\ consumed' = 0
       \/ /\ state = "Connected" /\ deadlineUsed
          /\ err' = "timeout"
          /\ UNCHANGED <<respSize, consumed>>
       \/ /\ err' = "network"
          /\ UNCHANGED <<respSize, consumed>>
    /\ opPc' = "writeDone"
    /\ UNCHANGED <<state, ctxCancelled, deadlineUsed, listener, result,
                   marker, requests>>

(* Mutant of WriteReturn: a listener that fired is not reported.          *)
WriteReturnNoOverride ==
    /\ opPc = "writeDone"
    /\ listener' = "idle"
    /\ result' = [op |-> "write", err |-> TransformNetworkError(err)]
    /\ IF err # "none"
       THEN Close /\ opPc' = "idle"
       ELSE UNCHANGED state /\ opPc' = "written"
    /\ UNCHANGED <<ctxCancelled, deadlineUsed, err, marker, respSize,
                   consumed, requests>>

(* The deferred StopListening of write(), then writeWireMessage closes   *)
(* the connection on any error.                                          *)
WriteReturn ==
    /\ opPc = "writeDone"
    /\ LET e == ErrAfterStopListening IN
         /\ listener' = "idle"
         /\ result' = [op |-> "write", err |-> TransformNetworkError(e)]
         /\ IF e # "none"
            THEN Close /\ opPc' = "idle"
            ELSE UNCHANGED state /\ opPc' = "written"
    /\ UNCHANGED <<ctxCancelled, deadlineUsed, err, marker, respSize,
                   consumed, requests>>

(* readWireMessage rejects a closed connection without closing it;       *)
(* otherwise read() starts the listener goroutine.                        *)
ReadStart ==
    /\ opPc = "written"
    /\ err' = "none"
    /\ IF state = "Connected"
       THEN /\ listener' = "listening"
            /\ opPc' = "readHeader"
            /\ UNCHANGED result
       ELSE /\ result' = [op |-> "read", err |-> "closed"]
            /\ opPc' = "idle"
            /\ UNCHANGED listener
    /\ UNCHANGED <<state, ctxCancelled, deadlineUsed, marker, respSize,
                   consumed, requests>>

(* io.ReadFull of the 4-byte length prefix.  A timeout before any byte   *)
(* arrived marks the connection as awaiting a whole reply; a partial     *)
(* prefix leaves no mark.  A complete prefix is parsed.                  *)
ReadHeader ==
    /\ opPc = "readHeader"
    /\ \/ /\ state = "Connected"
          /\ consumed' = consumed + 4
          /\ err' = ParseWmSizeBytes(respSize)
          /\ opPc' = IF err' = "none" /\ respSize > 4
                     THEN "readBody" ELSE "readDone"
          /\ UNCHANGED marker
       \/ /\ state = "Connected" /\ deadlineUsed
          /\ \E n \in 0..3 :
                /\ consumed' = consumed + n
                /\ marker' = IF n = 0 THEN 0 ELSE marker
          /\ err' = "timeout"
          /\ opPc' = "readDone"
       \/ /\ \E n \in 0..3 : consumed' = consumed + (IF state = "Connected"
                                                    THEN n ELSE 0)
          /\ err' = "network"
          /\ opPc' = "readDone"
          /\ UNCHANGED marker
    /\ UNCHANGED <<state, ctxCancelled, deadlineUsed, listener, result,
                   respSize, requests>>

(* Mutant of ReadBody: the remaining count forgets the header bytes.     *)
ReadBodyRemainingOffByHeader ==
    /\ opPc = "readBody"
    /\ LET bodyLen == respSize - 4 IN
       \/ /\ state = "Connected"
          /\ consumed' = consumed + bodyLen
          /\ err' = "none"
          /\ UNCHANGED marker
       \/ /\ state = "Connected" /\ deadlineUsed
          /\ \E m \in 0..(bodyLen - 1) :
                /\ consumed' = consumed + m
                /\ marker' = respSize - m
          /\ err' = "timeout"
       \/ /\ \E m \in 0..(bodyLen - 1) :
                consumed' = consumed + (IF state = "Connected" THEN m ELSE 0)
          /\ err' = "network"
          /\ UNCHANGED marker
    /\ opPc' = "readDone"
    /\ UNCHANGED <<state, ctxCancelled, deadlineUsed, listener, result,
                   respSize, requests>>

(* io.ReadFull of the size - 4 body bytes.  A timeout records how many   *)
(* bytes of the reply are still to come.                                 *)
ReadBody ==
    /\ opPc = "readBody"
    /\ LET bodyLen == respSize - 4 IN
       \/ /\ state = "Connected"
          /\ consumed' = consumed + bodyLen
          /\ err' = "none"
          /\ UNCHANGED marker
       \/ /\ state = "Connected" /\ deadlineUsed
          /\ \E m \in 0..(bodyLen - 1) :
                /\ consumed' = consumed + m
                /\ LET remainingBytes == respSize - 4 - m IN
                     marker' = IF remainingBytes > 0 THEN remainingBytes
                               ELSE marker
          /\ err' = "timeout"
       \/ /\ \E m \in 0..(bodyLen - 1) :
                consumed' = consumed + (IF state = "Connected" THEN m ELSE 0)
          /\ err' = "network"
          /\ UNCHANGED marker
    /\ opPc' = "readDone"
    /\ UNCHANGED <<state, ctxCancelled, deadlineUsed, listener, result,
                   respSize, requests>>

(* Mutant of ReadReturn: a listener that fired is not reported.           *)
ReadReturnNoOverride ==
    /\ opPc = "readDone"
    /\ listener' = "idle"
    /\ result' = [op |-> "read", err |-> TransformNetworkError(err)]
    /\ IF err # "none" /\ marker = Nil THEN Close ELSE UNCHANGED state
    /\ opPc' = "idle"
    /\ UNCHANGED <<ctxCancelled, deadlineUsed, err, marker, respSize,
                   consumed, requests>>

(* The deferred StopListening of read(), then readWireMessage closes the *)
(* connection on an error unless it was marked as awaiting bytes.        *)
ReadReturn ==
    /\ opPc = "readDone"
    /\ LET e == ErrAfterStopListening IN
         /\ listener' = "idle"
         /\ result' = [op |-> "read", err |-> TransformNetworkError(e)]
         /\ IF e # "none" /\ marker = Nil THEN Close ELSE UNCHANGED state
    /\ opPc' = "idle"
    /\ UNCHANGED <<ctxCancelled, deadlineUsed, err, marker, respSize,
                   consumed, requests>>

(* The caller cancels the request's ctx while it is in progress.         *)
CancelCtx ==
    /\ opPc \notin {"idle"}
    /\ ~ctxCancelled
    /\ ctxCancelled' = TRUE
    /\ UNCHANGED <<state, opPc, deadlineUsed, listener, err, result, marker,
                   respSize, consumed, requests>>

(* The listener goroutine sees the ctx done first: it runs               *)
(* cancellationListenerCallback, i.e. c.close(), and records the abort.   *)
ListenerAbort ==
    /\ listener = "listening"
    /\ ctxCancelled
    /\ Close
    /\ listener' = "aborted"
    /\ UNCHANGED <<opPc, ctxCancelled, deadlineUsed, err, result, marker,
                   respSize, consumed, requests>>

(* Mutant of AwaitPendingResponse: the drain trusts whatever length      *)
(* prefix it reads.                                                       *)
AwaitPendingResponseNoParse ==
    /\ opPc = "idle"
    /\ marker # Nil
    /\ state = "Connected"
    /\ \/ /\ consumed' = IF marker = 0 THEN consumed + respSize
                         ELSE consumed + marker
          /\ UNCHANGED state
       \/ /\ Close
          /\ UNCHANGED consumed
    /\ marker' = Nil
    /\ UNCHANGED <<opPc, ctxCancelled, deadlineUsed, listener, err, result,
                   respSize, requests>>

(* The pool's reconciliation of a marked connection before reuse: a      *)
(* marker of 0 means a whole reply is outstanding, otherwise exactly     *)
(* that many bytes; the bytes are read and discarded, or the connection  *)
(* is closed when that fails (as it does for a reply whose length prefix *)
(* is invalid).  (Modelled from the spec.)                               *)
AwaitPendingResponse ==
    /\ opPc = "idle"
    /\ marker # Nil
    /\ state = "Connected"
    /\ \/ /\ marker = 0 => ParseWmSizeBytes(respSize) = "none"
          /\ consumed' = IF marker = 0 THEN consumed + respSize
                         ELSE consumed + marker
          /\ UNCHANGED state
       \/ /\ Close
          /\ UNCHANGED consumed
    /\ marker' = Nil
    /\ UNCHANGED <<opPc, ctxCancelled, deadlineUsed, listener, err, result,
                   respSize, requests>>

Next ==
    \/ WriteStart \/ WriteIO \/ WriteReturn
    \/ ReadStart \/ ReadHeader \/ ReadBody \/ ReadReturn
    \/ CancelCtx \/ ListenerAbort \/ AwaitPendingResponse

Spec == Init /\ [][Next]_vars

-----------------------------------------------------------------------------
(* Replies never get out of step with requests: whenever the connection  *)
(* is idle, usable and unmarked, every byte of the last reply has been   *)
(* consumed.  A read that fails must either close the connection or mark *)
(* exactly what is left of the reply (0 for a reply not yet begun), and  *)
(* the drain must consume exactly that; otherwise the next read would    *)
(* take the tail of an old reply for a length prefix.                    *)
StreamAligned ==
    (opPc = "idle" /\ marker = Nil /\ state = "Connected") =>
        consumed = respSize

(* A write or read that returns success did not race a cancellation that *)
(* closed the connection under it: the connection is still usable.       *)
SuccessImpliesUsable ==
    (opPc \in {"idle", "written"} /\ result.op # "none"
        /\ result.err = "none") => state = "Connected"

=============================================================================
