---------------------------- MODULE MeshChannel -----------------------------
(***************************************************************************)
(* The client's mesh (h2) channel: the second half of client.openStream    *)
(* and watchMeshConn of internal/yggss/tunnel.go.                          *)
(*                                                                         *)
(* Unlike the direct path, the whole call runs with c.mu held, and any     *)
(* error of an open costs the connection.  The cached QUIC connection runs *)
(* over a Yggdrasil session that exists only while the node has a peering. *)
(***************************************************************************)
EXTENDS Naturals

CONSTANTS Users,  \* handlers of local TCP connections that need the mesh
          Conns,  \* identities of QUIC connections, reused once forgotten
          None    \* Go's nil: no connection, no holder of c.mu

ASSUME IdsAssumption == None \notin Users \cup Conns

VARIABLES
  mu,      \* the handler holding c.mu, or None
  qconn,   \* c.qconn
  cst,     \* a connection's context: "open", "dead" (done, not by us), "closed" (by us)
  watch,   \* the connections watchMeshConn waits for
  pc,      \* where a handler is
  on,      \* the connection of a handler's stream, or the one it is opening on
  peered,  \* client.meshActive(): some peering is up
  net      \* the way to the server: "up", "lossy" or "black"

conn == <<qconn, cst, watch>>
env == <<peered, net>>
vars == <<mu, conn, pc, on, env>>

Pcs == {"idle", "open", "opening", "redial", "dialing", "openNew", "pipe", "failed"}
Held == {"opening", "redial", "dialing", "openNew"}   \* between Lock and Unlock

Init ==
  /\ mu = None /\ qconn = None
  /\ cst = [c \in Conns |-> "closed"] /\ watch = {}
  /\ pc = [u \in Users |-> "idle"] /\ on = [u \in Users |-> None]
  /\ peered = TRUE /\ net = "up"

Go(u, p) == pc' = [pc EXCEPT ![u] = p]
Unlock == mu' = None

\* An open or a dial can do without its deadline, and can miss it.
Answers == peered /\ net # "black"
Misses == ~peered \/ net # "up"

Close(c) == cst' = [cst EXCEPT ![c] = "closed"]

\* Closes and forgets the cached connection; the faulty variant only forgets it.
ForgetCurrent == qconn' = None /\ UNCHANGED cst
CloseCurrent == Close(qconn) /\ qconn' = None

\* An identity nothing refers to any more.
Fresh(c) == c # qconn /\ c \notin watch /\ \A u \in Users : on[u] # c

\* Bound: a call starts only while an identity besides the current one is free.
RoomToDial == \E c \in Conns : Fresh(c)

-----------------------------------------------------------------------------
Accept(u) ==
  /\ pc[u] = "idle" /\ Go(u, "open")
  /\ UNCHANGED <<mu, conn, on, env>>

\* A cached connection that cannot carry a stream: its peering is gone, or its
\* context is done.  The faulty variant does not look at the peering.
IgnorePeering == cst[qconn] # "open"
Useless == ~peered \/ cst[qconn] # "open"

\* c.mu is taken; a useless connection is dropped, a good one opened on.
Enter(u) ==
  /\ pc[u] = "open" /\ mu = None /\ RoomToDial
  /\ mu' = u
  /\ \/ /\ qconn # None /\ Useless
        /\ CloseCurrent /\ Go(u, "redial")
     \/ /\ qconn # None /\ ~Useless
        /\ Go(u, "opening") /\ UNCHANGED <<qconn, cst>>
     \/ /\ qconn = None
        /\ Go(u, "redial") /\ UNCHANGED <<qconn, cst>>
  /\ UNCHANGED <<watch, on, env>>

\* OpenStreamSync on the cached connection is local: it succeeds on an open
\* connection whatever the network does.  It fails when the connection died or
\* has no room for a stream within 10 s; then the connection is closed.
OpenOnCached(u) ==
  /\ pc[u] = "opening"
  /\ \/ /\ cst[qconn] = "open"
        /\ on' = [on EXCEPT ![u] = qconn] /\ Go(u, "pipe")
        /\ Unlock /\ UNCHANGED conn
     \/ /\ cst[qconn] # "open" \/ Misses
        /\ CloseCurrent /\ Go(u, "redial")
        /\ UNCHANGED <<mu, watch, on>>
  /\ UNCHANGED env

\* An error is returned and c.mu released; the faulty variant returns before
\* the unlock.
FailLocked(u) == Go(u, "failed") /\ UNCHANGED mu
Fail(u) == Go(u, "failed") /\ Unlock

\* Without a peering the call fails fast; else it dials.
Redial(u) ==
  /\ pc[u] = "redial"
  /\ \/ peered /\ Go(u, "dialing") /\ UNCHANGED mu
     \/ ~peered /\ Fail(u)
  /\ UNCHANGED <<conn, on, env>>

\* Dial returns within its deadline of at most 10 s.
Dial(u) ==
  /\ pc[u] = "dialing"
  /\ \/ \E c \in Conns :
          /\ Fresh(c) /\ Answers
          /\ cst' = [cst EXCEPT ![c] = "open"]
          /\ on' = [on EXCEPT ![u] = c] /\ Go(u, "openNew")
          /\ UNCHANGED mu
     \/ /\ Misses /\ Fail(u) /\ UNCHANGED <<cst, on>>
  /\ UNCHANGED <<qconn, watch, env>>

\* go c.watchMeshConn(qconn); the faulty variant forgets it.
NoWatcher(c) == UNCHANGED watch
StartWatcher(c) == watch' = watch \cup {c}

\* The return from a failed open on the new connection; the faulty variant
\* swallows the error and releases a handler that has no stream.
SwallowError(u) == Go(u, "pipe") /\ Unlock
FailNew(u) == Fail(u)

\* OpenStreamSync on the new connection, which is cached only with its stream.
OpenOnNew(u) ==
  /\ pc[u] = "openNew"
  /\ \/ /\ cst[on[u]] = "open"
        /\ qconn' = on[u] /\ StartWatcher(on[u])
        /\ Go(u, "pipe") /\ Unlock /\ UNCHANGED <<cst, on>>
     \/ /\ cst[on[u]] # "open" \/ Misses
        /\ Close(on[u])
        /\ on' = [on EXCEPT ![u] = None]
        /\ FailNew(u) /\ UNCHANGED <<qconn, watch>>
  /\ UNCHANGED env

\* handle: the error is logged and the local connection closed.
GiveUp(u) ==
  /\ pc[u] = "failed" /\ Go(u, "idle")
  /\ UNCHANGED <<mu, conn, on, env>>

EndPipe(u) ==
  /\ pc[u] = "pipe"
  /\ Go(u, "idle") /\ on' = [on EXCEPT ![u] = None]
  /\ UNCHANGED <<mu, conn, env>>

\* A stream on a connection that is gone errors out.
StreamBreaks(u) == pc[u] = "pipe" /\ cst[on[u]] # "open" /\ EndPipe(u)

\* watchMeshConn: the context is done; the connection is forgotten if it is
\* still the current one.  The faulty variant forgets whatever is cached.
ForgetAny(c) == qconn' = None
Forget(c) == qconn' = IF qconn = c THEN None ELSE qconn

WatchMeshConn(c) ==
  /\ c \in watch /\ cst[c] # "open" /\ mu = None
  /\ Forget(c) /\ watch' = watch \ {c}
  /\ UNCHANGED <<mu, cst, pc, on, env>>

\* The peer closes the connection, or it idles out without a way to the server.
ConnDies(c) ==
  /\ cst[c] = "open" /\ Misses
  /\ cst' = [cst EXCEPT ![c] = "dead"]
  /\ UNCHANGED <<mu, qconn, watch, pc, on, env>>

Outside ==
  /\ \/ peered' = ~peered /\ UNCHANGED net
     \/ net' \in {"up", "lossy", "black"} \ {net} /\ UNCHANGED peered
  /\ UNCHANGED <<mu, conn, pc, on>>

-----------------------------------------------------------------------------
OpenStream(u) == Enter(u) \/ OpenOnCached(u) \/ Redial(u) \/ Dial(u) \/ OpenOnNew(u)

UserStep(u) == OpenStream(u) \/ GiveUp(u) \/ StreamBreaks(u)

Next == \/ \E u \in Users : UserStep(u) \/ Accept(u) \/ EndPipe(u)
        \/ \E c \in Conns : WatchMeshConn(c) \/ ConnDies(c)
        \/ Outside

Spec == Init /\ [][Next]_vars

\* Opens and dials have deadlines, and sync.Mutex hands the lock to a waiter
\* that has starved for 1 ms.
FairSpec == /\ Spec
            /\ \A u \in Users : SF_vars(UserStep(u))
            /\ \A c \in Conns : SF_vars(WatchMeshConn(c))

-----------------------------------------------------------------------------
(* Properties *)

\* Types, and a handler that pipes has a stream to pipe.
TypeOK ==
  /\ mu \in Users \cup {None} /\ qconn \in Conns \cup {None}
  /\ cst \in [Conns -> {"open", "dead", "closed"}] /\ watch \subseteq Conns
  /\ pc \in [Users -> Pcs] /\ on \in [Users -> Conns \cup {None}]
  /\ \A u \in Users : pc[u] = "pipe" => on[u] # None
  /\ peered \in BOOLEAN /\ net \in {"up", "lossy", "black"}

\* A connection that is open is the cached one, or the one that the handler
\* holding c.mu has just dialled: neither a redial nor a watcher that comes
\* late ever leaves one behind (tunnel.go:402-428, 459-463, 475-481).
NothingLeaks ==
  \A c \in Conns : cst[c] = "open" =>
    qconn = c \/ \E u \in Users : mu = u /\ pc[u] = "openNew" /\ on[u] = c

\* The cached connection always has a watcher ("clear the cached connection as
\* soon as it closes", tunnel.go:465-467).
AlwaysWatched == qconn # None => qconn \in watch

\* The refinement mapping.
Channel == INSTANCE SingleConn WITH
  current <- qconn,
  alive <- {c \in Conns : cst[c] = "open" /\ \A u \in Users : pc[u] = "openNew" => on[u] # c},
  ride <- [u \in Users |-> IF pc[u] = "pipe" THEN on[u] ELSE None],
  Riders <- Users

\* The mesh channel is a single connection to its streams; the one a handler has
\* just dialled is not part of it until it is cached with its stream
\* (tunnel.go:402-429, 456-469, 471-481).
IsSingleConn == Channel!Spec

\* Once no peering is up any more, streams stop being opened: the connection
\* that QUIC keeps open locally is a black hole, and calls drop it and fail
\* fast instead of handing out streams on it (tunnel.go:402-410, 444-448).
FailsFast ==
  <>[]~peered => <>[][\A u \in Users : pc'[u] = "pipe" => pc[u] = "pipe"]_vars

\* A handler that asks for a stream gets one or an error: c.mu, held across
\* dials by hand-over from handler to handler, starves nobody.
EveryoneServed == \A u \in Users : pc[u] = "open" ~> pc[u] \in {"pipe", "failed"}
=============================================================================
