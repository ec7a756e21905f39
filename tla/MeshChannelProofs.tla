------------------------- MODULE MeshChannelProofs --------------------------
(***************************************************************************)
(* Machine-checked proofs about MeshChannel, for any set of handlers and   *)
(* any set of connections.                                                 *)
(***************************************************************************)
EXTENDS MeshChannel, TLAPS

USE IdsAssumption

Types ==
  /\ mu \in Users \cup {None} /\ qconn \in Conns \cup {None}
  /\ cst \in [Conns -> {"open", "dead", "closed"}] /\ watch \subseteq Conns
  /\ pc \in [Users -> Pcs] /\ on \in [Users -> Conns \cup {None}]
  /\ peered \in BOOLEAN /\ net \in {"up", "lossy", "black"}

(* c.mu is held exactly between Lock and Unlock; while it is held, only the
   holder's own steps change the cached connection, so that it is there while
   the holder opens on it and gone from the moment it was given up. *)
LockHeld ==
  \A u \in Users :
    /\ mu = u <=> pc[u] \in Held
    /\ pc[u] = "opening" => qconn # None
    /\ pc[u] \in {"redial", "dialing", "openNew"} => qconn = None

(* A handler has a connection exactly where it opens on a new one or pipes. *)
Aboard ==
  \A u \in Users : on[u] # None <=> pc[u] \in {"openNew", "pipe"}

(* The inductive invariant. *)
Inv == Types /\ LockHeld /\ Aboard /\ NothingLeaks /\ AlwaysWatched

-----------------------------------------------------------------------------
(* What one step of a handler may do to the invariant.                     *)

(* A handler moves without touching its connection or the cached one; c.mu
   follows the move. *)
LEMMA HandlerMoves ==
  ASSUME Inv, NEW u \in Users, NEW p \in Pcs, Go(u, p), UNCHANGED <<conn, on, env>>,
         pc[u] # "openNew", pc[u] # "pipe", p # "openNew", p # "pipe",
         p \in Held => (mu = None \/ mu = u) /\ mu' = u,
         p \notin Held => mu' = IF pc[u] \in Held THEN None ELSE mu,
         p = "opening" => qconn # None,
         p \in {"redial", "dialing"} => qconn = None
  PROVE  Inv'
<1>1. pc' \in [Users -> Pcs] /\ \A v \in Users : pc'[v] = IF v = u THEN p ELSE pc[v]
  BY DEF Inv, Types, Go
<1>2. Types'
  BY <1>1 DEF Inv, Types, conn, env
<1>3. LockHeld'
  BY <1>1 DEF Inv, LockHeld, Types, conn, Held
<1>4. Aboard'
  BY <1>1 DEF Inv, Aboard
<1>5. NothingLeaks'
  BY <1>1 DEF Inv, NothingLeaks, LockHeld, Types, conn, Held
<1> QED
  BY <1>2, <1>3, <1>4, <1>5 DEF Inv, AlwaysWatched, conn

(* The cached connection is closed and forgotten by the handler that takes
   c.mu or has it: nothing is left open. *)
LEMMA Closes ==
  ASSUME Inv, NEW u \in Users, qconn # None, CloseCurrent, Go(u, "redial"),
         UNCHANGED <<watch, on, env>>, pc[u] \in {"open", "opening"},
         mu = None \/ mu = u, mu' = u
  PROVE  Inv' /\ \A c \in Conns : cst'[c] # "open"
<1>1. pc' \in [Users -> Pcs] /\ \A v \in Users : pc'[v] = IF v = u THEN "redial" ELSE pc[v]
  BY DEF Inv, Types, Go, Pcs
<1>2. cst' \in [Conns -> {"open", "dead", "closed"}] /\ cst'[qconn] # "open"
      /\ \A c \in Conns : cst'[c] = "open" => cst[c] = "open"
  BY DEF Inv, Types, CloseCurrent, Close
<1>3. Types'
  BY <1>1, <1>2 DEF Inv, Types, CloseCurrent, env
<1>4. \A v \in Users \ {u} : pc[v] \notin Held
  BY DEF Inv, LockHeld
<1>5. LockHeld'
  BY <1>1, <1>4 DEF LockHeld, CloseCurrent, Held
<1>6. Aboard'
  BY <1>1 DEF Inv, Aboard
<1>7. \A c \in Conns : cst'[c] # "open"
  BY <1>2, <1>4 DEF Inv, NothingLeaks, Held
<1> QED
  BY <1>3, <1>5, <1>6, <1>7 DEF Inv, NothingLeaks, AlwaysWatched, CloseCurrent

-----------------------------------------------------------------------------
(* The lock, the cached connection and its watcher.                        *)

(* The inductive invariant: handlers reach the cached connection only one at a time,
   under c.mu, and every open one is cached and watched (openStream, watchMeshConn). *)
THEOREM LockAndConnection == Spec => []Inv
<1>1. Init => Inv
  <2> SUFFICES ASSUME Init PROVE Inv
    OBVIOUS
  <2>1. Types
    BY DEF Init, Types, Pcs
  <2>2. LockHeld /\ Aboard
    BY DEF Init, LockHeld, Aboard, Held
  <2> QED
    BY <2>1, <2>2 DEF Init, Inv, NothingLeaks, AlwaysWatched
<1>2. Inv /\ [Next]_vars => Inv'
  <2> SUFFICES ASSUME Inv, [Next]_vars PROVE Inv'
    OBVIOUS
  <2>1. ASSUME NEW u \in Users, Accept(u) \/ GiveUp(u) PROVE Inv'
    <3>1. PICK p \in {"open", "idle"} :
            /\ Go(u, p) /\ pc[u] \in {"idle", "failed"} /\ UNCHANGED <<mu, conn, on, env>>
      BY <2>1 DEF Accept, GiveUp
    <3> QED
      BY <3>1, HandlerMoves DEF Pcs, Held
  <2>2. ASSUME NEW u \in Users, Enter(u) PROVE Inv'
    <3>1. pc[u] = "open" /\ mu = None /\ mu' = u /\ UNCHANGED <<watch, on, env>>
      BY <2>2 DEF Enter
    <3>2. CASE qconn # None /\ CloseCurrent /\ Go(u, "redial")
      BY <3>1, <3>2, Closes
    <3>3. CASE qconn # None /\ Go(u, "opening") /\ UNCHANGED <<qconn, cst>>
      BY <3>1, <3>3, HandlerMoves DEF Pcs, Held, conn
    <3>4. CASE qconn = None /\ Go(u, "redial") /\ UNCHANGED <<qconn, cst>>
      BY <3>1, <3>4, HandlerMoves DEF Pcs, Held, conn
    <3> QED
      BY <2>2, <3>2, <3>3, <3>4 DEF Enter
  <2>3. ASSUME NEW u \in Users, OpenOnCached(u) PROVE Inv'
    <3>1. mu = u /\ pc[u] = "opening" /\ qconn # None /\ UNCHANGED env
      BY <2>3 DEF OpenOnCached, Inv, LockHeld, Held
    <3>2. CASE CloseCurrent /\ Go(u, "redial") /\ UNCHANGED <<mu, watch, on>>
      BY <3>1, <3>2, Closes
    <3>3. CASE on' = [on EXCEPT ![u] = qconn] /\ Go(u, "pipe") /\ Unlock /\ UNCHANGED conn
      <4>1. /\ pc' \in [Users -> Pcs]
            /\ \A v \in Users : pc'[v] = IF v = u THEN "pipe" ELSE pc[v]
        BY <3>3 DEF Inv, Types, Go, Pcs
      <4>2. /\ on' \in [Users -> Conns \cup {None}]
            /\ \A v \in Users : on'[v] = IF v = u THEN qconn ELSE on[v]
        BY <3>3 DEF Inv, Types
      <4>3. Types'
        BY <3>1, <3>3, <4>1, <4>2 DEF Inv, Types, Unlock, conn, env
      <4>4. LockHeld' /\ Aboard'
        BY <3>1, <3>3, <4>1, <4>2 DEF Inv, LockHeld, Aboard, Unlock, conn, Held, Types
      <4>5. NothingLeaks' /\ AlwaysWatched'
        BY <3>1, <3>3 DEF Inv, NothingLeaks, AlwaysWatched, conn
      <4> QED
        BY <4>3, <4>4, <4>5 DEF Inv
    <3> QED
      BY <2>3, <3>2, <3>3 DEF OpenOnCached
  <2>4. ASSUME NEW u \in Users, Redial(u) PROVE Inv'
    <3>1. mu = u /\ pc[u] = "redial" /\ qconn = None /\ UNCHANGED <<conn, on, env>>
      BY <2>4 DEF Redial, Inv, LockHeld, Held
    <3>2. CASE Go(u, "dialing") /\ UNCHANGED mu
      BY <3>1, <3>2, HandlerMoves DEF Pcs, Held
    <3>3. CASE Go(u, "failed") /\ mu' = None
      BY <3>1, <3>3, HandlerMoves DEF Pcs, Held
    <3> QED
      BY <2>4, <3>2, <3>3 DEF Redial, Fail, Unlock
  <2>5. ASSUME NEW u \in Users, Dial(u) PROVE Inv'
    <3>1. mu = u /\ pc[u] = "dialing" /\ qconn = None /\ UNCHANGED <<qconn, watch, env>>
      BY <2>5 DEF Dial, Inv, LockHeld, Held
    <3>2. CASE Go(u, "failed") /\ mu' = None /\ UNCHANGED <<cst, on>>
      BY <3>1, <3>2, HandlerMoves DEF Pcs, Held, conn
    <3>3. ASSUME NEW c \in Conns, cst' = [cst EXCEPT ![c] = "open"],
                 on' = [on EXCEPT ![u] = c], Go(u, "openNew"), UNCHANGED mu
          PROVE  Inv'
      <4>1. /\ pc' \in [Users -> Pcs]
            /\ \A v \in Users : pc'[v] = IF v = u THEN "openNew" ELSE pc[v]
        BY <3>3 DEF Inv, Types, Go, Pcs
      <4>2. /\ on' \in [Users -> Conns \cup {None}]
            /\ \A v \in Users : on'[v] = IF v = u THEN c ELSE on[v]
        BY <3>3 DEF Inv, Types
      <4>3. Types'
        BY <3>1, <3>3, <4>1, <4>2 DEF Inv, Types, env
      <4>4. LockHeld' /\ Aboard'
        BY <3>1, <3>3, <4>1, <4>2 DEF Inv, LockHeld, Aboard, Held, Types
      <4>5. \A d \in Conns : cst[d] # "open"
        BY <3>1 DEF Inv, NothingLeaks, Types
      <4>6. NothingLeaks'
        BY <3>1, <3>3, <4>1, <4>2, <4>5 DEF NothingLeaks, Inv, Types
      <4> QED
        BY <3>1, <4>3, <4>4, <4>6 DEF Inv, AlwaysWatched
    <3> QED
      BY <2>5, <3>2, <3>3 DEF Dial, Fail, Unlock
  <2>6. ASSUME NEW u \in Users, OpenOnNew(u) PROVE Inv'
    <3>1. mu = u /\ pc[u] = "openNew" /\ qconn = None /\ UNCHANGED env
      BY <2>6 DEF OpenOnNew, Inv, LockHeld, Held
    <3>2. on[u] \in Conns /\ \A v \in Users \ {u} : pc[v] \notin Held
      BY <3>1 DEF Inv, Aboard, Types, LockHeld
    <3>3. CASE /\ qconn' = on[u] /\ StartWatcher(on[u])
               /\ Go(u, "pipe") /\ Unlock /\ UNCHANGED <<cst, on>>
      <4>1. /\ pc' \in [Users -> Pcs]
            /\ \A v \in Users : pc'[v] = IF v = u THEN "pipe" ELSE pc[v]
        BY <3>3 DEF Inv, Types, Go, Pcs
      <4>2. Types'
        BY <3>1, <3>2, <3>3, <4>1 DEF Inv, Types, Unlock, StartWatcher, env
      <4>3. LockHeld' /\ Aboard'
        BY <3>1, <3>2, <3>3, <4>1 DEF Inv, LockHeld, Aboard, Unlock, Held, Types
      <4>4. NothingLeaks' /\ AlwaysWatched'
        BY <3>1, <3>3 DEF Inv, NothingLeaks, AlwaysWatched, StartWatcher, Types
      <4> QED
        BY <4>2, <4>3, <4>4 DEF Inv
    <3>4. CASE /\ Close(on[u]) /\ on' = [on EXCEPT ![u] = None]
               /\ FailNew(u) /\ UNCHANGED <<qconn, watch>>
      <4>1. /\ pc' \in [Users -> Pcs]
            /\ \A v \in Users : pc'[v] = IF v = u THEN "failed" ELSE pc[v]
        BY <3>4 DEF Inv, Types, FailNew, Fail, Go, Pcs
      <4>2. /\ on' \in [Users -> Conns \cup {None}]
            /\ \A v \in Users : on'[v] = IF v = u THEN None ELSE on[v]
        BY <3>4 DEF Inv, Types
      <4>3. /\ cst' \in [Conns -> {"open", "dead", "closed"}]
            /\ \A d \in Conns : cst'[d] = "open" => cst[d] = "open" /\ d # on[u]
        BY <3>4 DEF Inv, Types, Close
      <4>4. Types'
        BY <3>1, <3>4, <4>1, <4>2, <4>3 DEF Inv, Types, FailNew, Fail, Unlock, env
      <4>5. LockHeld' /\ Aboard'
        BY <3>1, <3>2, <3>4, <4>1, <4>2
           DEF Inv, LockHeld, Aboard, FailNew, Fail, Unlock, Held, Types
      <4>6. NothingLeaks'
        BY <3>1, <4>3 DEF Inv, NothingLeaks, Types
      <4> QED
        BY <3>1, <3>4, <4>4, <4>5, <4>6 DEF Inv, AlwaysWatched
    <3> QED
      BY <2>6, <3>3, <3>4 DEF OpenOnNew
  <2>7. ASSUME NEW u \in Users, EndPipe(u) PROVE Inv'
    <3>1. pc[u] = "pipe" /\ UNCHANGED <<mu, conn, env>>
      BY <2>7 DEF EndPipe
    <3>2. /\ pc' \in [Users -> Pcs]
          /\ \A v \in Users : pc'[v] = IF v = u THEN "idle" ELSE pc[v]
      BY <2>7 DEF EndPipe, Inv, Types, Go, Pcs
    <3>3. /\ on' \in [Users -> Conns \cup {None}]
          /\ \A v \in Users : on'[v] = IF v = u THEN None ELSE on[v]
      BY <2>7 DEF EndPipe, Inv, Types
    <3>4. Types'
      BY <3>1, <3>2, <3>3 DEF Inv, Types, conn, env
    <3>5. LockHeld' /\ Aboard'
      BY <3>1, <3>2, <3>3 DEF Inv, LockHeld, Aboard, Held, conn
    <3>6. NothingLeaks'
      BY <3>1, <3>2, <3>3 DEF Inv, NothingLeaks, conn
    <3> QED
      BY <3>1, <3>4, <3>5, <3>6 DEF Inv, AlwaysWatched, conn
  <2>8. ASSUME NEW c \in Conns, WatchMeshConn(c) PROVE Inv'
    <3>1. /\ mu = None /\ cst[c] # "open" /\ UNCHANGED <<mu, cst, pc, on, env>>
          /\ qconn' = (IF qconn = c THEN None ELSE qconn) /\ watch' = watch \ {c}
      BY <2>8 DEF WatchMeshConn, Forget
    <3>2. \A u \in Users : pc[u] \notin Held
      BY <3>1 DEF Inv, LockHeld
    <3>3. Types' /\ AlwaysWatched'
      BY <3>1 DEF Inv, Types, AlwaysWatched, env
    <3>4. LockHeld' /\ Aboard'
      BY <3>1, <3>2 DEF Inv, LockHeld, Aboard, Held
    <3>5. NothingLeaks'
      BY <3>1 DEF Inv, NothingLeaks
    <3> QED
      BY <3>3, <3>4, <3>5 DEF Inv
  <2>9. ASSUME NEW c \in Conns, ConnDies(c) PROVE Inv'
    <3>1. /\ cst' \in [Conns -> {"open", "dead", "closed"}]
          /\ \A d \in Conns : cst'[d] = "open" => cst[d] = "open"
      BY <2>9 DEF ConnDies, Inv, Types
    <3> QED
      BY <2>9, <3>1 DEF ConnDies, Inv, Types, LockHeld, Aboard, NothingLeaks, AlwaysWatched, env
  <2>10. CASE Outside
    <3>1. /\ peered' \in BOOLEAN /\ net' \in {"up", "lossy", "black"}
      BY <2>10 DEF Outside, Inv, Types
    <3>2. UNCHANGED <<mu, conn, pc, on>>
      BY <2>10 DEF Outside
    <3> QED
      BY <3>1, <3>2 DEF Inv, Types, LockHeld, Aboard, NothingLeaks, AlwaysWatched, conn
  <2>11. CASE UNCHANGED vars
    BY <2>11 DEF vars, conn, env, Inv, Types, LockHeld, Aboard, NothingLeaks, AlwaysWatched
  <2> QED
    BY <2>1, <2>2, <2>3, <2>4, <2>5, <2>6, <2>7, <2>8, <2>9, <2>10, <2>11
       DEF Next, UserStep, OpenStream, StreamBreaks
<1> QED
  BY <1>1, <1>2, PTL DEF Spec

-----------------------------------------------------------------------------
(* The invariants one by one, as the runs check them.                      *)

(* Every variable keeps its type, and a handler that pipes has a stream
   (client.openStream, handle, watchMeshConn). *)
THEOREM TypeCorrect == Spec => []TypeOK
<1>1. Inv => TypeOK
  BY DEF Inv, Types, Aboard, TypeOK
<1> QED
  BY <1>1, LockAndConnection, PTL

(* Neither a redial nor a failed open nor a late watcher leaves an open
   connection behind (client.openStream, watchMeshConn). *)
THEOREM NoLeak == Spec => []NothingLeaks
BY LockAndConnection, PTL DEF Inv

(* The death of the cached connection cannot go unnoticed (watchMeshConn). *)
THEOREM Watched == Spec => []AlwaysWatched
BY LockAndConnection, PTL DEF Inv

-----------------------------------------------------------------------------
(* The mesh channel implements SingleConn.                                 *)

Carrying == {c \in Conns : cst[c] = "open" /\ \A u \in Users : pc[u] = "openNew" => on[u] # c}
Ridden == [u \in Users |-> IF pc[u] = "pipe" THEN on[u] ELSE None]

(* What carries streams is the cached connection or nothing. *)
LEMMA CarriesOnlyCurrent ==
  ASSUME Inv
  PROVE  Carrying \subseteq {qconn}
BY DEF Inv, NothingLeaks, Carrying

(* A step of one handler that neither starts nor ends a stream. *)
LEMMA RideKept ==
  ASSUME Inv, NEW u \in Users, NEW p, Go(u, p), pc[u] # "pipe", p # "pipe",
         \A v \in Users \ {u} : on'[v] = on[v]
  PROVE  Ridden' = Ridden
<1>1. ASSUME NEW v \in Users
      PROVE  (IF pc'[v] = "pipe" THEN on'[v] ELSE None) = (IF pc[v] = "pipe" THEN on[v] ELSE None)
  BY DEF Inv, Types, Go
<1> QED
  BY <1>1 DEF Ridden

(* Nothing that streams can see changes. *)
LEMMA Unseen ==
  ASSUME UNCHANGED qconn, Carrying' = Carrying, Ridden' = Ridden
  PROVE  UNCHANGED Channel!vars
BY DEF Channel!vars, Carrying, Ridden

(* Nothing carries streams any more. *)
LEMMA Ends ==
  ASSUME Carrying' = {}, qconn' \in {qconn, None}, Ridden' = Ridden
  PROVE  Channel!Next
BY DEF Channel!Next, Channel!End, Carrying, Ridden

(* Whatever handlers, watchers and the network do, the mesh channel shows its
   streams a single connection, and a dial that does not end in a stream shows
   them nothing (client.openStream, watchMeshConn). *)
THEOREM ImplementsSingleConn == Spec => IsSingleConn
<1>1. Init => Channel!Init
  BY DEF Init, Channel!Init
<1>2. Inv /\ Inv' /\ [Next]_vars => [Channel!Next]_(Channel!vars)
  <2> SUFFICES ASSUME Inv, Inv', [Next]_vars
               PROVE  Channel!Next \/ UNCHANGED Channel!vars
    OBVIOUS
  <2>1. ASSUME NEW u \in Users, Enter(u) PROVE Channel!Next \/ UNCHANGED Channel!vars
    <3>1. PICK p \in {"opening", "redial"} : Go(u, p) /\ pc[u] = "open" /\ UNCHANGED on
      BY <2>1 DEF Enter
    <3>2. Ridden' = Ridden
      BY <3>1, RideKept
    <3>3. CASE CloseCurrent /\ qconn # None /\ Go(u, "redial") /\ mu = None /\ mu' = u /\ UNCHANGED <<watch, on, env>>
      <4>1. Carrying' = {} /\ qconn' = None
        BY <3>1, <3>3, Closes DEF Carrying, CloseCurrent
      <4> QED
        BY <3>2, <4>1, Ends
    <3>4. CASE UNCHANGED <<qconn, cst>>
      <4>1. Carrying' = Carrying
        BY <3>1, <3>4 DEF Carrying, Inv, Types, Go
      <4> QED
        BY <3>2, <3>4, <4>1, Unseen
    <3> QED
      BY <2>1, <3>3, <3>4 DEF Enter
  <2>2. ASSUME NEW u \in Users, OpenOnCached(u) PROVE Channel!Next \/ UNCHANGED Channel!vars
    <3>1. pc[u] = "opening" /\ mu = u /\ qconn \in Conns
      BY <2>2 DEF OpenOnCached, Inv, LockHeld, Held, Types
    <3>2. CASE cst[qconn] = "open" /\ on' = [on EXCEPT ![u] = qconn] /\ Go(u, "pipe") /\ UNCHANGED conn
      <4>1. \A v \in Users : pc[v] # "openNew" /\ pc'[v] # "openNew"
        BY <3>1, <3>2 DEF Inv, LockHeld, Held, Go, Types
      <4>2. Carrying' = Carrying /\ qconn \in Carrying
        BY <3>1, <3>2, <4>1 DEF Carrying, conn
      <4>3. Ridden[u] = None /\ Ridden' = [Ridden EXCEPT ![u] = qconn]
        BY <3>1, <3>2 DEF Ridden, Inv, Types, Go
      <4>4. Channel!Ride(u)
        BY <3>2, <4>2, <4>3 DEF Channel!Ride, Channel!Mounts, Carrying, Ridden, conn
      <4> QED
        BY <4>4 DEF Channel!Next
    <3>3. CASE CloseCurrent /\ Go(u, "redial") /\ UNCHANGED <<mu, watch, on, env>>
      <4>1. Carrying' = {} /\ qconn' = None
        BY <3>1, <3>3, Closes DEF Carrying, CloseCurrent, Inv, Types
      <4> QED
        BY <3>1, <3>3, <4>1, RideKept, Ends
    <3> QED
      BY <2>2, <3>2, <3>3 DEF OpenOnCached
  <2>3. ASSUME NEW u \in Users, Redial(u) \/ GiveUp(u) \/ Accept(u) PROVE UNCHANGED Channel!vars
    <3>1. PICK p \in {"dialing", "failed", "idle", "open"} :
            Go(u, p) /\ pc[u] \notin {"openNew", "pipe"} /\ UNCHANGED <<conn, on>>
      BY <2>3 DEF Redial, GiveUp, Accept, Fail
    <3>2. Carrying' = Carrying
      BY <3>1 DEF Carrying, Inv, Types, Go, conn
    <3> QED
      BY <3>1, <3>2, RideKept, Unseen DEF conn
  <2>4. ASSUME NEW u \in Users, Dial(u) PROVE UNCHANGED Channel!vars
    <3>1. PICK p \in {"openNew", "failed"} : Go(u, p) /\ pc[u] = "dialing"
      BY <2>4 DEF Dial, Fail
    <3>2. qconn = None /\ UNCHANGED qconn
      BY <2>4, <3>1 DEF Dial, Inv, LockHeld
    <3>3. Carrying = {} /\ Carrying' = {}
      <4>1. Carrying \subseteq {qconn} /\ Carrying' \subseteq {qconn'}
        BY CarriesOnlyCurrent DEF Inv, NothingLeaks, Carrying
      <4> QED
        BY <3>2, <4>1 DEF Carrying
    <3>4. Ridden' = Ridden
      BY <2>4, <3>1, RideKept DEF Dial, Inv, Types
    <3> QED
      BY <3>2, <3>3, <3>4, Unseen
  <2>5. ASSUME NEW u \in Users, OpenOnNew(u) PROVE Channel!Next \/ UNCHANGED Channel!vars
    <3>1. pc[u] = "openNew" /\ qconn = None /\ on[u] \in Conns /\ mu = u
      BY <2>5 DEF OpenOnNew, Inv, LockHeld, Aboard, Types, Held
    <3>2. Carrying = {}
      BY <3>1, CarriesOnlyCurrent DEF Carrying
    <3>3. CASE cst[on[u]] = "open" /\ qconn' = on[u] /\ Go(u, "pipe") /\ UNCHANGED <<cst, on>>
      <4>1. \A v \in Users : pc'[v] # "openNew"
        BY <3>1, <3>3 DEF Inv, LockHeld, Held, Go, Types
      <4>2. Carrying' = {on[u]}
        <5>1. Carrying' \subseteq {qconn'}
          BY DEF Inv, NothingLeaks, Carrying
        <5>2. on[u] \in Carrying'
          BY <3>1, <3>3, <4>1 DEF Carrying
        <5> QED
          BY <3>3, <5>1, <5>2
      <4>3. Ridden[u] = None /\ Ridden' = [Ridden EXCEPT ![u] = on[u]]
        BY <3>1, <3>3 DEF Ridden, Inv, Types, Go
      <4>4. PICK c \in Conns : c = on[u]
        BY <3>1
      <4>5. Channel!Install(c)
        BY <3>1, <3>2, <3>3, <4>2, <4>3, <4>4 DEF Channel!Install, Channel!Mounts, Carrying, Ridden
      <4> QED
        BY <4>5 DEF Channel!Next
    <3>4. CASE Close(on[u]) /\ on' = [on EXCEPT ![u] = None] /\ Go(u, "failed") /\ UNCHANGED qconn
      <4>1. Ridden' = Ridden
        BY <3>1, <3>4, RideKept DEF Inv, Types
      <4>2. Carrying' = {}
        <5>1. Carrying' \subseteq {qconn'}
          BY DEF Inv, NothingLeaks, Carrying
        <5> QED
          BY <3>1, <3>4, <5>1 DEF Carrying
      <4> QED
        BY <3>2, <3>4, <4>1, <4>2, Unseen
    <3> QED
      BY <2>5, <3>3, <3>4 DEF OpenOnNew, FailNew, Fail
  <2>6. ASSUME NEW u \in Users, EndPipe(u) PROVE Channel!Next
    <3>1. Ridden' = [Ridden EXCEPT ![u] = None]
      BY <2>6 DEF EndPipe, Ridden, Inv, Types, Go
    <3>2. Carrying' = Carrying
      BY <2>6 DEF EndPipe, Carrying, Inv, Types, Go, conn
    <3>3. Channel!Leave(u)
      BY <2>6, <3>1, <3>2 DEF EndPipe, Channel!Leave, Carrying, Ridden, conn
    <3> QED
      BY <3>3 DEF Channel!Next
  <2>7. ASSUME NEW c \in Conns, WatchMeshConn(c) PROVE Channel!Next \/ UNCHANGED Channel!vars
    <3>1. /\ cst[c] # "open" /\ UNCHANGED <<cst, pc, on>>
          /\ qconn' = (IF qconn = c THEN None ELSE qconn)
      BY <2>7 DEF WatchMeshConn, Forget
    <3>2. Ridden' = Ridden /\ Carrying' = Carrying
      BY <3>1 DEF Ridden, Carrying
    <3>3. CASE qconn = c
      <4>1. Channel!Forget
        BY <3>1, <3>2, <3>3 DEF Channel!Forget, Carrying, Ridden
      <4> QED
        BY <4>1 DEF Channel!Next
    <3>4. CASE qconn # c
      BY <3>1, <3>2, <3>4, Unseen
    <3> QED
      BY <3>3, <3>4
  <2>8. ASSUME NEW c \in Conns, ConnDies(c) PROVE Channel!Next
    <3>1. UNCHANGED <<pc, on, qconn>> /\ Carrying' = {}
      BY <2>8 DEF ConnDies, Carrying, Inv, NothingLeaks, LockHeld, Types
    <3> QED
      BY <3>1, Ends DEF Ridden
  <2>9. CASE Outside \/ UNCHANGED vars
    <3>1. UNCHANGED <<qconn, cst, pc, on>>
      BY <2>9 DEF Outside, vars, conn
    <3> QED
      BY <3>1, Unseen DEF Ridden, Carrying
  <2> QED
    BY <2>1, <2>2, <2>3, <2>4, <2>5, <2>6, <2>7, <2>8, <2>9
       DEF Next, UserStep, OpenStream, StreamBreaks
<1> QED
  BY <1>1, <1>2, LockAndConnection, PTL DEF Spec, IsSingleConn, Channel!Spec
=============================================================================
