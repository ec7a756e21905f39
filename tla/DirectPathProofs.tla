-------------------------- MODULE DirectPathProofs --------------------------
(***************************************************************************)
(* Machine-checked proofs about DirectPath, for any set of users, any set  *)
(* of connections and any streak limit.                                    *)
(***************************************************************************)
EXTENDS DirectPath, TLAPS

USE IdsAssumption, LimitAssumption, NetsAssumption DEF Callers

ConnTypes == /\ qconn \in Conns \cup {None} /\ tr \in Conns \cup {None}
             /\ cst \in [Conns -> {"open", "dead", "closed"}]
             /\ sock \subseteq Conns

(* Dropping the connection keeps the types of what describes it. *)
LEMMA DropTypes == ASSUME ConnTypes, DropConnLocked PROVE ConnTypes'
BY DEF ConnTypes, DropConnLocked

(* Every variable keeps its type (all handlers of direct.go and the direct
   half of client.openStream). *)
THEOREM TypeCorrect == Spec => []TypeOK
<1>1. Init => TypeOK
  <2> SUFFICES ASSUME Init PROVE TypeOK
    OBVIOUS
  <2>1. pc \in [Callers -> Pcs]
    BY DEF Init, Pcs, UserPcs, ProberPcs
  <2>2. failStreak \in 0..Limit
    BY DEF Init
  <2> QED
    BY <2>1, <2>2 DEF Init, TypeOK, PathStates
<1>2. TypeOK /\ [Next]_vars => TypeOK'
  <2> SUFFICES ASSUME TypeOK, [Next]_vars PROVE TypeOK'
    OBVIOUS
  <2> USE DEF TypeOK, PathStates, Go, conn, probe, env
  <2>1. ASSUME NEW x \in Callers, OpenEnter(x)
        PROVE  TypeOK'
    <3>1. pc' \in [Callers -> Pcs]
      BY <2>1 DEF OpenEnter, DropConnLocked, Pcs, UserPcs, ProberPcs
    <3> QED
      BY <2>1, <3>1 DEF OpenEnter, DropConnLocked
  <2>2. ASSUME NEW x \in Callers, OpenOnCached(x)
        PROVE  TypeOK'
    <3>1. pc' \in [Callers -> Pcs]
      BY <2>2 DEF OpenOnCached, DropConnLocked, GotStream, Unlock, DiedMeanwhile, ConnAlive, Pcs, UserPcs, ProberPcs
    <3> QED
      BY <2>2, <3>1 DEF OpenOnCached, DropConnLocked, GotStream, Unlock, DiedMeanwhile, ConnAlive
  <2>3. ASSUME NEW x \in Callers, Dial(x)
        PROVE  TypeOK'
    <3>1. pc' \in [Callers -> Pcs]
      BY <2>3 DEF Dial, Unlock, StartWatcher, Pcs, UserPcs, ProberPcs
    <3>2. /\ ConnTypes' /\ watch' \in [Conns -> {"none", "wait", "mark", "show"}]
          /\ on' \in [Callers -> Conns \cup {None}]
      BY <2>3 DEF Dial, StartWatcher, ConnTypes
    <3> QED
      BY <2>3, <3>1, <3>2 DEF Dial, Unlock, ConnTypes
  <2>4. ASSUME NEW x \in Callers, OpenOnNew(x)
        PROVE  TypeOK'
    <3>1. pc' \in [Callers -> Pcs]
      BY <2>4 DEF OpenOnNew, GotStream, Pcs, UserPcs, ProberPcs
    <3> QED
      BY <2>4, <3>1 DEF OpenOnNew, GotStream
  <2>5. ASSUME NEW x \in Callers, MarkFailed(x) \/ ShowFallback(x)
        PROVE  TypeOK'
    <3>1. pc' \in [Callers -> Pcs]
      BY <2>5 DEF MarkFailed, ShowFallback, Pcs, UserPcs, ProberPcs
    <3>2. CASE MarkFailed(x)
      <4>1. verified' \in BOOLEAN /\ UNCHANGED <<mu, conn, cooling, probeState, on, probe, env>>
        BY <3>2 DEF MarkFailed
      <4> QED
        BY <3>1, <4>1
    <3>3. CASE ShowFallback(x)
      <4>1. /\ probeState' \in PathStates
            /\ UNCHANGED <<mu, conn, cooling, verified, on, probe, env>>
        BY <3>3 DEF ShowFallback
      <4> QED
        BY <3>1, <4>1
    <3> QED
      BY <2>5, <3>2, <3>3
  <2>6. ASSUME NEW u \in Users,
               CheckVerified(u) \/ UserRecheck(u) \/ UseMesh(u) \/ Accept(u)
        PROVE  TypeOK'
    <3>1. pc' \in [Callers -> Pcs]
      BY <2>6 DEF CheckVerified, UserRecheck, UseMesh, Accept, Pcs, UserPcs, ProberPcs
    <3>2. CASE CheckVerified(u)
      <4>1. UNCHANGED <<mu, conn, cooling, verified, probeState, on, probe, env>>
        BY <3>2 DEF CheckVerified
      <4> QED
        BY <3>1, <4>1
    <3>3. CASE UserRecheck(u)
      <4>1. UNCHANGED <<mu, conn, cooling, verified, probeState, on, probe, env>>
        BY <3>3 DEF UserRecheck
      <4> QED
        BY <3>1, <4>1
    <3>4. CASE UseMesh(u)
      <4>1. UNCHANGED <<mu, conn, cooling, verified, probeState, on, probe, env>>
        BY <3>4 DEF UseMesh
      <4> QED
        BY <3>1, <4>1
    <3>5. CASE Accept(u)
      <4>1. idle' \in BOOLEAN /\ UNCHANGED <<mu, conn, cooling, verified, probeState, on, probe, net, meshUp>>
        BY <3>5 DEF Accept
      <4> QED
        BY <3>1, <4>1
    <3> QED
      BY <2>6, <3>2, <3>3, <3>4, <3>5
  <2>7. ASSUME NEW u \in Users, EndPipe(u)
        PROVE  TypeOK'
    <3>1. pc' \in [Callers -> Pcs]
      BY <2>7 DEF EndPipe, Pcs, UserPcs, ProberPcs
    <3> QED
      BY <2>7, <3>1 DEF EndPipe
  <2>8. ASSUME NEW t \in {"oneshot", "fast", "slow"}, Tick(t)
        PROVE  TypeOK'
    <3>1. pc' \in [Callers -> Pcs]
      BY <2>8 DEF Tick, Pcs, UserPcs, ProberPcs
    <3> QED
      BY <2>8, <3>1 DEF Tick
  <2>9. CASE IdleDrop \/ Look \/ SyncDisplay \/ RoundTrip
    <3>1. pc' \in [Callers -> Pcs]
      BY <2>9 DEF IdleDrop, Look, SyncDisplay, RoundTrip, Pcs, UserPcs, ProberPcs
    <3>2. CASE IdleDrop
      <4>1. /\ verified' \in BOOLEAN /\ probeState' \in PathStates
            /\ UNCHANGED <<mu, conn, cooling, on, probe, env>>
        BY <3>2 DEF IdleDrop
      <4> QED
        BY <3>1, <4>1
    <3>3. CASE Look
      <4>1. /\ wasVerified' \in BOOLEAN
            /\ UNCHANGED <<mu, conn, cooling, verified, probeState, on, failStreak, armed, baseline, env>>
        BY <3>3 DEF Look
      <4> QED
        BY <3>1, <4>1
    <3>4. CASE SyncDisplay
      BY <3>1, <3>4 DEF SyncDisplay, ShowProbing
    <3>5. CASE RoundTrip
      BY <3>1, <3>5 DEF RoundTrip
    <3> QED
      BY <2>9, <3>2, <3>3, <3>4, <3>5
  <2>10. CASE ProberRecheck
    <3>1. pc' \in [Callers -> Pcs]
      BY <2>10 DEF ProberRecheck, NextStreak, Degraded, Pcs, UserPcs, ProberPcs
    <3>2. failStreak' \in 0..Limit
      BY <2>10 DEF ProberRecheck, NextStreak
    <3>3. armed' \subseteq {"oneshot", "fast", "slow"}
      BY <2>10 DEF ProberRecheck
    <3> QED
      BY <2>10, <3>1, <3>2, <3>3 DEF ProberRecheck
  <2>11. CASE Health
    <3>1. pc' \in [Callers -> Pcs]
      BY <2>11 DEF Health, Pcs, UserPcs, ProberPcs
    <3>2. failStreak' \in 0..Limit
      BY <2>11 DEF Health
    <3> QED
      BY <2>11, <3>1, <3>2 DEF Health
  <2>12. CASE MarkVerified \/ Advertise
    <3>1. pc' \in [Callers -> Pcs]
      BY <2>12 DEF MarkVerified, Advertise, Pcs, UserPcs, ProberPcs
    <3>2. CASE MarkVerified
      BY <3>1, <3>2 DEF MarkVerified
    <3>3. CASE Advertise
      BY <3>1, <3>3 DEF Advertise, SlowOnly
    <3> QED
      BY <2>12, <3>2, <3>3
  <2>13. CASE DropAndFail
    <3>1. pc' \in [Callers -> Pcs]
      BY <2>13 DEF DropAndFail, DropConnLocked, Pcs, UserPcs, ProberPcs
    <3>2. ConnTypes'
      BY <2>13, DropTypes DEF DropAndFail, ConnTypes
    <3>3. cooling' \in BOOLEAN
      BY <2>13 DEF DropAndFail
    <3> QED
      BY <2>13, <3>1, <3>2, <3>3 DEF DropAndFail, ConnTypes
  <2>14. ASSUME NEW c \in Conns, WatcherStep(c) PROVE TypeOK'
    <3>1. CASE WatcherWakes(c)
      <4>1. ConnTypes'
        BY <3>1, DropTypes DEF WatcherWakes, ConnTypes
      <4>2. watch' \in [Conns -> {"none", "wait", "mark", "show"}]
        BY <3>1 DEF WatcherWakes
      <4>3. cooling' \in BOOLEAN
        BY <3>1 DEF WatcherWakes
      <4> QED
        BY <3>1, <4>1, <4>2, <4>3 DEF WatcherWakes, ConnTypes
    <3>2. CASE WatcherMarks(c)
      <4>1. watch' \in [Conns -> {"none", "wait", "mark", "show"}]
        BY <3>2 DEF WatcherMarks
      <4>2. /\ verified' \in BOOLEAN /\ probeState' \in PathStates
            /\ UNCHANGED <<mu, qconn, tr, cst, sock, cooling, pc, on, probe, env>>
        BY <3>2 DEF WatcherMarks
      <4> QED
        BY <4>1, <4>2
    <3> QED
      BY <2>14, <3>1, <3>2 DEF WatcherStep
  <2>15. ASSUME NEW c \in Conns, ConnDies(c) PROVE TypeOK'
    <3>1. cst' \in [Conns -> {"open", "dead", "closed"}]
      BY <2>15 DEF ConnDies
    <3>2. UNCHANGED <<mu, qconn, tr, sock, watch, cooling, verified, probeState, pc, on, probe, env>>
      BY <2>15 DEF ConnDies
    <3> QED
      BY <3>1, <3>2
  <2>16. CASE Expire \/ CooledDown \/ Outside
    <3>1. CASE Expire
      <4>1. verified' \in BOOLEAN /\ UNCHANGED <<mu, conn, cooling, probeState, pc, on, probe, env>>
        BY <3>1 DEF Expire
      <4> QED
        BY <4>1
    <3>2. CASE CooledDown
      <4>1. cooling' \in BOOLEAN /\ UNCHANGED <<mu, conn, verified, probeState, pc, on, probe, env>>
        BY <3>2 DEF CooledDown
      <4> QED
        BY <4>1
    <3>3. CASE Outside
      <4>1. net' \in Nets /\ meshUp' \in BOOLEAN /\ idle' \in BOOLEAN
        BY <3>3 DEF Outside
      <4>2. UNCHANGED <<mu, conn, cooling, verified, probeState, pc, on, probe>>
        BY <3>3 DEF Outside
      <4> QED
        BY <4>1, <4>2
    <3> QED
      BY <2>16, <3>1, <3>2, <3>3
  <2>17. CASE UNCHANGED vars
    BY <2>17 DEF vars
  <2> QED
    BY <2>1, <2>2, <2>3, <2>4, <2>5, <2>6, <2>7, <2>8, <2>9, <2>10, <2>11, <2>12,
       <2>13, <2>14, <2>15, <2>16, <2>17
       DEF Next, UserStep, ProberStep, OpenStream, StreamBreaks
<1> QED
  BY <1>1, <1>2, PTL DEF Spec

-----------------------------------------------------------------------------
(* The connection, its lock and its watcher.                               *)
(*                                                                         *)
(* The three invariants are inductive together, under TypeOK: a dial may   *)
(* install a connection because its caller holds d.mu since the previous   *)
(* one was dropped (LockDiscipline), so none is left open (NothingLeaks)   *)
(* and the new one is the only one that needs a watcher (AlwaysWatched).   *)

Inv == LockDiscipline /\ NothingLeaks /\ AlwaysWatched

Locked == {"opening", "dialing"}

(* A step that leaves the connection and d.mu alone, and takes a caller from
   one place where d.mu is not held to another. *)
LEMMA QuietStep ==
  ASSUME TypeOK, Inv, UNCHANGED <<mu, conn>>, NEW x \in Callers, NEW p, Go(x, p),
         pc[x] \notin Locked, p \notin Locked
  PROVE  Inv'
<1>1. pc' \in [Callers -> Pcs \cup {p}] /\ \A y \in Callers : pc'[y] = IF y = x THEN p ELSE pc[y]
  BY DEF TypeOK, Go
<1>2. LockDiscipline'
  BY <1>1 DEF Inv, LockDiscipline, conn, Locked
<1> QED
  BY <1>2 DEF Inv, NothingLeaks, AlwaysWatched, conn

(* Dropping the connection while nobody opens or dials. *)
LEMMA DropLeavesNothing ==
  ASSUME TypeOK, Inv, DropConnLocked
  PROVE  NothingLeaks' /\ qconn' = None /\ AlwaysWatched'
BY DEF TypeOK, Inv, NothingLeaks, AlwaysWatched, DropConnLocked

(* The inductive invariant: who holds d.mu, and that every connection that is open
   is the cached one or in the hands of its dialler (openStream, watchConn). *)
THEOREM LockAndConnection == Spec => []Inv
<1>1. Init => Inv
  <2> SUFFICES ASSUME Init PROVE Inv
    OBVIOUS
  <2>1. \A x \in Callers : pc[x] \in {"select", "idle"} /\ mu # x
    BY DEF Init
  <2>2. \A c \in Conns : cst[c] # "open"
    BY DEF Init
  <2> QED
    BY <2>1, <2>2 DEF Init, Inv, LockDiscipline, NothingLeaks, AlwaysWatched
<1>2. TypeOK /\ Inv /\ [Next]_vars => Inv'
  <2> SUFFICES ASSUME TypeOK, Inv, [Next]_vars PROVE Inv'
    OBVIOUS
  <2>1. ASSUME NEW x \in Callers, OpenEnter(x) PROVE Inv'
    <3>1. CASE cooling
      <4>1. PICK p \in {"select", "recheck"} : Go(x, p) /\ UNCHANGED <<mu, conn>>
        BY <2>1, <3>1 DEF OpenEnter
      <4> QED
        BY <4>1, <2>1, QuietStep DEF Locked, OpenEnter
    <3>2. CASE ~cooling /\ ConnAlive
      <4>1. mu = None /\ mu' = x /\ Go(x, "opening") /\ UNCHANGED conn
        BY <2>1, <3>2 DEF OpenEnter
      <4>2. LockDiscipline'
        BY <4>1 DEF Inv, LockDiscipline, TypeOK, Go, conn
      <4> QED
        BY <4>1, <4>2 DEF Inv, NothingLeaks, AlwaysWatched, conn
    <3>3. CASE ~cooling /\ ~ConnAlive
      <4>1. mu = None /\ mu' = x /\ Go(x, "dialing") /\ DropConnLocked
        BY <2>1, <3>3 DEF OpenEnter
      <4>2. NothingLeaks' /\ qconn' = None /\ AlwaysWatched'
        BY <4>1, DropLeavesNothing
      <4>3. LockDiscipline'
        BY <4>1, <4>2 DEF Inv, LockDiscipline, TypeOK, Go
      <4> QED
        BY <4>2, <4>3 DEF Inv
    <3> QED
      BY <3>1, <3>2, <3>3
  <2>2. ASSUME NEW x \in Callers, OpenOnCached(x) PROVE Inv'
    <3>1. mu = x /\ pc[x] = "opening"
      BY <2>2 DEF OpenOnCached, Inv, LockDiscipline
    <3>2. CASE UNCHANGED conn /\ mu' = None
      <4>1. PICK p \in {"trip", "pipe", "recheck"} : Go(x, p)
        BY <2>2, <3>1, <3>2 DEF OpenOnCached, GotStream
      <4>2. LockDiscipline'
        BY <3>1, <3>2, <4>1 DEF Inv, LockDiscipline, TypeOK, Go, conn
      <4> QED
        BY <3>2, <4>2 DEF Inv, NothingLeaks, AlwaysWatched, conn
    <3>3. CASE DropConnLocked /\ Go(x, "dialing") /\ UNCHANGED mu
      <4>1. NothingLeaks' /\ qconn' = None /\ AlwaysWatched'
        BY <3>3, DropLeavesNothing
      <4>2. LockDiscipline'
        BY <3>1, <3>3, <4>1 DEF Inv, LockDiscipline, TypeOK, Go
      <4> QED
        BY <4>1, <4>2 DEF Inv
    <3> QED
      BY <2>2, <3>2, <3>3 DEF OpenOnCached, Unlock
  <2>3. ASSUME NEW x \in Callers, Dial(x) PROVE Inv'
    <3>1. mu = x /\ pc[x] = "dialing" /\ qconn = None /\ mu' = None
      BY <2>3 DEF Dial, Unlock, Inv, LockDiscipline
    <3>2. PICK p \in {"openNew", "dialMark"} : Go(x, p)
      BY <2>3 DEF Dial
    <3>3. LockDiscipline'
      BY <3>1, <3>2 DEF Inv, LockDiscipline, TypeOK, Go
    <3>4. CASE UNCHANGED conn
      BY <3>3, <3>4 DEF Inv, NothingLeaks, AlwaysWatched, conn
    <3>5. ASSUME NEW c \in Conns,
                 qconn' = c, tr' = c, sock' = sock \cup {c},
                 cst' = [cst EXCEPT ![c] = "open"], StartWatcher(c)
          PROVE  NothingLeaks' /\ AlwaysWatched'
      <4>1. sock = {} /\ \A d \in Conns : cst[d] # "open"
        BY <3>1 DEF Inv, NothingLeaks, TypeOK
      <4>2. NothingLeaks'
        BY <3>5, <4>1 DEF NothingLeaks, TypeOK
      <4>3. AlwaysWatched'
        BY <3>5 DEF AlwaysWatched, StartWatcher, TypeOK
      <4> QED
        BY <4>2, <4>3
    <3> QED
      BY <2>3, <3>3, <3>4, <3>5 DEF Dial, Inv
  <2>4. ASSUME NEW x \in Callers,
               OpenOnNew(x) \/ MarkFailed(x) \/ ShowFallback(x)
        PROVE  Inv'
    <3>1. PICK p \in {"trip", "pipe", "recheck", "show", "dialShow", "select", "mesh"} :
             Go(x, p) /\ UNCHANGED <<mu, conn>> /\ pc[x] \notin Locked
      BY <2>4 DEF OpenOnNew, MarkFailed, ShowFallback, GotStream, Locked
    <3> QED
      BY <3>1, QuietStep DEF Locked
  <2>5. ASSUME NEW u \in Users,
               CheckVerified(u) \/ UserRecheck(u) \/ UseMesh(u) \/ Accept(u) \/ EndPipe(u)
        PROVE  Inv'
    <3>1. PICK p \in {"idle", "check", "open", "mesh", "mark", "pipe"} :
             Go(u, p) /\ UNCHANGED <<mu, conn>> /\ pc[u] \notin Locked
      BY <2>5 DEF CheckVerified, UserRecheck, UseMesh, Accept, EndPipe, Locked
    <3> QED
      BY <3>1, QuietStep DEF Locked
  <2>6. ASSUME \/ \E t \in {"oneshot", "fast", "slow"} : Tick(t)
               \/ IdleDrop \/ Look \/ SyncDisplay \/ RoundTrip \/ ProberRecheck
               \/ Health \/ MarkVerified \/ Advertise
        PROVE  Inv'
    <3>1. PICK p \in ProberPcs \cup {"open", "recheck"} :
             Go(Prober, p) /\ UNCHANGED <<mu, conn>> /\ pc[Prober] \notin Locked
      BY <2>6 DEF Tick, IdleDrop, Look, SyncDisplay, RoundTrip, ProberRecheck, Health,
                  MarkVerified, Advertise, Locked, ProberPcs
    <3> QED
      BY <3>1, QuietStep DEF Locked, ProberPcs
  <2>7. CASE DropAndFail
    <3>1. NothingLeaks' /\ qconn' = None /\ AlwaysWatched'
      BY <2>7, DropLeavesNothing DEF DropAndFail
    <3>2. LockDiscipline'
      BY <2>7, <3>1 DEF DropAndFail, Inv, LockDiscipline, TypeOK, Go
    <3> QED
      BY <3>1, <3>2 DEF Inv
  <2>8. ASSUME NEW c \in Conns, WatcherWakes(c) PROVE Inv'
    <3>1. CASE qconn = c
      <4>1. NothingLeaks' /\ qconn' = None /\ AlwaysWatched'
        BY <2>8, <3>1, DropLeavesNothing DEF WatcherWakes
      <4>2. LockDiscipline'
        BY <2>8, <4>1 DEF WatcherWakes, Inv, LockDiscipline, TypeOK
      <4> QED
        BY <4>1, <4>2 DEF Inv
    <3>2. CASE qconn # c
      BY <2>8, <3>2 DEF WatcherWakes, Inv, LockDiscipline, NothingLeaks, AlwaysWatched, TypeOK
    <3> QED
      BY <3>1, <3>2
  <2>9. ASSUME NEW c \in Conns, WatcherMarks(c) PROVE Inv'
    BY <2>9 DEF WatcherMarks, Inv, LockDiscipline, NothingLeaks, AlwaysWatched, TypeOK
  <2>10. ASSUME NEW c \in Conns, ConnDies(c) PROVE Inv'
    BY <2>10 DEF ConnDies, Inv, LockDiscipline, NothingLeaks, AlwaysWatched, TypeOK
  <2>11. CASE Expire \/ CooledDown \/ Outside \/ UNCHANGED vars
    BY <2>11 DEF Expire, CooledDown, Outside, vars, conn, Inv, LockDiscipline,
                 NothingLeaks, AlwaysWatched
  <2> QED
    BY <2>1, <2>2, <2>3, <2>4, <2>5, <2>6, <2>7, <2>8, <2>9, <2>10, <2>11
       DEF Next, UserStep, ProberStep, WatcherStep, OpenStream, StreamBreaks
<1> QED
  BY <1>1, <1>2, TypeCorrect, PTL DEF Spec

-----------------------------------------------------------------------------
(* The invariants one by one, as the runs check them.                      *)

(* d.mu is held exactly by the caller that opens on the cached connection or
   dials (openStream). *)
THEOREM LockHolds == Spec => []LockDiscipline
BY LockAndConnection, PTL DEF Inv

(* No redial, drop or cutover leaves an open connection or socket behind
   (dropConnLocked, openStream). *)
THEOREM NoLeak == Spec => []NothingLeaks
BY LockAndConnection, PTL DEF Inv

(* The death of the current connection cannot go unnoticed (watchConn). *)
THEOREM Watched == Spec => []AlwaysWatched
BY LockAndConnection, PTL DEF Inv

-----------------------------------------------------------------------------
(* Users and watchers redial and drop, but only after they saw, with d.mu
   held, that the connection is dead: none of their steps closes one that is
   open (openStream, watchConn against dropAndFail). *)
THEOREM KillsOnlyByProber == Spec => OnlyProberKills
<1> DEFINE Kill == \E c \in Conns : cst[c] = "open" /\ cst'[c] = "closed"
           ByProber == pc[Prober] \in {"drop", "dropGone"} /\ pc'[Prober] = "mark"
<1>1. TypeOK /\ [Next]_vars /\ Kill => ByProber
  <2> SUFFICES ASSUME TypeOK, [Next]_vars, NEW c \in Conns, cst[c] = "open", cst'[c] = "closed"
               PROVE  ByProber
    OBVIOUS
  <2>1. cst' # cst
    OBVIOUS
  <2>2. ~ConnAlive /\ DropConnLocked => FALSE
    BY DEF ConnAlive, DropConnLocked
  <2>3. ASSUME NEW x \in Callers, OpenStream(x) PROVE FALSE
    <3>1. ~OpenEnter(x)
      BY <2>1, <2>2 DEF OpenEnter, conn
    <3>2. ~OpenOnCached(x)
      BY <2>1, <2>2 DEF OpenOnCached, DiedMeanwhile, conn
    <3>3. ~Dial(x)
      BY <2>1 DEF Dial, conn, TypeOK
    <3>4. ~OpenOnNew(x)
      BY <2>1 DEF OpenOnNew, conn
    <3> QED
      BY <2>3, <3>1, <3>2, <3>3, <3>4 DEF OpenStream
  <2>4. ASSUME NEW d \in Conns, WatcherStep(d) PROVE FALSE
    <3>1. ~WatcherWakes(d)
      BY <2>1, <2>2 DEF WatcherWakes, ConnAlive
    <3> QED
      BY <2>1, <2>4, <3>1 DEF WatcherStep, WatcherMarks
  <2>5. ASSUME NEW d \in Conns, ConnDies(d) PROVE FALSE
    BY <2>5 DEF ConnDies, TypeOK
  <2>6. CASE DropAndFail
    BY <2>6 DEF DropAndFail, Go, TypeOK
  <2>7. CASE UNCHANGED cst
    BY <2>1, <2>7
  <2>8. ASSUME NEW u \in Users, Accept(u) \/ EndPipe(u) PROVE FALSE
    BY <2>1, <2>8 DEF Accept, EndPipe, conn
  <2>9. ASSUME NEW u \in Users, UserStep(u) PROVE FALSE
    BY <2>1, <2>3, <2>8, <2>9
       DEF UserStep, MarkFailed, ShowFallback, CheckVerified, UserRecheck, UseMesh,
           StreamBreaks, conn
  <2>10. ASSUME ProberStep, ~DropAndFail PROVE FALSE
    BY <2>1, <2>3, <2>10
       DEF ProberStep, MarkFailed, ShowFallback, Tick, IdleDrop, Look, SyncDisplay,
           RoundTrip, ProberRecheck, Health, MarkVerified, Advertise, conn
  <2>11. Expire \/ CooledDown \/ Outside \/ UNCHANGED vars => UNCHANGED cst
    BY DEF Expire, CooledDown, Outside, vars, conn
  <2> QED
    BY <2>4, <2>5, <2>6, <2>7, <2>8, <2>9, <2>10, <2>11 DEF Next
<1>2. TypeOK /\ [Next]_vars =>
        [\A c \in Conns : cst[c] = "open" /\ cst'[c] = "closed" => ByProber]_vars
  BY <1>1
<1> QED
  BY <1>2, TypeCorrect, PTL DEF Spec, OnlyProberKills

-----------------------------------------------------------------------------
(* The path state that is shown beneath IsVerified().                      *)

Probing == {"open", "opening", "dialing", "openNew", "dialMark", "dialShow", "trip",
            "recheck", "health"}

(* A step of the prober that goes on with a probe, or ends it, and shows nothing
   new keeps the display in step. *)
LEMMA DisplayKept ==
  ASSUME TypeOK, DisplaySynced, NEW p, Go(Prober, p), p \in Probing => pc[Prober] \in Probing,
         p \in Probing => UNCHANGED wasVerified,
         probeState' \in {probeState, "fallback", "probing"}
  PROVE  DisplaySynced'
<1>1. pc'[Prober] = p
  BY DEF TypeOK, Go
<1> QED
  BY <1>1 DEF DisplaySynced, Probing

(* Users, watchers and the prober set the display with no lock between them, but
   only the prober, done with a probe, ever shows the path as verified
   (client.PathState, startProber). *)
THEOREM DisplayInStep == Spec => []DisplaySynced
<1>1. Init => DisplaySynced
  BY DEF Init, DisplaySynced
<1>2. TypeOK /\ DisplaySynced /\ [Next]_vars => DisplaySynced'
  <2> SUFFICES ASSUME TypeOK, DisplaySynced, [Next]_vars PROVE DisplaySynced'
    OBVIOUS
  <2>1. ASSUME NEW u \in Users, NEW p, Go(u, p), UNCHANGED wasVerified,
               probeState' \in {probeState, "fallback"}
        PROVE  DisplaySynced'
    <3>1. pc'[Prober] = pc[Prober]
      BY <2>1 DEF TypeOK, Go
    <3> QED
      BY <2>1, <3>1 DEF DisplaySynced
  <2>2. ASSUME NEW x \in Callers, OpenStream(x) PROVE DisplaySynced'
    <3>1. PICK p \in {"select", "recheck", "opening", "dialing", "trip", "pipe", "openNew", "dialMark"} :
             Go(x, p) /\ pc[x] \in Probing /\ UNCHANGED <<wasVerified, probeState>>
      BY <2>2 DEF OpenStream, OpenEnter, OpenOnCached, Dial, OpenOnNew, GotStream, probe, Probing
    <3> QED
      BY <2>1, <3>1, DisplayKept
  <2>3. ASSUME NEW x \in Callers, MarkFailed(x) \/ ShowFallback(x) PROVE DisplaySynced'
    <3>1. PICK p \in {"show", "dialShow", "select", "mesh", "recheck"} :
             /\ Go(x, p) /\ UNCHANGED wasVerified
             /\ p \in Probing => pc[x] \in Probing
             /\ probeState' \in {probeState, "fallback"}
      BY <2>3 DEF MarkFailed, ShowFallback, probe, Probing
    <3> QED
      BY <2>1, <3>1, DisplayKept
  <2>4. ASSUME NEW u \in Users,
               CheckVerified(u) \/ UserRecheck(u) \/ UseMesh(u) \/ Accept(u) \/ EndPipe(u)
        PROVE  DisplaySynced'
    <3>1. PICK p \in {"idle", "check", "open", "mesh", "mark", "pipe"} :
             Go(u, p) /\ UNCHANGED <<wasVerified, probeState>>
      BY <2>4 DEF CheckVerified, UserRecheck, UseMesh, Accept, EndPipe, probe
    <3> QED
      BY <2>1, <3>1
  <2>5. ASSUME \/ \E t \in {"oneshot", "fast", "slow"} : Tick(t)
               \/ IdleDrop \/ RoundTrip \/ ProberRecheck \/ Health
               \/ MarkVerified \/ DropAndFail
        PROVE  DisplaySynced'
    <3>1. PICK p \in ProberPcs \cup {"recheck", "mark"} :
             /\ Go(Prober, p) /\ probeState' \in {probeState, "fallback", "probing"}
             /\ p \in Probing => pc[Prober] \in Probing /\ UNCHANGED wasVerified
      BY <2>5 DEF Tick, IdleDrop, RoundTrip, ProberRecheck, Health, MarkVerified, DropAndFail,
                  ProberPcs, Probing, probe
    <3> QED
      BY <3>1, DisplayKept
  <2>6. CASE Look
    BY <2>6 DEF Look, DisplaySynced, TypeOK, Go
  <2>7. CASE SyncDisplay
    BY <2>7 DEF SyncDisplay, ShowProbing, DisplaySynced
  <2>8. CASE Advertise
    BY <2>8 DEF Advertise, DisplaySynced, TypeOK, Go
  <2>9. ASSUME \/ \E c \in Conns : WatcherStep(c) \/ ConnDies(c)
               \/ Expire \/ CooledDown \/ Outside \/ UNCHANGED vars
        PROVE  DisplaySynced'
    <3>1. UNCHANGED <<pc, wasVerified>> /\ probeState' \in {probeState, "fallback"}
      BY <2>9 DEF WatcherStep, WatcherWakes, WatcherMarks, ConnDies, Expire, CooledDown,
                  Outside, vars, probe
    <3> QED
      BY <3>1 DEF DisplaySynced
  <2> QED
    BY <2>2, <2>3, <2>4, <2>5, <2>6, <2>7, <2>8, <2>9
       DEF Next, UserStep, ProberStep, StreamBreaks
<1> QED
  BY <1>1, <1>2, TypeCorrect, PTL DEF Spec

-----------------------------------------------------------------------------
(* The direct path implements SingleConn.                                  *)

(* A caller that opens on a connection it has just dialled has one; a user
   elsewhere than in openNew and pipe has none. *)
Aboard == /\ \A x \in Callers : pc[x] = "openNew" => on[x] \in Conns
          /\ \A u \in Users : pc[u] \notin {"openNew", "pipe"} => on[u] = None

(* Each caller sets its own connection, and only where it takes or gives up a
   stream (openStream, handle). *)
LEMMA AboardHolds == Spec => []Aboard
<1>1. Init => Aboard
  BY DEF Init, Aboard
<1>2. TypeOK /\ Aboard /\ [Next]_vars => Aboard'
  <2> SUFFICES ASSUME TypeOK, Aboard, [Next]_vars PROVE Aboard'
    OBVIOUS
  <2>1. ASSUME NEW x \in Callers, NEW p, Go(x, p), UNCHANGED on, p # "openNew",
               x \in Users => p = "pipe" \/ pc[x] \notin {"openNew", "pipe"}
        PROVE  Aboard'
    BY <2>1 DEF Aboard, TypeOK, Go
  <2>2. ASSUME NEW x \in Callers, NEW p, NEW c \in Conns \cup {None}, Go(x, p),
               on' = [on EXCEPT ![x] = c],
               p = "openNew" => c \in Conns,
               x \in Users => p \in {"openNew", "pipe"} \/ c = None
        PROVE  Aboard'
    BY <2>2 DEF Aboard, TypeOK, Go
  <2>3. ASSUME NEW x \in Callers, OpenStream(x) PROVE Aboard'
    <3>1. CASE OpenEnter(x)
      BY <2>1, <3>1 DEF OpenEnter
    <3>2. CASE OpenOnCached(x)
      BY <2>1, <2>2, <3>2 DEF OpenOnCached, GotStream, TypeOK
    <3>3. CASE Dial(x)
      BY <2>1, <2>2, <3>3 DEF Dial
    <3>4. CASE OpenOnNew(x)
      BY <2>1, <2>2, <3>4 DEF OpenOnNew, GotStream
    <3> QED
      BY <2>3, <3>1, <3>2, <3>3, <3>4 DEF OpenStream
  <2>4. ASSUME NEW x \in Callers, MarkFailed(x) \/ ShowFallback(x) PROVE Aboard'
    BY <2>1, <2>4 DEF MarkFailed, ShowFallback
  <2>5. ASSUME NEW u \in Users, CheckVerified(u) \/ UserRecheck(u) \/ UseMesh(u) \/ Accept(u)
        PROVE  Aboard'
    BY <2>1, <2>5 DEF CheckVerified, UserRecheck, UseMesh, Accept
  <2>6. ASSUME NEW u \in Users, EndPipe(u) PROVE Aboard'
    BY <2>2, <2>6 DEF EndPipe
  <2>7. ASSUME \/ \E t \in {"oneshot", "fast", "slow"} : Tick(t)
               \/ IdleDrop \/ Look \/ SyncDisplay \/ ProberRecheck
               \/ Health \/ MarkVerified \/ Advertise \/ DropAndFail
        PROVE  Aboard'
    <3>1. PICK p \in ProberPcs \cup {"open", "mark"} : Go(Prober, p) /\ UNCHANGED on
      BY <2>7 DEF Tick, IdleDrop, Look, SyncDisplay, ProberRecheck, Health, MarkVerified,
                  Advertise, DropAndFail, ProberPcs
    <3> QED
      BY <2>1, <3>1 DEF ProberPcs
  <2>8. CASE RoundTrip
    BY <2>2, <2>8 DEF RoundTrip
  <2>9. ASSUME \/ \E c \in Conns : WatcherStep(c) \/ ConnDies(c)
               \/ Expire \/ CooledDown \/ Outside \/ UNCHANGED vars
        PROVE  Aboard'
    <3>1. UNCHANGED <<pc, on>>
      BY <2>9 DEF WatcherStep, WatcherWakes, WatcherMarks, ConnDies, Expire, CooledDown,
                  Outside, vars
    <3> QED
      BY <3>1 DEF Aboard
  <2> QED
    BY <2>3, <2>4, <2>5, <2>6, <2>7, <2>8, <2>9
       DEF Next, UserStep, ProberStep, StreamBreaks
<1> QED
  BY <1>1, <1>2, TypeCorrect, PTL DEF Spec

Open == {c \in Conns : cst[c] = "open"}
Ridden == [u \in Users |-> IF pc[u] = "pipe" THEN on[u] ELSE None]

(* A step of one caller that neither starts nor ends a stream. *)
LEMMA RideKept ==
  ASSUME TypeOK, NEW x \in Callers, NEW p, Go(x, p),
         x \in Users => pc[x] # "pipe" /\ p # "pipe",
         \A u \in Users \ {x} : on'[u] = on[u]
  PROVE  Ridden' = Ridden
<1>1. ASSUME NEW u \in Users
      PROVE  (IF pc'[u] = "pipe" THEN on'[u] ELSE None) = (IF pc[u] = "pipe" THEN on[u] ELSE None)
  BY DEF TypeOK, Go
<1> QED
  BY <1>1 DEF Ridden

(* Dropping the connection, alive or not, ends it for everyone. *)
LEMMA DropEnds ==
  ASSUME TypeOK, Inv, DropConnLocked, Ridden' = Ridden
  PROVE  Channel!Next
<1>1. Open' = {}
  BY DEF TypeOK, Inv, NothingLeaks, DropConnLocked, Open
<1> QED
  BY <1>1 DEF Channel!Next, Channel!End, DropConnLocked, Open, Ridden

(* Nothing that streams can see changes. *)
LEMMA Unseen ==
  ASSUME UNCHANGED <<qconn, cst>>, Ridden' = Ridden
  PROVE  UNCHANGED Channel!vars
BY DEF Channel!vars, Ridden

(* Whatever callers, watchers and the network do, the direct path shows its
   streams a single connection (openStream, dropConnLocked, watchConn). *)
THEOREM ImplementsSingleConn == Spec => IsSingleConn
<1>1. Init => Channel!Init
  BY DEF Init, Channel!Init
<1>2. TypeOK /\ Inv /\ Aboard /\ [Next]_vars => [Channel!Next]_(Channel!vars)
  <2> SUFFICES ASSUME TypeOK, Inv, Aboard, [Next]_vars
               PROVE  Channel!Next \/ UNCHANGED Channel!vars
    OBVIOUS
  <2>1. ASSUME NEW u \in Users, NEW c \in Conns,
               pc[u] # "pipe", qconn = c, cst[c] = "open", UNCHANGED <<qconn, cst>>,
               on' = [on EXCEPT ![u] = c], Go(u, "pipe")
        PROVE  Channel!Next
    <3>1. qconn \in Open /\ Ridden[u] = None
      BY <2>1 DEF Open, Ridden
    <3>2. Ridden' = [Ridden EXCEPT ![u] = qconn]
      BY <2>1 DEF Ridden, TypeOK, Go
    <3>3. Channel!Ride(u)
      BY <2>1, <3>1, <3>2 DEF Channel!Ride, Channel!Mounts, Open, Ridden
    <3> QED
      BY <3>3 DEF Channel!Next
  <2>2. ASSUME NEW x \in Callers, OpenEnter(x) PROVE Channel!Next \/ UNCHANGED Channel!vars
    <3>1. PICK p \in {"select", "recheck", "opening", "dialing"} : Go(x, p) /\ pc[x] = "open"
      BY <2>2 DEF OpenEnter
    <3>2. Ridden' = Ridden
      BY <2>2, <3>1, RideKept DEF OpenEnter
    <3>3. DropConnLocked \/ UNCHANGED <<qconn, cst>>
      BY <2>2 DEF OpenEnter, conn
    <3> QED
      BY <3>2, <3>3, DropEnds, Unseen
  <2>3. ASSUME NEW x \in Callers, OpenOnCached(x) PROVE Channel!Next \/ UNCHANGED Channel!vars
    <3>1. CASE x \in Users /\ Go(x, "pipe") /\ on' = [on EXCEPT ![x] = qconn] /\ ConnAlive /\ UNCHANGED conn
      BY <2>1, <2>3, <3>1 DEF OpenOnCached, ConnAlive, TypeOK, conn
    <3>2. CASE x = Prober /\ Go(x, "trip") /\ on' = [on EXCEPT ![x] = qconn] /\ UNCHANGED conn
      <4>1. Ridden' = Ridden
        BY <3>2, RideKept DEF TypeOK
      <4> QED
        BY <3>2, <4>1, Unseen DEF conn
    <3>3. ASSUME NEW p \in {"recheck", "dialing"}, Go(x, p), UNCHANGED on,
                 DropConnLocked \/ UNCHANGED conn
          PROVE  Channel!Next \/ UNCHANGED Channel!vars
      <4>1. Ridden' = Ridden
        BY <2>3, <3>3, RideKept DEF OpenOnCached
      <4> QED
        BY <3>3, <4>1, DropEnds, Unseen DEF conn
    <3> QED
      BY <2>3, <3>1, <3>2, <3>3 DEF OpenOnCached, GotStream
  <2>4. ASSUME NEW x \in Callers, Dial(x) PROVE Channel!Next \/ UNCHANGED Channel!vars
    <3>1. PICK p \in {"openNew", "dialMark"} : Go(x, p) /\ pc[x] = "dialing"
      BY <2>4 DEF Dial
    <3>2. Ridden' = Ridden
      BY <2>4, <3>1, RideKept DEF Dial, TypeOK
    <3>3. ASSUME NEW c \in Conns, qconn' = c, cst' = [cst EXCEPT ![c] = "open"]
          PROVE  Channel!Next
      <4>1. qconn = None /\ Open = {}
        BY <3>1 DEF Inv, LockDiscipline, NothingLeaks, Open, TypeOK
      <4>2. Open' = {c}
        BY <3>3, <4>1 DEF Open, TypeOK
      <4>3. Channel!Install(c)
        BY <3>2, <3>3, <4>1, <4>2 DEF Channel!Install, Open, Ridden
      <4> QED
        BY <4>3 DEF Channel!Next
    <3> QED
      BY <2>4, <3>2, <3>3, Unseen DEF Dial, conn
  <2>5. ASSUME NEW x \in Callers, OpenOnNew(x) PROVE Channel!Next \/ UNCHANGED Channel!vars
    <3>1. pc[x] = "openNew" /\ UNCHANGED <<qconn, cst>>
      BY <2>5 DEF OpenOnNew, conn
    <3>2. CASE x \in Users /\ cst[on[x]] = "open" /\ Go(x, "pipe") /\ UNCHANGED on
      <4>1. on[x] \in Conns /\ qconn = on[x]
        BY <3>1, <3>2 DEF Aboard, Inv, NothingLeaks
      <4>2. on' = [on EXCEPT ![x] = on[x]]
        BY <3>2 DEF TypeOK
      <4> QED
        BY <2>1, <3>1, <3>2, <4>1, <4>2
    <3>3. ASSUME NEW p \in {"trip", "recheck"}, Go(x, p), \A u \in Users \ {x} : on'[u] = on[u],
                 x \in Users => p = "recheck"
          PROVE  UNCHANGED Channel!vars
      <4>1. Ridden' = Ridden
        BY <3>1, <3>3, RideKept
      <4> QED
        BY <3>1, <4>1, Unseen
    <3> QED
      BY <2>5, <3>2, <3>3 DEF OpenOnNew, GotStream, TypeOK
  <2>6. ASSUME NEW x \in Callers, MarkFailed(x) \/ ShowFallback(x) PROVE UNCHANGED Channel!vars
    <3>1. PICK p \in {"show", "dialShow", "select", "mesh", "recheck"} :
             Go(x, p) /\ pc[x] # "pipe" /\ UNCHANGED <<conn, on>>
      BY <2>6 DEF MarkFailed, ShowFallback
    <3> QED
      BY <3>1, RideKept, Unseen DEF conn
  <2>7. ASSUME NEW u \in Users, CheckVerified(u) \/ UserRecheck(u) \/ Accept(u)
        PROVE  UNCHANGED Channel!vars
    <3>1. PICK p \in {"check", "open", "mesh", "mark"} :
             Go(u, p) /\ pc[u] # "pipe" /\ UNCHANGED <<conn, on>>
      BY <2>7 DEF CheckVerified, UserRecheck, Accept
    <3> QED
      BY <3>1, RideKept, Unseen DEF conn
  <2>8. ASSUME NEW u \in Users, UseMesh(u) PROVE UNCHANGED Channel!vars
    <3>1. on[u] = None /\ pc[u] # "pipe" /\ UNCHANGED <<on, qconn, cst>>
      BY <2>8 DEF UseMesh, Aboard, conn
    <3>2. Ridden' = Ridden
      BY <2>8, <3>1 DEF UseMesh, Ridden, TypeOK, Go
    <3> QED
      BY <3>1, <3>2, Unseen
  <2>9. ASSUME NEW u \in Users, EndPipe(u) PROVE Channel!Next
    <3>1. Ridden' = [Ridden EXCEPT ![u] = None]
      BY <2>9 DEF EndPipe, Ridden, TypeOK, Go
    <3>2. Channel!Leave(u)
      BY <2>9, <3>1 DEF EndPipe, Channel!Leave, Ridden, conn
    <3> QED
      BY <3>2 DEF Channel!Next
  <2>10. ASSUME \/ \E t \in {"oneshot", "fast", "slow"} : Tick(t)
                \/ IdleDrop \/ Look \/ SyncDisplay \/ RoundTrip \/ ProberRecheck
                \/ Health \/ MarkVerified \/ Advertise
         PROVE  UNCHANGED Channel!vars
    <3>1. PICK p \in ProberPcs \cup {"open", "recheck"} :
             Go(Prober, p) /\ UNCHANGED conn /\ \A u \in Users : on'[u] = on[u]
      BY <2>10 DEF Tick, IdleDrop, Look, SyncDisplay, RoundTrip, ProberRecheck, Health,
                   MarkVerified, Advertise, ProberPcs, TypeOK
    <3> QED
      BY <3>1, RideKept, Unseen DEF conn
  <2>11. CASE DropAndFail
    <3>1. Go(Prober, "mark") /\ UNCHANGED on /\ DropConnLocked
      BY <2>11 DEF DropAndFail
    <3> QED
      BY <3>1, RideKept, DropEnds
  <2>12. ASSUME NEW c \in Conns, WatcherStep(c) PROVE Channel!Next \/ UNCHANGED Channel!vars
    <3>1. UNCHANGED <<pc, on>> /\ (DropConnLocked \/ UNCHANGED <<qconn, cst>>)
      BY <2>12 DEF WatcherStep, WatcherWakes, WatcherMarks
    <3> QED
      BY <3>1, DropEnds, Unseen DEF Ridden
  <2>13. ASSUME NEW c \in Conns, ConnDies(c) PROVE Channel!Next
    <3>1. UNCHANGED <<pc, on, qconn>> /\ Open' = {}
      BY <2>13 DEF ConnDies, Open, Inv, NothingLeaks, TypeOK
    <3>2. Channel!End
      BY <3>1 DEF Channel!End, Open, Ridden
    <3> QED
      BY <3>2 DEF Channel!Next
  <2>14. CASE Expire \/ CooledDown \/ Outside \/ UNCHANGED vars
    <3>1. UNCHANGED <<pc, on, qconn, cst>>
      BY <2>14 DEF Expire, CooledDown, Outside, vars, conn
    <3> QED
      BY <3>1, Unseen DEF Ridden
  <2> QED
    BY <2>2, <2>3, <2>4, <2>5, <2>6, <2>7, <2>8, <2>9, <2>10, <2>11, <2>12, <2>13, <2>14
       DEF Next, UserStep, ProberStep, OpenStream, StreamBreaks
<1> QED
  BY <1>1, <1>2, TypeCorrect, LockAndConnection, AboardHolds, PTL
     DEF Spec, IsSingleConn, Channel!Spec
=============================================================================
