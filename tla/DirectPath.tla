----------------------------- MODULE DirectPath -----------------------------
(***************************************************************************)
(* The client's direct (h3) path: internal/yggss/direct.go and the direct  *)
(* half of client.openStream in internal/yggss/tunnel.go.                  *)
(*                                                                         *)
(* Three kinds of goroutine share one directClient:                        *)
(*   - the handlers of local TCP connections (Users), which ride the path  *)
(*     while it is verified and fall back to the mesh otherwise;           *)
(*   - the background prober (Prober), which verifies the path end to end  *)
(*     and cuts it off when it goes bad;                                   *)
(*   - one watcher per dialled connection (watchConn).                     *)
(* d.mu is the variable mu, because it is held across a dial and across    *)
(* OpenStreamSync.  verifyMu and probeStateMu guard single assignments, so *)
(* what they guard is read and written in atomic steps.                    *)
(*                                                                         *)
(* Time is left out: the verification TTL and the cooldown end by steps of *)
(* the environment, and a ticker may fire whenever its channel is armed.   *)
(***************************************************************************)
EXTENDS Naturals

CONSTANTS Users,   \* handlers of local TCP connections
          Prober,  \* the background prober
          Conns,   \* identities of QUIC connections, reused once forgotten
          None,    \* Go's nil: no connection, no holder of d.mu
          Limit,   \* probeFailStreakLimit
          Nets,    \* bound: the conditions of the UDP path an instance goes through
          Outages  \* bound: "mesh" if peerings come and go, "idle" if users go away

Callers == Users \cup {Prober}

ASSUME IdsAssumption == /\ Prober \notin Users
                        /\ None \notin Conns \cup Callers
ASSUME LimitAssumption == Limit \in Nat \ {0}
ASSUME NetsAssumption == Nets \subseteq {"up", "lossy", "black"}
ASSUME OutagesAssumption == Outages \subseteq {"mesh", "idle"}

VARIABLES
  mu,          \* the goroutine holding d.mu, or None
  qconn,       \* d.qconn
  tr,          \* d.tr, named by the connection it was dialled for
  cooling,     \* time.Now() is before d.failUntil
  verified,    \* time.Now() is before d.verifiedUntil
  baseline,    \* d.probeRTT > 0
  probeState,  \* client.probeState
  cst,         \* a connection's context: "open", "dead" (done, not by us), "closed" (by us)
  sock,        \* the connections whose transport (UDP socket) is open
  watch,       \* where the watcher of a connection is
  pc,          \* where a caller is
  on,          \* the connection a caller's stream (or pending stream) is on
  failStreak,  \* prober: consecutive failed probes, saturating at Limit
  wasVerified, \* prober: IsVerified() before this probe
  armed,       \* prober: the timer channels that are not nil
  net,         \* UDP to the server: "up" answers every dial, open and probe in
               \* time, "black" none (opens are local and still succeed), and
               \* under "lossy" each may go either way
  meshUp,      \* client.meshActive()
  idle         \* no new stream for probeIdleLimit

conn == <<qconn, tr, cst, sock, watch>>
probe == <<failStreak, wasVerified, armed, baseline>>
env == <<net, meshUp, idle>>
vars == <<mu, conn, cooling, verified, probeState, pc, on, probe, env>>

PathStates == {"meshOnly", "h2h3", "probing", "fallback"}

UserPcs == {"idle", "check", "mesh", "pipe"}
ProberPcs == {"select", "idleMark", "idleShow", "look", "sync", "trip", "health",
              "verify", "advertise", "drop", "dropGone"}
Pcs == UserPcs \cup ProberPcs \cup {"open", "opening", "dialing", "openNew", "dialMark",
                                    "dialShow", "recheck", "mark", "show"}

Init ==
  /\ mu = None /\ qconn = None /\ tr = None
  /\ cooling = FALSE /\ verified = FALSE /\ baseline = FALSE
  /\ probeState = "meshOnly"
  /\ cst = [c \in Conns |-> "closed"]
  /\ sock = {}
  /\ watch = [c \in Conns |-> "none"]
  /\ pc = [x \in Callers |-> IF x = Prober THEN "select" ELSE "idle"]
  /\ on = [x \in Callers |-> None]
  /\ failStreak = 0 /\ wasVerified = FALSE /\ armed = {"oneshot", "fast"}
  /\ net \in Nets /\ meshUp = TRUE /\ idle = FALSE

Go(x, p) == pc' = [pc EXCEPT ![x] = p]

\* d.mu.Unlock(); the faulty variant returns from a failed dial without it.
UnlockIfConnected == mu' = IF qconn' = None THEN mu ELSE None
Unlock == mu' = None

-----------------------------------------------------------------------------
(* The connection under d.mu *)

ConnAlive == qconn # None /\ cst[qconn] = "open"

\* Faulty variants: the connection, or the transport, is forgotten without being
\* closed.
DropForgetsConn == sock' = sock \ {tr} /\ qconn' = None /\ tr' = None /\ UNCHANGED cst
DropForgetsTransport ==
  /\ cst' = [c \in Conns |-> IF c = qconn THEN "closed" ELSE cst[c]]
  /\ qconn' = None /\ tr' = None /\ UNCHANGED sock

\* Closes and forgets the connection together with its transport.
DropConnLocked ==
  /\ cst' = [c \in Conns |-> IF c = qconn THEN "closed" ELSE cst[c]]
  /\ sock' = sock \ {tr}
  /\ qconn' = None /\ tr' = None

\* An identity nothing refers to any more: no handle, socket, watcher or stream.
Fresh(c) == /\ c \notin sock \cup {qconn, tr}
            /\ watch[c] = "none"
            /\ \A x \in Callers : on[x] # c

\* Bound: an open starts only while an identity besides the current one is
\* free, so that finitely many of them suffice for any number of redials.
RoomToDial == \E c \in Conns \ {qconn} : Fresh(c)

-----------------------------------------------------------------------------
(* directClient.openStream, run by users and by the prober *)

\* Entry: d.mu is taken.  In the cooldown the call fails at once; a living
\* connection is used with d.mu held; a dead one is dropped and redialled
\* with d.mu held.
OpenEnter(x) ==
  /\ pc[x] = "open" /\ mu = None /\ (cooling \/ RoomToDial)
  /\ \/ /\ cooling
        /\ Go(x, IF x = Prober THEN "select" ELSE "recheck")
        /\ UNCHANGED <<mu, conn>>
     \/ /\ ~cooling /\ ConnAlive
        /\ mu' = x /\ Go(x, "opening")
        /\ UNCHANGED conn
     \/ /\ ~cooling /\ ~ConnAlive
        /\ DropConnLocked
        /\ mu' = x /\ Go(x, "dialing")
        /\ UNCHANGED watch
  /\ UNCHANGED <<cooling, verified, probeState, on, probe, env>>

GotStream(x) == Go(x, IF x = Prober THEN "trip" ELSE "pipe")

\* Whether an error of OpenStreamSync costs the connection; the faulty variant
\* gives it up on every error.
AnyError == net # "up"
DiedMeanwhile == ~ConnAlive

\* OpenStreamSync on the cached connection returns, d.mu still held: a
\* stream, a transient error on a living connection, or the connection died.
OpenOnCached(x) ==
  /\ pc[x] = "opening"
  /\ \/ /\ ConnAlive
        /\ on' = [on EXCEPT ![x] = qconn] /\ GotStream(x)
        /\ UNCHANGED conn /\ Unlock
     \/ /\ ConnAlive /\ net # "up"
        /\ Go(x, "recheck")
        /\ UNCHANGED <<conn, on>> /\ Unlock
     \/ /\ DiedMeanwhile
        /\ DropConnLocked
        /\ Go(x, "dialing")
        /\ UNCHANGED <<mu, watch, on>>
  /\ UNCHANGED <<cooling, verified, probeState, probe, env>>

\* go d.watchConn(qconn); the faulty variant forgets it.
NoWatcher(c) == UNCHANGED watch
StartWatcher(c) == watch' = [watch EXCEPT ![c] = "wait"]

\* directDialTransport returns: the connection is installed, d.mu released
\* and its watcher started, or the path cools down.
Dial(x) ==
  /\ pc[x] = "dialing"
  /\ \/ \E c \in Conns :
          /\ Fresh(c) /\ net # "black"
          /\ qconn' = c /\ tr' = c /\ sock' = sock \cup {c}
          /\ cst' = [cst EXCEPT ![c] = "open"] /\ StartWatcher(c)
          /\ on' = [on EXCEPT ![x] = c] /\ Go(x, "openNew")
          /\ UNCHANGED cooling
     \/ /\ net # "up"
        /\ cooling' = TRUE /\ Go(x, "dialMark")
        /\ UNCHANGED <<conn, on>>
  /\ Unlock
  /\ UNCHANGED <<verified, probeState, probe, env>>

\* OpenStreamSync on the connection just dialled, without d.mu.
OpenOnNew(x) ==
  /\ pc[x] = "openNew"
  /\ \/ /\ cst[on[x]] = "open"
        /\ GotStream(x) /\ UNCHANGED on
     \/ /\ cst[on[x]] # "open" \/ net # "up"
        /\ on' = [on EXCEPT ![x] = None] /\ Go(x, "recheck")
  /\ UNCHANGED <<mu, conn, cooling, verified, probeState, probe, env>>

-----------------------------------------------------------------------------
(* Losing the verification *)

\* MarkFailed: by a failed dial, a user who found no connection, dropAndFail.
MarkFailed(x) ==
  /\ \/ pc[x] = "mark" /\ Go(x, "show")
     \/ pc[x] = "dialMark" /\ Go(x, "dialShow")
  /\ verified' = FALSE
  /\ UNCHANGED <<mu, conn, cooling, probeState, on, probe, env>>

\* setProbeState(pathMeshFallback), which follows every such MarkFailed.
ShowFallback(x) ==
  /\ \/ pc[x] = "show" /\ Go(x, IF x = Prober THEN "select" ELSE "mesh")
     \/ pc[x] = "dialShow" /\ Go(x, "recheck")
  /\ probeState' = "fallback"
  /\ UNCHANGED <<mu, conn, cooling, verified, on, probe, env>>

-----------------------------------------------------------------------------
(* A user: client.handle and the direct half of client.openStream *)

\* A local connection is accepted; touchActivity.
Accept(u) ==
  /\ pc[u] = "idle"
  /\ Go(u, "check") /\ idle' = FALSE
  /\ UNCHANGED <<mu, conn, cooling, verified, probeState, on, probe, net, meshUp>>

\* Only a verified path is tried.
CheckVerified(u) ==
  /\ pc[u] = "check"
  /\ Go(u, IF verified THEN "open" ELSE "mesh")
  /\ UNCHANGED <<mu, conn, cooling, verified, probeState, on, probe, env>>

\* After an error: everyone is downgraded if connAlive() says the connection
\* is gone, and only this stream goes to the mesh otherwise.
UserRecheck(u) ==
  /\ pc[u] = "recheck" /\ mu = None
  /\ Go(u, IF ConnAlive THEN "mesh" ELSE "mark")
  /\ UNCHANGED <<mu, conn, cooling, verified, probeState, on, probe, env>>

\* The mesh half of client.openStream: a stream over the mesh, or an error
\* that ends the handler.
UseMesh(u) ==
  /\ pc[u] = "mesh"
  /\ \/ meshUp /\ Go(u, "pipe")
     \/ Go(u, "idle")
  /\ UNCHANGED <<mu, conn, cooling, verified, probeState, on, probe, env>>

EndPipe(u) ==
  /\ pc[u] = "pipe"
  /\ Go(u, "idle") /\ on' = [on EXCEPT ![u] = None]
  /\ UNCHANGED <<mu, conn, cooling, verified, probeState, probe, env>>

\* A stream on a connection that is gone errors out.
StreamBreaks(u) == on[u] # None /\ cst[on[u]] # "open" /\ EndPipe(u)

-----------------------------------------------------------------------------
(* The prober: one iteration of the loop of startProber *)

\* A timer fires.  Without a mesh peering nothing happens; after a long idle
\* time a verified path loses its verification and is probed fast again.
Tick(t) ==
  /\ pc[Prober] = "select" /\ t \in armed
  /\ LET left == armed \ ({t} \cap {"oneshot"})
         dropCache == meshUp /\ idle /\ verified
     IN /\ armed' = IF dropCache THEN (left \ {"slow"}) \cup {"fast"} ELSE left
        /\ Go(Prober, IF dropCache THEN "idleMark"
                      ELSE IF meshUp /\ ~idle THEN "look" ELSE "select")
  /\ UNCHANGED <<mu, conn, cooling, verified, probeState, on, failStreak, wasVerified, baseline, env>>

IdleDrop ==
  \/ /\ pc[Prober] = "idleMark" /\ Go(Prober, "idleShow")
     /\ verified' = FALSE
     /\ UNCHANGED <<mu, conn, cooling, probeState, on, probe, env>>
  \/ /\ pc[Prober] = "idleShow" /\ Go(Prober, "select")
     /\ probeState' = "probing"
     /\ UNCHANGED <<mu, conn, cooling, verified, on, probe, env>>

\* Before the probe: remember IsVerified(), and take an expired verification
\* off the display.
Look ==
  /\ pc[Prober] = "look"
  /\ wasVerified' = verified
  /\ Go(Prober, IF ~verified /\ probeState = "h2h3" THEN "sync" ELSE "open")
  /\ UNCHANGED <<mu, conn, cooling, verified, probeState, on, failStreak, armed, baseline, env>>

\* Before a probe of an expired path; the faulty variant only logs.
LogOnly == UNCHANGED probeState
ShowProbing == probeState' = "probing"

SyncDisplay ==
  /\ pc[Prober] = "sync" /\ Go(Prober, "open")
  /\ ShowProbing
  /\ UNCHANGED <<mu, conn, cooling, verified, on, probe, env>>

\* The ping travels to the server and back, or the 3 s deadline or a reset
\* ends it.  The stream is closed either way.
RoundTrip ==
  /\ pc[Prober] = "trip"
  /\ \/ /\ cst[on[Prober]] = "open" /\ net # "black"
        /\ Go(Prober, "health")
     \/ /\ cst[on[Prober]] # "open" \/ net # "up"
        /\ Go(Prober, "recheck")
  /\ on' = [on EXCEPT ![Prober] = None]
  /\ UNCHANGED <<mu, conn, cooling, verified, probeState, probe, env>>

\* failStreak counts up to the limit, where every later failure finds it too
\* (failStreak >= probeFailStreakLimit).  Faulty variants: the count goes on
\* and is compared with =; the limit counts only for a verified path.
CountOn == failStreak + 1
NextStreak == IF failStreak = Limit THEN Limit ELSE failStreak + 1
DegradedIfVerified == NextStreak = Limit /\ wasVerified
Degraded == NextStreak = Limit

\* After a failed open or round trip: on a living connection the failure
\* counts towards the streak, and at the limit the path is dropped; a
\* connection that is gone is dropped and the fast cadence armed.  The two
\* locals are assigned here, ahead of the drop: no other goroutine sees them.
\* wasVerified goes out of scope, here and in Health.
ProberRecheck ==
  /\ pc[Prober] = "recheck" /\ mu = None
  /\ wasVerified' = FALSE
  /\ IF ConnAlive
     THEN /\ failStreak' = NextStreak
          /\ Go(Prober, IF Degraded THEN "drop" ELSE "select")
          /\ UNCHANGED armed
     ELSE /\ failStreak' = 0
          /\ Go(Prober, "dropGone")
          /\ armed' = (armed \ {"slow"}) \cup {"fast"}
  /\ UNCHANGED <<mu, conn, cooling, verified, probeState, on, baseline, env>>

\* probeHealthy: the first round trip sets the baseline; later ones may be
\* found far slower than it, unless the path is prompt.
Health ==
  /\ pc[Prober] = "health" /\ mu = None
  /\ failStreak' = 0 /\ baseline' = TRUE /\ wasVerified' = FALSE
  /\ \/ Go(Prober, "verify")
     \/ /\ baseline /\ net # "up"
        /\ Go(Prober, IF wasVerified THEN "drop" ELSE "select")
  /\ UNCHANGED <<mu, conn, cooling, verified, probeState, on, armed, env>>

\* MarkVerified, then setProbeState(pathH2H3) and the slow cadence only.
MarkVerified ==
  /\ pc[Prober] = "verify" /\ Go(Prober, "advertise")
  /\ verified' = TRUE
  /\ UNCHANGED <<mu, conn, cooling, probeState, on, probe, env>>

NoTimer == {}   \* faulty variant: the slow ticker is not armed
SlowOnly == {"slow"}

Advertise ==
  /\ pc[Prober] = "advertise" /\ Go(Prober, "select")
  /\ probeState' = "h2h3" /\ armed' = SlowOnly
  /\ UNCHANGED <<mu, conn, cooling, verified, on, failStreak, wasVerified, baseline, env>>

\* The first half of dropAndFail; MarkFailed and ShowFallback follow.
DropAndFail ==
  /\ pc[Prober] \in {"drop", "dropGone"} /\ mu = None
  /\ DropConnLocked /\ cooling' = TRUE
  /\ Go(Prober, "mark")
  /\ UNCHANGED <<mu, watch, verified, probeState, on, probe, env>>

-----------------------------------------------------------------------------
(* watchConn *)

\* The context of the connection is done.  If it is still the current one,
\* the watcher drops it and cools the path down, then marks it failed.
WatcherWakes(c) ==
  /\ watch[c] = "wait" /\ cst[c] # "open" /\ mu = None
  /\ IF qconn = c
     THEN DropConnLocked /\ cooling' = TRUE /\ watch' = [watch EXCEPT ![c] = "mark"]
     ELSE watch' = [watch EXCEPT ![c] = "none"] /\ UNCHANGED <<qconn, tr, cst, sock, cooling>>
  /\ UNCHANGED <<mu, verified, probeState, pc, on, probe, env>>

WatcherMarks(c) ==
  \/ /\ watch[c] = "mark"
     /\ watch' = [watch EXCEPT ![c] = "show"] /\ verified' = FALSE
     /\ UNCHANGED <<mu, qconn, tr, cst, sock, cooling, probeState, pc, on, probe, env>>
  \/ /\ watch[c] = "show"
     /\ watch' = [watch EXCEPT ![c] = "none"] /\ probeState' = "fallback"
     /\ UNCHANGED <<mu, qconn, tr, cst, sock, cooling, verified, pc, on, probe, env>>

-----------------------------------------------------------------------------
(* The environment *)

\* The verification TTL passes without a new success.
Expire == /\ verified /\ verified' = FALSE
          /\ UNCHANGED <<mu, conn, cooling, probeState, pc, on, probe, env>>

\* directFailCooldown has passed.
CooledDown == /\ cooling /\ cooling' = FALSE
              /\ UNCHANGED <<mu, conn, verified, probeState, pc, on, probe, env>>

\* The peer closes the connection, or QUIC gives it up.
ConnDies(c) ==
  /\ cst[c] = "open" /\ net # "up"
  /\ cst' = [cst EXCEPT ![c] = "dead"]
  /\ UNCHANGED <<mu, qconn, tr, sock, watch, cooling, verified, probeState, pc, on, probe, env>>

Outside ==
  /\ \/ net' \in Nets \ {net} /\ UNCHANGED <<meshUp, idle>>
     \/ "mesh" \in Outages /\ meshUp' = ~meshUp /\ UNCHANGED <<net, idle>>
     \/ "idle" \in Outages /\ ~idle /\ idle' = TRUE /\ UNCHANGED <<net, meshUp>>
  /\ UNCHANGED <<mu, conn, cooling, verified, probeState, pc, on, probe>>

-----------------------------------------------------------------------------
OpenStream(x) == OpenEnter(x) \/ OpenOnCached(x) \/ Dial(x) \/ OpenOnNew(x)

UserStep(u) == \/ OpenStream(u) \/ MarkFailed(u) \/ ShowFallback(u)
               \/ CheckVerified(u) \/ UserRecheck(u) \/ UseMesh(u) \/ StreamBreaks(u)

ProberStep == \/ OpenStream(Prober) \/ MarkFailed(Prober) \/ ShowFallback(Prober)
              \/ \E t \in {"oneshot", "fast", "slow"} : Tick(t)
              \/ IdleDrop \/ Look \/ SyncDisplay \/ RoundTrip \/ ProberRecheck
              \/ Health \/ MarkVerified \/ Advertise \/ DropAndFail

WatcherStep(c) == WatcherWakes(c) \/ WatcherMarks(c)

Next == \/ \E u \in Users : UserStep(u) \/ Accept(u) \/ EndPipe(u)
        \/ ProberStep
        \/ \E c \in Conns : WatcherStep(c) \/ ConnDies(c)
        \/ Expire \/ CooledDown \/ Outside

Spec == Init /\ [][Next]_vars

\* A runnable goroutine eventually runs, a dial and an OpenStreamSync return
\* (both have a deadline), a goroutine waiting for d.mu eventually gets it
\* (strong fairness: sync.Mutex hands the lock to a waiter that has starved
\* for 1 ms), timers fire, and the cooldown passes.
Fairness == /\ \A u \in Users : SF_vars(UserStep(u))
            /\ SF_vars(ProberStep)
            /\ \A c \in Conns : SF_vars(WatcherStep(c))
            /\ WF_vars(CooledDown)

FairSpec == Spec /\ Fairness

-----------------------------------------------------------------------------
(* Properties *)

TypeOK ==
  /\ mu \in Callers \cup {None}
  /\ qconn \in Conns \cup {None} /\ tr \in Conns \cup {None}
  /\ cooling \in BOOLEAN /\ verified \in BOOLEAN /\ baseline \in BOOLEAN
  /\ probeState \in PathStates
  /\ cst \in [Conns -> {"open", "dead", "closed"}]
  /\ sock \subseteq Conns
  /\ watch \in [Conns -> {"none", "wait", "mark", "show"}]
  /\ pc \in [Callers -> Pcs]
  /\ on \in [Callers -> Conns \cup {None}]
  /\ failStreak \in 0..Limit /\ wasVerified \in BOOLEAN
  /\ armed \subseteq {"oneshot", "fast", "slow"}
  /\ net \in Nets /\ meshUp \in BOOLEAN /\ idle \in BOOLEAN

\* d.mu is held exactly by the caller that opens on the cached connection or
\* dials, and while one dials there is no connection another could use.
LockDiscipline ==
  /\ \A x \in Callers : mu = x <=> pc[x] \in {"opening", "dialing"}
  /\ \A x \in Callers : pc[x] = "dialing" => qconn = None

\* However dials, drops and deaths interleave, a connection that is open is
\* the current one and an open UDP socket belongs to it: a redial never
\* leaves a connection or a transport behind (direct.go:440-452, 522-528).
NothingLeaks ==
  /\ \A c \in Conns : cst[c] = "open" => qconn = c
  /\ sock \subseteq {tr} /\ tr = qconn

\* The current connection always has a watcher waiting for its end, so its
\* death can never go unnoticed (direct.go:474-479, 587-589).
AlwaysWatched == qconn # None => watch[qconn] = "wait"

\* Only the prober's verdict closes a connection that is open: a user or a
\* watcher that redials or cuts over never takes down the healthy streams of
\* others (direct.go:522-533).
OnlyProberKills ==
  [][\A c \in Conns : cst[c] = "open" /\ cst'[c] = "closed"
        => pc[Prober] \in {"drop", "dropGone"} /\ pc'[Prober] = "mark"]_vars

\* The refinement mapping.
Channel == INSTANCE SingleConn WITH
  current <- qconn,
  alive <- {c \in Conns : cst[c] = "open"},
  ride <- [u \in Users |-> IF pc[u] = "pipe" THEN on[u] ELSE None],
  Riders <- Users

\* The direct path is a single connection to its streams: a stream starts only on
\* the current connection while it is alive, and a redial never replaces a
\* connection that could still carry streams (direct.go:522-533, 557-589).
IsSingleConn == Channel!Spec

\* While a probe is under way on a path that was not verified, the state shown
\* beneath IsVerified() no longer says the path is verified, whichever watcher or
\* user set it last (direct.go:406-417, 682-688).
DisplaySynced ==
  pc[Prober] \in {"open", "opening", "dialing", "openNew", "dialMark", "dialShow",
                  "trip", "recheck", "health"} /\ ~wasVerified
    => probeState # "h2h3"

\* Once the UDP path stays good, the mesh up and the tunnel in use, the path is
\* verified again and again on a living connection, from whatever state the
\* failures before left behind (direct.go:610-617).
Upgrade == <>[](net = "up" /\ meshUp /\ ~idle) => []<>(verified /\ ConnAlive)

\* Once the UDP path stays black-holed, the verification is gone for good and
\* every user stream has left the direct path, although QUIC itself reports no
\* error (direct.go:454-459, 721-726).
Cutover == <>[](net = "black" /\ meshUp /\ ~idle)
             => <>[](~verified /\ \A u \in Users : on[u] = None)

\* Whatever the path does, a user that asks for a stream gets one or an error:
\* no handler is left waiting for d.mu forever (direct.go:372-380).
EveryoneServed == \A u \in Users : pc[u] = "check" ~> pc[u] \in {"pipe", "idle"}

-----------------------------------------------------------------------------
(* What the comments promise and the code does not keep *)

\* When the prober itself downgrades the path it goes back to the fast cadence
\* ("the fast cadence keeps checking and the path is upgraded back as soon as
\* probes come clean", direct.go:773-774; 646-647).
FastAfterOwnDowngrade ==
  [][pc[Prober] = "show" /\ pc'[Prober] = "select" => "fast" \in armed']_vars

\* The drop the prober makes because the connection was gone closes no living
\* connection ("Only call this for dead connections: closing kills every
\* stream running on the connection", direct.go:441-442).
GoneDropSparesLiving ==
  [][pc[Prober] = "dropGone" /\ pc'[Prober] = "mark" => ~ConnAlive]_vars

\* Nobody waits for d.mu while another opens on the cached connection, least of
\* all through the whole deadline of OpenStreamSync ("The lock is held only for
\* the dial, not for stream opens on a healthy connection - concurrent streams
\* on a working path never queue", direct.go:525-527).
OpensNeverQueue ==
  [][\A x, y \in Callers : pc[x] = "opening" /\ pc'[x] = "recheck" => pc[y] # "open"]_vars
=============================================================================
