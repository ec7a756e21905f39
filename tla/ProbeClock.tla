----------------------------- MODULE ProbeClock -----------------------------
(***************************************************************************)
(* The prober of internal/yggss/direct.go in time: its three timers, the   *)
(* deadlines of its calls, the verification TTL and the cooldown, in       *)
(* seconds.  DirectPath has the same loop without time and with every      *)
(* interleaving; here what takes no time is one step, and a second passes  *)
(* only when nobody can go on at once.                                     *)
(*                                                                         *)
(* Beside the prober there are the users of the verified path.  One whose  *)
(* OpenStreamSync finds the peer's stream limit reached keeps d.mu until   *)
(* the limit is lifted or its deadline passes; the others, and the prober  *)
(* in each of its four calls that lock d.mu, stand in line behind it.  The *)
(* mesh is up and the tunnel is busy.                                      *)
(***************************************************************************)
EXTENDS Naturals

CONSTANTS
  FirstProbe,    \* the one-shot timer
  FastPeriod,    \* probeIntervalWhileUnverified
  RetryPeriod,   \* retryPeriod
  DialTimeout,   \* directClient.timeout
  OpenTimeout,   \* the deadline of OpenStreamSync
  EchoTimeout,   \* the deadline of the probe's round trip
  Cooldown,      \* directFailCooldown
  Limit,         \* probeFailStreakLimit
  MaxLine,       \* a bound on the users in line for d.mu, which the code does not have
  Cut, Regain    \* the bounds the properties state, which bound age

ASSUME PeriodsAssumption ==
  /\ {FirstProbe, FastPeriod, RetryPeriod, DialTimeout, OpenTimeout, EchoTimeout} \subseteq Nat \ {0}
  /\ {Cooldown, Limit, MaxLine, Cut, Regain} \subseteq Nat \ {0}

VARIABLES
  pc,       \* the prober: "select", a call ("dial", "open", "echo"), or waiting for d.mu
  left,     \* seconds left of its call
  clean,    \* the path has been good since its call began
  late,     \* a second has passed since its probe began (elapsed, once the echo is there)
  place,    \* the users ahead of it in the line for d.mu
  was,      \* wasVerified
  streak,   \* failStreak, saturating at Limit
  armed,    \* the timer channels its select listens on
  due,      \* seconds to the next expiry of each timer (0: stopped)
  ready,    \* timers that have expired and were not received from
  mu,       \* the holder of d.mu: "free", "prober" or "user"
  hold,     \* seconds left of the OpenStreamSync of the user who has d.mu
  line,     \* the users in line for d.mu
  conn,     \* "none" or "open"
  verify,   \* seconds to verifiedUntil
  cool,     \* seconds to failUntil
  net,      \* the UDP path: "good" or "black"
  full,     \* the peer's stream limit is reached on the connection
  age,      \* seconds since the path turned or the limit was lifted, up to a bound
  calm      \* history: nothing has disturbed the path since it was verified

prober == <<pc, left, clean, late, place, was, streak>>
timers == <<armed, due, ready>>
path == <<conn, verify, cool>>
world == <<net, full, age>>
vars == <<prober, timers, mu, hold, line, path, world, calm>>

Timers == {"first", "fast", "slow"}
Waiting == {"lock", "failed", "drop", "health"}

Init ==
  /\ pc = "select" /\ left = 0 /\ clean = FALSE /\ late = FALSE /\ place = 0
  /\ was = FALSE /\ streak = 0
  /\ armed = {"first", "fast"} /\ ready = {}
  /\ due = [first |-> FirstProbe, fast |-> FastPeriod, slow |-> RetryPeriod]
  /\ mu = "free" /\ hold = 0 /\ line = 0 /\ conn = "none" /\ verify = 0 /\ cool = 0
  /\ net \in {"good", "black"} /\ full = FALSE /\ age = 0 /\ calm = FALSE

-----------------------------------------------------------------------------
(* The prober's steps *)

\* The prober gets in line for d.mu.  Those in line already are ahead of it, unless
\* it comes by when the lock is just free; those who come later are behind it.
Queue(p) == pc' = p /\ place' \in 0..line
ItsTurn == mu = "free" /\ place = 0

\* A timer channel delivers and the probe starts.
Fire ==
  /\ pc = "select"
  /\ \E t \in armed \cap ready :
       ready' = ready \ {t} /\ armed' = armed \ (IF t = "first" THEN {t} ELSE {})
  /\ Queue("lock") /\ late' = FALSE /\ was' = (verify > 0)
  /\ UNCHANGED <<left, clean, streak, due, mu, hold, line, path, world, calm>>

\* A call that takes time: until it answers or its deadline passes.
Call(p, deadline) ==
  pc' = p /\ left' = deadline /\ clean' = (net = "good")

\* openStream with d.mu: a cooling path is left alone, a connection is reused, ...
Acquire ==
  /\ pc = "lock" /\ ItsTurn
  /\ \/ cool > 0 /\ pc' = "select" /\ UNCHANGED <<left, clean, mu>>
     \/ cool = 0 /\ conn = "open" /\ full /\ Call("open", OpenTimeout) /\ mu' = "prober"
     \/ cool = 0 /\ conn = "open" /\ ~full /\ Call("echo", EchoTimeout) /\ UNCHANGED mu
     \/ cool = 0 /\ conn = "none" /\ Call("dial", DialTimeout) /\ mu' = "prober"
  /\ UNCHANGED <<late, place, was, streak, timers, hold, line, path, world, calm>>

\* ... on which the stream opens once the limit is lifted, ...
OpenDone ==
  /\ pc = "open" /\ ~full /\ Call("echo", EchoTimeout) /\ mu' = "free"
  /\ UNCHANGED <<late, place, was, streak, timers, hold, line, path, world, calm>>

\* ... or a new one is dialled, on which a stream opens at once.
DialDone ==
  /\ pc = "dial" /\ net = "good" /\ Call("echo", EchoTimeout) /\ mu' = "free"
  /\ conn' = "open" /\ full' = FALSE
  /\ UNCHANGED <<late, place, was, streak, timers, hold, line, verify, cool, net, age, calm>>

\* The probe fails: the open or the round trip at its deadline, ...
CallFails ==
  /\ pc \in {"open", "echo"} /\ left = 0 /\ Queue("failed")
  /\ mu' = IF pc = "open" THEN "free" ELSE mu
  /\ UNCHANGED <<left, clean, late, was, streak, timers, hold, line, path, world, calm>>

\* ... or the dial, which cools the path down and marks it failed.
DialFails ==
  /\ pc = "dial" /\ left = 0 /\ Queue("failed") /\ mu' = "free"
  /\ cool' = Cooldown /\ verify' = 0 /\ calm' = FALSE
  /\ UNCHANGED <<left, clean, late, was, streak, timers, hold, line, conn, world>>

\* A failure on a living connection; the faulty variants begin every streak anew,
\* or count past the limit.
CountAnew == streak' = 1
CountPast == streak' = streak + 1
CountFailure == streak' = IF streak = Limit THEN Limit ELSE streak + 1

\* dropAndFail; the streams and their limit go with the connection.
DropAndFail ==
  /\ conn' = "none" /\ full' = FALSE /\ age' = IF full THEN 0 ELSE age
  /\ cool' = Cooldown /\ verify' = 0 /\ calm' = FALSE

\* The fast cadence, with the tick its timer may have kept; the faulty variant
\* only disables the slow one.
NoCadence == armed' = armed \cap {"first"}
FastAgain == armed' = {"fast"} \cup (armed \cap {"first"})

\* connAlive with d.mu: a living connection is dropped at the limit of the streak,
\* a gone one at once, and only then the fast cadence comes back.
Failed ==
  /\ pc = "failed" /\ ItsTurn
  /\ \/ /\ conn = "open" /\ CountFailure
        /\ IF streak' = Limit THEN Queue("drop") ELSE pc' = "select" /\ UNCHANGED place
        /\ UNCHANGED <<armed, path, full, age, calm>>
     \/ /\ conn = "none" /\ DropAndFail /\ streak' = 0 /\ pc' = "select"
        /\ FastAgain /\ UNCHANGED place
  /\ UNCHANGED <<left, clean, late, was, due, ready, mu, hold, line, net>>

Drop ==
  /\ pc = "drop" /\ ItsTurn /\ DropAndFail /\ pc' = "select"
  /\ UNCHANGED <<left, clean, late, place, was, streak, timers, mu, hold, line, net>>

\* verifyTTL; the faulty variant lasts until the next probe.
VerifyOnce == RetryPeriod
VerifyTTL == 2 * RetryPeriod

\* The slow cadence starts over.
SlowAnew == due' = [due EXCEPT !.slow = RetryPeriod] /\ ready' = ready \ {"slow"}

\* The echo arrives in time and ends the streak.
EchoDone ==
  /\ pc = "echo" /\ net = "good" /\ streak' = 0 /\ Queue("health")
  /\ UNCHANGED <<left, clean, late, was, timers, mu, hold, line, path, world, calm>>

\* probeHealthy with d.mu.  A prompt echo is healthy and verifies the path, whatever
\* has become of it meanwhile; one that took a second or more, the wait for d.mu
\* before the call included, may exceed the threshold and costs a verified path.
ProbeHealthy ==
  /\ pc = "health" /\ ItsTurn
  /\ \/ /\ pc' = "select" /\ verify' = VerifyTTL /\ calm' = (~full /\ net = "good")
        /\ armed' = {"slow"} /\ SlowAnew /\ UNCHANGED place
     \/ /\ late
        /\ IF was THEN Queue("drop") ELSE pc' = "select" /\ UNCHANGED place
        /\ UNCHANGED <<verify, calm, timers>>
  /\ UNCHANGED <<left, clean, late, was, streak, mu, hold, line, conn, cool, world>>

Probe ==
  \/ Fire \/ Acquire \/ OpenDone \/ DialDone \/ CallFails \/ DialFails
  \/ Failed \/ Drop \/ EchoDone \/ ProbeHealthy

-----------------------------------------------------------------------------
(* The users, the path and time *)

Less(n) == IF n = 0 THEN 0 ELSE n - 1

\* A user of the verified path comes for a stream.
UserComes ==
  /\ verify > 0 /\ line < MaxLine /\ line' = line + 1
  /\ UNCHANGED <<prober, timers, mu, hold, path, world, calm>>

\* The next user in line has d.mu: it blocks with it at the stream limit, and is
\* done at once otherwise.
UserTakes ==
  /\ mu = "free" /\ line > 0 /\ ~(pc \in Waiting /\ place = 0)
  /\ line' = line - 1 /\ place' = Less(place)
  /\ \/ cool = 0 /\ conn = "open" /\ full /\ mu' = "user" /\ hold' = OpenTimeout
     \/ (cool > 0 \/ (conn = "open" /\ ~full)) /\ UNCHANGED <<mu, hold>>
  /\ UNCHANGED <<pc, left, clean, late, was, streak, timers, path, world, calm>>

UserReturns ==
  /\ mu = "user" /\ (~full \/ hold = 0)
  /\ mu' = "free" /\ hold' = 0
  /\ UNCHANGED <<prober, timers, line, path, world, calm>>

\* The path turns into a black hole or back.
Turn ==
  /\ net' \in {"good", "black"} \ {net} /\ age' = 0 /\ clean' = FALSE /\ calm' = FALSE
  /\ UNCHANGED <<pc, left, late, place, was, streak, timers, mu, hold, line, path, full>>

\* Users exhaust the stream limit of a verified path; the peer lifts it.
Crowd ==
  /\ conn = "open"
  /\ \/ ~full /\ verify > 0 /\ full' = TRUE /\ UNCHANGED age
     \/ full /\ net = "good" /\ full' = FALSE /\ age' = 0
  /\ calm' = FALSE
  /\ UNCHANGED <<prober, timers, mu, hold, line, path, net>>

\* Somebody can go on without waiting.
Urgent ==
  \/ pc = "select" /\ armed \cap ready # {}
  \/ mu = "free" /\ (pc \in Waiting \/ line > 0)
  \/ pc \in {"dial", "open", "echo"} /\ left = 0
  \/ pc \in {"dial", "echo"} /\ clean
  \/ pc = "open" /\ ~full
  \/ mu = "user" /\ (~full \/ hold = 0)

Oldest == 1 + (IF Cut > Regain THEN Cut ELSE Regain)

Second ==
  /\ ~Urgent
  /\ left' = Less(left) /\ hold' = Less(hold) /\ verify' = Less(verify) /\ cool' = Less(cool)
  /\ age' = IF age = Oldest THEN Oldest ELSE age + 1
  /\ late' = IF pc = "health" THEN late ELSE pc # "select"
  /\ ready' = ready \cup {t \in Timers : due[t] = 1}
  /\ due' = [first |-> Less(due.first),
             fast |-> IF due.fast = 1 THEN FastPeriod ELSE due.fast - 1,
             slow |-> IF due.slow = 1 THEN RetryPeriod ELSE due.slow - 1]
  /\ UNCHANGED <<pc, clean, place, was, streak, armed, mu, line, conn, net, full, calm>>

Next == Probe \/ UserComes \/ UserTakes \/ UserReturns \/ Turn \/ Crowd \/ Second

Spec == Init /\ [][Next]_vars

-----------------------------------------------------------------------------
TypeOK ==
  /\ pc \in {"select", "dial", "open", "echo"} \cup Waiting
  /\ left \in 0..(DialTimeout + OpenTimeout + EchoTimeout) /\ streak \in 0..Limit
  /\ {clean, late, was, full, calm} \subseteq BOOLEAN
  /\ armed \subseteq Timers /\ ready \subseteq Timers
  /\ due.first \in 0..FirstProbe /\ due.fast \in 1..FastPeriod /\ due.slow \in 1..RetryPeriod
  /\ mu \in {"free", "prober", "user"} /\ hold \in 0..OpenTimeout
  /\ line \in 0..MaxLine /\ place \in 0..line
  /\ conn \in {"none", "open"} /\ verify \in 0..VerifyTTL /\ cool \in 0..Cooldown
  /\ net \in {"good", "black"} /\ age \in 0..Oldest

\* A path nothing disturbs stays verified, and on its one connection, for good: the
\* slow probe always comes before the TTL ends (direct.go:354-359, 794-796).
StaysVerified == calm => verify > 0 /\ conn = "open"

\* A connection whose path has become a black hole is cut within Cut seconds, even
\* when at every lock of d.mu as many as MaxLine users in line, and the one who has
\* it, run into the stream limit ahead of the prober ("instead of waiting for QUIC's
\* own timeouts", direct.go:454-459).  Each user more adds its deadline to the bound;
\* nothing in the code limits their number.
CutInTime == net = "black" /\ age > Cut => conn = "none"

\* A path that works again, with streams to spare, is verified again within Regain
\* seconds, whatever cadence, cooldown or blocked call the outage left behind
\* (direct.go:610-618).
RegainedInTime == net = "good" /\ ~full /\ age > Regain => verify > 0
=============================================================================
