-------------------------- MODULE ProbeClockProofs --------------------------
(***************************************************************************)
(* Machine-checked proofs about ProbeClock, for any periods, deadlines and *)
(* streak limit.                                                           *)
(***************************************************************************)
EXTENDS ProbeClock, TLAPS

(* The periods, one by one. *)
LEMMA Periods ==
  /\ FirstProbe \in Nat \ {0} /\ FastPeriod \in Nat \ {0} /\ RetryPeriod \in Nat \ {0}
  /\ DialTimeout \in Nat \ {0} /\ OpenTimeout \in Nat \ {0} /\ EchoTimeout \in Nat \ {0}
  /\ Cooldown \in Nat \ {0} /\ Limit \in Nat \ {0} /\ MaxLine \in Nat \ {0}
  /\ Cut \in Nat \ {0} /\ Regain \in Nat \ {0}
BY PeriodsAssumption

USE DEF Timers, Waiting

Flags ==
  /\ clean \in BOOLEAN /\ late \in BOOLEAN
  /\ was \in BOOLEAN /\ full \in BOOLEAN /\ calm \in BOOLEAN

Places ==
  /\ pc \in {"select", "dial", "open", "echo"} \cup Waiting
  /\ armed \subseteq Timers /\ ready \subseteq Timers
  /\ mu \in {"free", "prober", "user"} /\ conn \in {"none", "open"} /\ net \in {"good", "black"}

Counts ==
  /\ left \in 0..(DialTimeout + OpenTimeout + EchoTimeout) /\ streak \in 0..Limit
  /\ due \in [first : 0..FirstProbe, fast : 1..FastPeriod, slow : 1..RetryPeriod]
  /\ hold \in 0..OpenTimeout /\ verify \in 0..VerifyTTL /\ cool \in 0..Cooldown
  /\ line \in 0..MaxLine /\ place \in 0..line /\ age \in 0..Oldest

Types == Flags /\ Places /\ Counts

(* Every variable keeps its type, step by step. *)
THEOREM Typing == Spec => []Types
<1>1. Init => Types
  <2> SUFFICES ASSUME Init PROVE Types
    OBVIOUS
  <2>1. Flags
    BY DEF Init, Flags
  <2>2. Places
    BY DEF Init, Places
  <2>3. Counts
    BY Periods DEF Init, Counts, VerifyTTL, Oldest
  <2> QED
    BY <2>1, <2>2, <2>3 DEF Types
<1>2. Types /\ [Next]_vars => Types'
  <2> SUFFICES ASSUME Types, [Next]_vars PROVE Types'
    OBVIOUS
  <2>1. CASE Fire
    <3>1. Flags'
      <4>1. was' \in BOOLEAN
        BY <2>1 DEF Fire, Queue
      <4> QED
        BY <2>1, <4>1 DEF Fire, Queue, Types, Flags, world
    <3>2. Places'
      BY <2>1 DEF Fire, Queue, Types, Places, path, world
    <3>3. Counts'
      BY <2>1 DEF Fire, Queue, Types, Counts, path, world
    <3> QED
      BY <3>1, <3>2, <3>3 DEF Types
  <2>2. CASE Acquire
    <3>1. Flags'
      BY <2>2 DEF Acquire, ItsTurn, Call, Types, Flags, world
    <3>2. Places'
      BY <2>2 DEF Acquire, ItsTurn, Call, Types, Places, path, world, timers
    <3>3. Counts'
      BY <2>2, Periods DEF Acquire, ItsTurn, Call, Types, Counts, path, world, timers
    <3> QED
      BY <3>1, <3>2, <3>3 DEF Types
  <2>3. CASE OpenDone \/ DialDone
    <3>1. Flags'
      BY <2>3 DEF OpenDone, DialDone, Call, Types, Flags, world
    <3>2. Places'
      BY <2>3 DEF OpenDone, DialDone, Call, Types, Places, path, world, timers
    <3>3. Counts'
      BY <2>3, Periods DEF OpenDone, DialDone, Call, Types, Counts, path, world, timers
    <3> QED
      BY <3>1, <3>2, <3>3 DEF Types
  <2>4. CASE CallFails \/ DialFails
    <3>1. Flags'
      BY <2>4 DEF CallFails, DialFails, Queue, Types, Flags, world
    <3>2. Places'
      BY <2>4 DEF CallFails, DialFails, Queue, Types, Places, path, world, timers
    <3>3. Counts'
      BY <2>4, Periods DEF CallFails, DialFails, Queue, Types, Counts, path, world, timers, VerifyTTL
    <3> QED
      BY <3>1, <3>2, <3>3 DEF Types
  <2>5. CASE Failed \/ Drop
    <3>1. Flags'
      BY <2>5 DEF Failed, Drop, Queue, ItsTurn, DropAndFail, Types, Flags
    <3>2. Places'
      BY <2>5 DEF Failed, Drop, Queue, ItsTurn, DropAndFail, FastAgain, CountFailure, Types, Places, path, timers
    <3>3. Counts'
      BY <2>5, Periods DEF Failed, Drop, Queue, ItsTurn, DropAndFail, CountFailure, Types, Counts, path, timers,
                           VerifyTTL, Oldest
    <3> QED
      BY <3>1, <3>2, <3>3 DEF Types
  <2>6. CASE EchoDone
    <3>1. Flags'
      BY <2>6 DEF EchoDone, Types, Flags, world
    <3>2. Places'
      BY <2>6 DEF EchoDone, Queue, Types, Places, path, world, timers
    <3>3. Counts'
      BY <2>6, Periods DEF EchoDone, Queue, Types, Counts, path, world, timers
    <3> QED
      BY <3>1, <3>2, <3>3 DEF Types
  <2>11. CASE ProbeHealthy
    <3>1. Flags'
      <4>1. calm' \in BOOLEAN
        BY <2>11 DEF ProbeHealthy, Types, Flags
      <4> QED
        BY <2>11, <4>1 DEF ProbeHealthy, Types, Flags, world
    <3>2. Places'
      BY <2>11 DEF ProbeHealthy, Queue, SlowAnew, Types, Places, world, timers
    <3>3. Counts'
      BY <2>11, Periods DEF ProbeHealthy, ItsTurn, Queue, SlowAnew, Types, Counts, world, timers, VerifyTTL
    <3> QED
      BY <3>1, <3>2, <3>3 DEF Types
  <2>7. CASE UserComes \/ UserTakes \/ UserReturns
    <3>1. Flags'
      BY <2>7 DEF UserComes, UserTakes, UserReturns, Less, prober, Types, Flags, world
    <3>2. Places'
      BY <2>7 DEF UserComes, UserTakes, UserReturns, Less, prober, Types, Places, path, world, timers
    <3>3. Counts'
      BY <2>7, Periods DEF UserComes, UserTakes, UserReturns, Less, prober, Types, Counts, path, world, timers
    <3> QED
      BY <3>1, <3>2, <3>3 DEF Types
  <2>8. CASE Turn \/ Crowd
    <3>1. Flags'
      BY <2>8 DEF Turn, Crowd, prober, Types, Flags
    <3>2. Places'
      BY <2>8 DEF Turn, Crowd, prober, Types, Places, path, timers
    <3>3. Counts'
      BY <2>8, Periods DEF Turn, Crowd, prober, Types, Counts, path, timers, Oldest
    <3> QED
      BY <3>1, <3>2, <3>3 DEF Types
  <2>9. CASE Second
    <3>1. Flags'
      BY <2>9 DEF Second, Types, Flags
    <3>2. Places'
      BY <2>9 DEF Second, Types, Places
    <3>3. Counts'
      BY <2>9, Periods DEF Second, Types, Counts, Less, VerifyTTL, Oldest
    <3> QED
      BY <3>1, <3>2, <3>3 DEF Types
  <2>10. CASE UNCHANGED vars
    BY <2>10 DEF vars, prober, timers, path, world, Types, Flags, Places, Counts
  <2> QED
    BY <2>1, <2>2, <2>3, <2>4, <2>5, <2>6, <2>7, <2>8, <2>9, <2>10, <2>11 DEF Next, Probe
<1> QED
  BY <1>1, <1>2, PTL DEF Spec

(* The type invariant as the run checks it (startProber, openStream). *)
THEOREM TypeCorrect == Spec => []TypeOK
<1>1. Types => TypeOK
  <2> SUFFICES ASSUME Types PROVE TypeOK
    OBVIOUS
  <2>1. {clean, late, was, full, calm} \subseteq BOOLEAN
    BY DEF Types, Flags
  <2> QED
    BY <2>1 DEF Types, Places, Counts, TypeOK
<1> QED
  BY <1>1, Typing, PTL

-----------------------------------------------------------------------------
(* A calm path stays verified.                                             *)

(* What a call of the prober may rely on. *)
Seat ==
  /\ mu = "prober" <=> pc \in {"dial", "open"}
  /\ pc \in {"dial", "open", "echo", "health"} => cool = 0
  /\ pc \in {"open", "echo", "drop", "health"} => conn = "open"
  /\ pc = "dial" => conn = "none"

(* On a calm path a probe takes no time, and the next one is always due a whole
   period before the verification ends. *)
Calm ==
  calm => /\ net = "good" /\ ~full /\ cool = 0 /\ conn = "open" /\ armed = {"slow"}
          /\ pc \in {"select", "lock", "echo", "health"}
          /\ pc = "echo" => clean /\ left > 0
          /\ pc \in {"lock", "echo", "health"} => ~late
          /\ verify >= RetryPeriod
          /\ pc = "select" /\ "slow" \notin ready => verify >= due.slow + RetryPeriod

(* The prober holds d.mu exactly during a dial or a stream open, and a call is
   made only on the connection and in the absence of cooldown openStream found. *)
LEMMA SeatHolds == Spec => []Seat
<1>1. Init => Seat
  BY DEF Init, Seat
<1>2. Types /\ Seat /\ [Next]_vars => Seat'
  <2> SUFFICES ASSUME Types, Seat, [Next]_vars PROVE Seat'
    OBVIOUS
  <2> USE DEF Seat, Types, Places
  <2>1. CASE Fire
    BY <2>1 DEF Fire, Queue, path
  <2>2. CASE Acquire
    BY <2>2 DEF Acquire, ItsTurn, Call, path
  <2>3. CASE OpenDone \/ DialDone
    BY <2>3 DEF OpenDone, DialDone, Call, path
  <2>4. CASE CallFails \/ DialFails
    BY <2>4 DEF CallFails, DialFails, Queue, path
  <2>5. CASE Failed \/ Drop
    BY <2>5 DEF Failed, Drop, Queue, ItsTurn, DropAndFail, path
  <2>6. CASE EchoDone
    BY <2>6 DEF EchoDone, Queue, path
  <2>11. CASE ProbeHealthy
    BY <2>11 DEF ProbeHealthy, Queue, ItsTurn
  <2>7. CASE UserComes \/ UserTakes \/ UserReturns
    BY <2>7 DEF UserComes, UserTakes, UserReturns, Less, prober, path
  <2>8. CASE Turn \/ Crowd
    BY <2>8 DEF Turn, Crowd, prober, path
  <2>9. CASE Second
    BY <2>9 DEF Second, Less
  <2>10. CASE UNCHANGED vars
    BY <2>10 DEF vars, prober, path
  <2> QED
    BY <2>1, <2>2, <2>3, <2>4, <2>5, <2>6, <2>7, <2>8, <2>9, <2>10, <2>11 DEF Next, Probe
<1> QED
  BY <1>1, <1>2, Typing, PTL DEF Spec

(* The schedule of a calm path: MarkVerified resets the slow ticker, so that a
   whole period is left when its next tick comes. *)
LEMMA CalmHolds == Spec => []Calm
<1>1. Init => Calm
  BY DEF Init, Calm
<1>2. Types /\ Seat /\ Calm /\ [Next]_vars => Calm'
  <2> SUFFICES ASSUME Types, Seat, Calm, [Next]_vars, calm' PROVE Calm'
    BY DEF Calm
  <2> USE Periods DEF Seat, Types, Places, Counts
  <2>1. CASE Fire
    BY <2>1 DEF Fire, Queue, path, world, Calm
  <2>2. CASE Acquire
    <3>1. calm /\ pc = "lock" /\ cool = 0 /\ conn = "open" /\ ~full /\ net = "good"
      BY <2>2 DEF Acquire, ItsTurn, Calm
    <3>2. Call("echo", EchoTimeout) /\ UNCHANGED <<late, timers, path, world>>
      BY <2>2, <3>1 DEF Acquire, ItsTurn
    <3>3. pc' = "echo" /\ left' = EchoTimeout /\ clean'
      BY <3>1, <3>2 DEF Call
    <3> QED
      BY <3>1, <3>2, <3>3 DEF path, world, timers, Calm
  <2>3. CASE OpenDone \/ DialDone
    BY <2>3 DEF OpenDone, DialDone, Call, path, world, timers, Calm
  <2>4. CASE CallFails \/ DialFails
    <3>1. ~DialFails
      BY DEF DialFails, Queue
    <3>2. calm /\ left = 0 /\ pc = "echo"
      BY <2>4, <3>1 DEF CallFails, Queue, Calm
    <3> QED
      BY <3>2 DEF Calm
  <2>5. CASE Failed \/ Drop
    BY <2>5 DEF Failed, Drop, Queue, ItsTurn, DropAndFail, path, timers, Calm
  <2>6. CASE EchoDone
    BY <2>6 DEF EchoDone, Queue, path, world, timers, Calm
  <2>11. CASE ProbeHealthy
    <3>1. /\ pc' = "select" /\ verify' = VerifyTTL /\ ~full /\ net = "good"
          /\ armed' = {"slow"} /\ SlowAnew
      <4>1. CASE late /\ UNCHANGED calm
        BY <2>11, <4>1 DEF ProbeHealthy, Calm
      <4>2. CASE pc' = "select" /\ verify' = VerifyTTL /\ calm' = (~full /\ net = "good")
                 /\ armed' = {"slow"} /\ SlowAnew
        BY <4>2
      <4> QED
        BY <2>11, <4>1, <4>2 DEF ProbeHealthy
    <3> QED
      BY <2>11, <3>1 DEF ProbeHealthy, SlowAnew, VerifyTTL, world, Calm
  <2>7. CASE UserComes \/ UserTakes \/ UserReturns
    BY <2>7 DEF UserComes, UserTakes, UserReturns, Less, prober, path, world, timers, Calm
  <2>8. CASE Turn \/ Crowd
    BY <2>8 DEF Turn, Crowd
  <2>9. CASE Second
    BY <2>9 DEF Second, Less, Urgent, Calm
  <2>10. CASE UNCHANGED vars
    BY <2>10 DEF vars, prober, path, world, timers, Calm
  <2> QED
    BY <2>1, <2>2, <2>3, <2>4, <2>5, <2>6, <2>7, <2>8, <2>9, <2>10, <2>11 DEF Next, Probe
<1> QED
  BY <1>1, <1>2, Typing, SeatHolds, PTL DEF Spec

(* The slow probe always comes before the verification TTL ends, whatever the
   periods are: a path that nothing disturbs never loses its verification or its
   connection (startProber, MarkVerified, verifyTTL). *)
THEOREM NeverLapses == Spec => []StaysVerified
<1>1. Types /\ Calm => StaysVerified
  BY Periods DEF Types, Counts, Calm, StaysVerified
<1> QED
  BY <1>1, Typing, CalmHolds, PTL

-----------------------------------------------------------------------------
(* A black hole is cut in bounded time.                                    *)

Longer(m, n) == IF m > n THEN m ELSE n

(* The longest wait for d.mu: the user who has it and those in line, each up to its
   deadline. *)
Lock == OpenTimeout + MaxLine * OpenTimeout

(* The longest wait for a tick, the longest call of a probe that has a
   connection, and a whole failing probe: the tick, d.mu, the call, d.mu again. *)
Wait == Longer(FastPeriod, RetryPeriod)
Call1 == Longer(OpenTimeout, EchoTimeout)
OneProbe == Wait + Lock + Call1 + Lock

(* Limit failing probes, between d.mu for the echo that came just before the path
   turned and d.mu for the drop. *)
Worst == Lock + Limit * OneProbe + Lock

(* The failing probes that are still to come after the present one. *)
More == IF streak = Limit THEN 0 ELSE Limit - streak - 1
Later == More * OneProbe

(* The prober always listens to a ticker, a path with a connection does not
   cool down, and d.mu is held only for as long as its holder says. *)
Ticking ==
  /\ "fast" \in armed \/ "slow" \in armed
  /\ conn = "open" => cool = 0
  /\ mu # "user" => hold = 0
  /\ pc \in {"open", "echo"} => left <= Call1

(* Seconds until the next tick, until d.mu is the prober's and until the call
   has failed, at most. *)
ToTick == IF armed \cap ready # {} THEN 0 ELSE IF "fast" \in armed THEN due.fast ELSE due.slow
Ahead == place * OpenTimeout
ToLock == hold + Ahead
ToFail == IF pc = "open" /\ ~full THEN Call1 ELSE left

(* What is left until the drop; the probe whose echo arrived comes on top. *)
Rest ==
  IF pc = "health" THEN ToLock + OneProbe + Later + Lock
  ELSE IF pc = "select" THEN ToTick + Lock + Call1 + Lock + Later + Lock
  ELSE IF pc = "lock" THEN ToLock + Call1 + Lock + Later + Lock
  ELSE IF pc \in {"open", "echo"} THEN ToFail + Lock + Later + Lock
  ELSE IF pc = "failed" THEN ToLock + Later + Lock
  ELSE ToLock

(* While the path is a black hole and its connection still there, every second
   that passes is one of those that are left. *)
OnTime == net = "black" /\ conn = "open" => age + Rest <= Worst

(* The periods bound the waits they make up. *)
LEMMA Sizes ==
  /\ Wait \in Nat /\ FastPeriod <= Wait /\ RetryPeriod <= Wait
  /\ Call1 \in Nat /\ OpenTimeout <= Call1 /\ EchoTimeout <= Call1
  /\ Lock \in Nat /\ OpenTimeout <= Lock
  /\ OneProbe \in Nat /\ OneProbe = Wait + Lock + Call1 + Lock
<1>1. ASSUME NEW m \in Nat, NEW c \in Nat PROVE m * c \in Nat
  OBVIOUS
<1>2. Lock \in Nat /\ OpenTimeout <= Lock
  BY <1>1, Periods DEF Lock
<1> QED
  BY <1>2, Periods DEF Wait, Call1, OneProbe, Longer

(* The users ahead of the prober take no longer than a full line, and one less
   takes one deadline less. *)
LEMMA LineTimes ==
  ASSUME NEW n \in 0..MaxLine
  PROVE  /\ n * OpenTimeout \in Nat /\ OpenTimeout + n * OpenTimeout <= Lock
         /\ n > 0 => (n - 1) * OpenTimeout + OpenTimeout = n * OpenTimeout
<1>1. PICK k \in Nat : MaxLine = n + k
  <2>1. MaxLine - n \in Nat
    BY Periods
  <2> QED
    BY <2>1, Periods
<1>2. ASSUME NEW m \in Nat, NEW j \in Nat, NEW c \in Nat
      PROVE  m * c \in Nat /\ j * c \in Nat /\ (m + j) * c = m * c + j * c
  OBVIOUS
<1>3. /\ n * OpenTimeout \in Nat /\ k * OpenTimeout \in Nat
      /\ MaxLine * OpenTimeout = n * OpenTimeout + k * OpenTimeout
  BY <1>1, <1>2, Periods
<1>4. OpenTimeout + n * OpenTimeout <= Lock
  BY <1>3, Periods DEF Lock
<1>5. ASSUME NEW m \in Nat, NEW c \in Nat, m > 0 PROVE (m - 1) * c + c = m * c
  BY <1>5
<1> QED
  BY <1>3, <1>4, <1>5, Periods

(* They are constants. *)
LEMMA SizesFixed == UNCHANGED <<Lock, Wait, Call1, OneProbe, Worst>>
BY DEF Lock, Wait, Call1, OneProbe, Worst, Longer

(* The worst case is a number. *)
LEMMA WorstNat == Worst \in Nat
<1>1. ASSUME NEW m \in Nat, NEW c \in Nat PROVE m * c \in Nat
  OBVIOUS
<1> QED
  BY <1>1, Periods, Sizes DEF Worst

(* The probes to come are at most all but one of the limit. *)
LEMMA LaterBound ==
  ASSUME streak \in 0..Limit
  PROVE  Later \in Nat /\ Lock + Later + OneProbe + Lock <= Worst
<1>1. More \in Nat /\ More + 1 <= Limit
  BY Periods DEF More
<1>2. PICK k \in Nat : Limit = More + 1 + k
  <2>1. Limit - (More + 1) \in Nat
    BY <1>1, Periods
  <2> QED
    BY <1>1, <2>1, Periods
<1>3. ASSUME NEW m \in Nat, NEW j \in Nat, NEW c \in Nat
      PROVE  m * c \in Nat /\ j * c \in Nat /\ (m + 1 + j) * c = m * c + c + j * c
  OBVIOUS
<1>4. /\ Later \in Nat /\ k * OneProbe \in Nat
      /\ Limit * OneProbe = Later + OneProbe + k * OneProbe
  BY <1>1, <1>2, <1>3, Sizes DEF Later
<1>5. Limit * OneProbe \in Nat /\ Later + OneProbe <= Limit * OneProbe
  BY <1>4, Sizes
<1> QED
  BY <1>4, <1>5, Sizes, Periods DEF Worst

(* A failure that is not the last leaves one probe less. *)
LEMMA LaterShrinks ==
  ASSUME streak \in 0..Limit, CountFailure, streak' # Limit
  PROVE  Later' + OneProbe = Later
<1>1. More' \in Nat /\ More = More' + 1
  BY Periods DEF More, CountFailure
<1>2. ASSUME NEW m \in Nat, NEW c \in Nat PROVE m * c + c = (m + 1) * c
  OBVIOUS
<1> QED
  BY <1>1, <1>2, Sizes DEF Later

(* What the countdown rests on: startProber never listens to no ticker, and the
   calls and the holders of d.mu keep their deadlines. *)
LEMMA TickingHolds == Spec => []Ticking
<1>1. Init => Ticking
  BY DEF Init, Ticking
<1>2. Types /\ Seat /\ Ticking /\ [Next]_vars => Ticking'
  <2> SUFFICES ASSUME Types, Seat, Ticking, [Next]_vars PROVE Ticking'
    OBVIOUS
  <2> USE Periods, Sizes DEF Seat, Types, Places, Counts, Ticking
  <2>1. CASE Fire
    BY <2>1 DEF Fire, Queue, path
  <2>2. CASE Acquire
    BY <2>2 DEF Acquire, ItsTurn, Call, path, timers
  <2>3. CASE OpenDone \/ DialDone
    BY <2>3 DEF OpenDone, DialDone, Call, path, timers
  <2>4. CASE CallFails \/ DialFails
    BY <2>4 DEF CallFails, DialFails, Queue, path, timers
  <2>5. CASE Failed \/ Drop
    BY <2>5 DEF Failed, Drop, Queue, ItsTurn, DropAndFail, FastAgain, path, timers
  <2>6. CASE EchoDone
    BY <2>6 DEF EchoDone, Queue, path, timers
  <2>11. CASE ProbeHealthy
    BY <2>11 DEF ProbeHealthy, ItsTurn, Queue, timers
  <2>7. CASE UserComes \/ UserTakes \/ UserReturns
    BY <2>7 DEF UserComes, UserTakes, UserReturns, Less, prober, path, timers
  <2>8. CASE Turn \/ Crowd
    BY <2>8 DEF Turn, Crowd, prober, path, timers
  <2>9. CASE Second
    BY <2>9 DEF Second, Less
  <2>10. CASE UNCHANGED vars
    BY <2>10 DEF vars, prober, path, timers
  <2> QED
    BY <2>1, <2>2, <2>3, <2>4, <2>5, <2>6, <2>7, <2>8, <2>9, <2>10, <2>11 DEF Next, Probe
<1> QED
  BY <1>1, <1>2, Typing, SeatHolds, PTL DEF Spec

Bounded == /\ ToTick \in 0..Wait /\ ToLock \in 0..Lock
           /\ pc \in {"open", "echo"} => ToFail \in 0..Call1
           /\ pc # "dial" => Rest \in Nat /\ Rest <= Worst

(* What is left is never more than the worst case. *)
LEMMA RestBound == Types /\ Ticking => Bounded
<1> SUFFICES ASSUME Types, Ticking PROVE Bounded
  OBVIOUS
<1>1. ToTick \in 0..Wait
  BY Periods, Sizes DEF ToTick, Types, Counts
<1>2. ToLock \in 0..Lock
  <2>1. place \in 0..MaxLine /\ hold \in 0..OpenTimeout
    BY Periods DEF Types, Counts
  <2> QED
    BY <2>1, LineTimes, Periods, Sizes DEF ToLock, Ahead
<1>3. pc \in {"open", "echo"} => ToFail \in 0..Call1
  BY Periods, Sizes DEF ToFail, Types, Counts, Ticking
<1>4. Later \in Nat /\ Lock + Later + OneProbe + Lock <= Worst /\ Worst \in Nat
  BY LaterBound, WorstNat DEF Types, Counts
<1>5. pc # "dial" => Rest \in Nat /\ Rest <= Worst
  BY <1>1, <1>2, <1>3, <1>4, Periods, Sizes DEF Rest, Types, Places
<1> QED
  BY <1>1, <1>2, <1>3, <1>5 DEF Bounded

(* Neither in the state a step leads to. *)
LEMMA RestBoundNext == Types' /\ Ticking' => Bounded'
BY RestBound, PTL

(* A second brings the next tick nearer. *)
LEMMA TickNears ==
  ASSUME Types, Ticking, Second
  PROVE  /\ armed \cap ready = {} => ToTick' + 1 <= ToTick
         /\ armed \cap ready # {} => ToTick' = 0
<1> USE Periods DEF Second
<1>1. armed \cap ready # {} => ToTick' = 0
  BY DEF ToTick
<1>2. ASSUME armed \cap ready = {} PROVE ToTick' + 1 <= ToTick
  <2>1. CASE "fast" \in armed
    <3>1. ToTick = due.fast /\ due.fast \in 1..FastPeriod
      BY <1>2, <2>1 DEF ToTick, Types, Counts
    <3>2. CASE due.fast = 1
      <4>1. armed' \cap ready' # {}
        BY <2>1, <3>2
      <4> QED
        BY <3>1, <3>2, <4>1 DEF ToTick
    <3>3. CASE due.fast # 1
      <4>1. due'.fast = due.fast - 1
        BY <3>3
      <4> QED
        BY <2>1, <3>1, <3>3, <4>1 DEF ToTick
    <3> QED
      BY <3>2, <3>3
  <2>2. CASE "fast" \notin armed
    <3>1. ToTick = due.slow /\ "slow" \in armed /\ due.slow \in 1..RetryPeriod
      BY <1>2, <2>2 DEF ToTick, Ticking, Types, Counts
    <3>2. CASE due.slow = 1
      <4>1. armed' \cap ready' # {}
        BY <3>1, <3>2
      <4> QED
        BY <3>1, <3>2, <4>1 DEF ToTick
    <3>3. CASE due.slow # 1
      <4>1. due'.slow = due.slow - 1
        BY <3>3
      <4> QED
        BY <2>2, <3>1, <3>3, <4>1 DEF ToTick
    <3> QED
      BY <3>2, <3>3
  <2> QED
    BY <2>1, <2>2
<1> QED
  BY <1>1, <1>2

(* A sum gets shorter by as much as one of its terms. *)
LEMMA Shorter ==
  ASSUME NEW x \in Nat, NEW y \in Nat, NEW d \in Nat, NEW k \in Nat, y + d <= x
  PROVE  (y + k) + d <= x + k
OBVIOUS

(* While the prober stays where it is, only the wait it is in gets shorter. *)
LEMMA RestFalls ==
  ASSUME Types, Bounded, Bounded', Later \in Nat, UNCHANGED <<pc, streak>>, pc # "dial",
         NEW d \in Nat,
         pc = "select" => ToTick' + d <= ToTick,
         pc \in Waiting => ToLock' + d <= ToLock,
         pc \in {"open", "echo"} => ToFail' + d <= ToFail
  PROVE  Rest' + d <= Rest
<1> USE Periods, Sizes, SizesFixed DEF Bounded
<1>1. Later' = Later
  BY DEF Later, More
<1>2. CASE pc = "select"
  <2>1. PICK k \in Nat : k = Lock + Call1 + Lock + Later + Lock
    OBVIOUS
  <2>2. Rest = ToTick + k /\ Rest' = ToTick' + k
    BY <1>1, <1>2, <2>1 DEF Rest
  <2>3. PICK x \in Nat, y \in Nat : x = ToTick /\ y = ToTick'
    BY <1>2
  <2>4. (y + k) + d <= x + k
    BY <1>2, <2>3, Shorter
  <2> QED
    BY <2>2, <2>3, <2>4, Zenon
<1>3. CASE pc \in Waiting
  <2>1. PICK k \in Nat : Rest = ToLock + k /\ Rest' = ToLock' + k
    <3>1. CASE pc = "lock"
      <4>1. Call1 + Lock + Later + Lock \in Nat
        OBVIOUS
      <4>2. /\ Rest = ToLock + (Call1 + Lock + Later + Lock)
            /\ Rest' = ToLock' + (Call1 + Lock + Later + Lock)
        BY <1>1, <3>1 DEF Rest
      <4> QED
        BY <4>1, <4>2
    <3>2. CASE pc = "failed"
      <4>1. Later + Lock \in Nat
        OBVIOUS
      <4>2. Rest = ToLock + (Later + Lock) /\ Rest' = ToLock' + (Later + Lock)
        BY <1>1, <3>2 DEF Rest
      <4> QED
        BY <4>1, <4>2
    <3>3. CASE pc = "drop"
      <4>1. Rest = ToLock /\ Rest' = ToLock'
        BY <3>3 DEF Rest
      <4>2. ASSUME NEW n \in Nat PROVE n = n + 0
        OBVIOUS
      <4>3. ToLock \in Nat /\ ToLock' \in Nat
        OBVIOUS
      <4>4. ToLock = ToLock + 0 /\ ToLock' = ToLock' + 0
        BY <4>2, <4>3, Zenon
      <4> QED
        BY <4>1, <4>4
    <3>4. CASE pc = "health"
      <4>1. OneProbe + Later + Lock \in Nat
        OBVIOUS
      <4>2. /\ Rest = ToLock + (OneProbe + Later + Lock)
            /\ Rest' = ToLock' + (OneProbe + Later + Lock)
        BY <1>1, <3>4 DEF Rest
      <4> QED
        BY <4>1, <4>2
    <3> QED
      BY <1>3, <3>1, <3>2, <3>3, <3>4
  <2>2. PICK x \in Nat, y \in Nat : x = ToLock /\ y = ToLock'
    OBVIOUS
  <2>3. (y + k) + d <= x + k
    BY <1>3, <2>2, Shorter
  <2> QED
    BY <2>1, <2>2, <2>3, Zenon
<1>4. CASE pc \in {"open", "echo"}
  <2>1. PICK k \in Nat : k = Lock + Later + Lock
    OBVIOUS
  <2>2. Rest = ToFail + k /\ Rest' = ToFail' + k
    BY <1>1, <1>4, <2>1 DEF Rest
  <2>3. PICK x \in Nat, y \in Nat : x = ToFail /\ y = ToFail'
    BY <1>4
  <2>4. (y + k) + d <= x + k
    BY <1>4, <2>3, Shorter
  <2> QED
    BY <2>2, <2>3, <2>4, Zenon
<1> QED
  BY <1>2, <1>3, <1>4 DEF Types, Places

(* A user who has its turn takes its own time and no more, and one who comes is
   behind the prober. *)
LEMMA UserWaits ==
  ASSUME Types, Ticking, pc \in Waiting, UserComes \/ UserTakes \/ UserReturns
  PROVE  ToLock' <= ToLock
<1> USE Periods DEF Types, Counts
<1>1. place \in 0..MaxLine /\ hold \in Nat
  OBVIOUS
<1>2. Ahead \in Nat
  BY <1>1, LineTimes DEF Ahead
<1>3. CASE UserComes
  BY <1>1, <1>2, <1>3 DEF UserComes, prober, ToLock, Ahead
<1>4. CASE UserReturns
  <2>1. hold' = 0 /\ Ahead' = Ahead
    BY <1>4 DEF UserReturns, prober, Ahead
  <2> QED
    BY <1>1, <1>2, <2>1 DEF ToLock
<1>5. CASE UserTakes
  <2>1. place > 0 /\ place' = place - 1 /\ hold = 0 /\ hold' \in {0, OpenTimeout}
    BY <1>1, <1>5 DEF UserTakes, Less, Ticking
  <2>2. (place - 1) * OpenTimeout + OpenTimeout = Ahead
    BY <1>1, <2>1, LineTimes DEF Ahead
  <2>3. PICK x \in Nat : x = (place - 1) * OpenTimeout
    <3>1. place - 1 \in 0..MaxLine
      BY <1>1, <2>1
    <3> QED
      BY <3>1, LineTimes
  <2>4. Ahead' = x
    BY <2>1, <2>3 DEF Ahead
  <2> QED
    BY <2>1, <2>2, <2>3, <2>4 DEF ToLock
<1> QED
  BY <1>3, <1>4, <1>5

(* The time since the path turned and the time left never add up to more than the
   worst case: each step of the prober uses up at most the wait it ends, and each
   second that passes is one of a wait (startProber, openStream, dropAndFail). *)
LEMMA OnTimeHolds == Cut >= Worst => (Spec => []OnTime)
<1> SUFFICES ASSUME Cut >= Worst PROVE Spec => []OnTime
  OBVIOUS
<1>1. Init => OnTime
  BY DEF Init, OnTime
<1>2. Types /\ Types' /\ Seat /\ Seat' /\ Ticking /\ Ticking' /\ OnTime /\ [Next]_vars => OnTime'
  <2> SUFFICES ASSUME Types, Types', Seat, Seat', Ticking, Ticking', OnTime, [Next]_vars,
                      net' = "black", conn' = "open"
               PROVE  age' + Rest' <= Worst
    BY DEF OnTime
  <2>0. Bounded /\ Bounded' /\ Worst \in Nat
    BY RestBound, RestBoundNext, WorstNat
  <2>1. /\ age \in Nat /\ age' \in Nat /\ Later \in Nat
    BY LaterBound, Periods DEF Types, Counts, Oldest
  <2>2. pc' # "dial" /\ (conn = "open" => pc # "dial")
    BY DEF Seat
  <2>3. UNCHANGED streak => Later' = Later
    BY DEF Later, More
  <2> USE Periods, Sizes, SizesFixed, <2>0, <2>1, <2>2 DEF Bounded
  <2>4. ASSUME UNCHANGED <<net, age>>, conn = "open", Rest' <= Rest
        PROVE  age' + Rest' <= Worst
    BY <2>4 DEF OnTime
  <2>5. CASE Fire
    <3>1. pc = "select" /\ pc' = "lock" /\ UNCHANGED <<streak, conn, net, age>>
      BY <2>5 DEF Fire, Queue, path, world
    <3>2. PICK k \in Nat : k = Call1 + Lock + Later + Lock
      OBVIOUS
    <3>3. Rest = ToTick + (Lock + k) /\ Rest' = ToLock' + k
      BY <2>3, <3>1, <3>2 DEF Rest
    <3>4. ASSUME NEW x \in Nat, NEW y \in Nat, y <= Lock PROVE y + k <= x + (Lock + k)
      BY <3>4
    <3>5. PICK x \in Nat, y \in Nat : x = ToTick /\ y = ToLock' /\ y <= Lock
      OBVIOUS
    <3>6. y + k <= x + (Lock + k)
      BY <3>4, <3>5
    <3>7. Rest' <= Rest
      BY <3>3, <3>5, <3>6, Zenon
    <3> QED
      BY <2>4, <3>1, <3>7
  <2>6. CASE Acquire
    <3>1. pc = "lock" /\ conn = "open" /\ cool = 0 /\ UNCHANGED <<streak, conn, net, age>>
      BY <2>6 DEF Acquire, ItsTurn, path, world, Ticking
    <3>2. pc' \in {"open", "echo"}
      BY <2>6, <3>1 DEF Acquire, ItsTurn, Call
    <3>3. Rest' <= Rest
      BY <2>3, <3>1, <3>2 DEF Rest
    <3> QED
      BY <2>4, <3>1, <3>3
  <2>7. CASE OpenDone
    <3>1. pc = "open" /\ ~full /\ pc' = "echo" /\ conn = "open" /\ UNCHANGED <<streak, conn, net, age>>
      BY <2>7 DEF OpenDone, Call, path, world
    <3>2. ToFail = Call1
      BY <3>1 DEF ToFail
    <3>3. Rest' <= Rest
      BY <2>3, <3>1, <3>2 DEF Rest
    <3> QED
      BY <2>4, <3>1, <3>3
  <2>8. CASE CallFails
    <3>1. pc \in {"open", "echo"} /\ pc' = "failed" /\ conn = "open" /\ UNCHANGED <<streak, conn, net, age>>
      BY <2>8 DEF CallFails, Queue, path, world
    <3>2. Rest' <= Rest
      BY <2>3, <3>1 DEF Rest
    <3> QED
      BY <2>4, <3>1, <3>2
  <2>9. ~DialDone /\ ~EchoDone /\ ~DialFails /\ ~Drop
    <3>1. ~DialDone /\ ~EchoDone
      BY DEF DialDone, EchoDone, world
    <3>2. ~DialFails
      BY DEF DialFails, Queue, Seat
    <3>3. ~Drop
      BY DEF Drop, ItsTurn, DropAndFail
    <3> QED
      BY <3>1, <3>2, <3>3
  <2>10. CASE Failed
    <3>1. /\ pc = "failed" /\ conn = "open" /\ CountFailure /\ UNCHANGED <<net, age>>
          /\ pc' = (IF streak' = Limit THEN "drop" ELSE "select")
      BY <2>10 DEF Failed, Queue, ItsTurn, DropAndFail, path
    <3>2. CASE streak' = Limit
      <4>1. Rest' <= Rest
        BY <3>1, <3>2 DEF Rest
      <4> QED
        BY <2>4, <3>1, <4>1
    <3>3. CASE streak' # Limit
      <4>1. Later' + OneProbe = Later /\ Later' \in Nat
        <5>1. Later' + OneProbe = Later
          BY <3>1, <3>3, LaterShrinks DEF Types, Counts
        <5>2. More' \in Nat
          BY <3>1, <3>3 DEF More, CountFailure, Types, Counts
        <5>3. ASSUME NEW m \in Nat, NEW c \in Nat PROVE m * c \in Nat
          OBVIOUS
        <5> QED
          BY <5>1, <5>2, <5>3 DEF Later
      <4>2. pc' = "select" /\ ToTick' <= Wait
        BY <3>1, <3>3
      <4>3. /\ Rest' = ToTick' + Lock + Call1 + Lock + Later' + Lock
            /\ Rest = ToLock + Later + Lock
        BY <3>1, <4>2 DEF Rest
      <4>4. ASSUME NEW w \in 0..Wait, NEW x \in Nat, NEW m \in Nat, NEW n \in Nat, m + OneProbe = n
            PROVE  w + Lock + Call1 + Lock + m + Lock <= x + n + Lock
        BY <4>4
      <4>5. PICK w \in 0..Wait, x \in Nat, m \in Nat, n \in Nat :
              w = ToTick' /\ x = ToLock /\ m = Later' /\ n = Later /\ m + OneProbe = n
        <5>1. ToTick' \in 0..Wait /\ ToLock \in Nat
          OBVIOUS
        <5> QED
          BY <2>1, <4>1, <5>1, Zenon
      <4>6. w + Lock + Call1 + Lock + m + Lock <= x + n + Lock
        BY <4>4, <4>5
      <4>7. Rest' <= Rest
        BY <4>3, <4>5, <4>6, Zenon
      <4> QED
        BY <2>4, <3>1, <4>7
    <3> QED
      BY <3>2, <3>3
  <2>11. CASE UserComes \/ UserTakes \/ UserReturns
    <3>1. UNCHANGED <<pc, left, streak, armed, ready, due, conn, full, net, age>>
      BY <2>11 DEF UserComes, UserTakes, UserReturns, prober, timers, path, world
    <3>2. ToTick' = ToTick /\ ToFail' = ToFail
      BY <3>1 DEF ToTick, ToFail
    <3>3. pc \in Waiting => ToLock' <= ToLock
      BY <2>11, UserWaits
    <3>4. /\ ToTick' + 0 <= ToTick
          /\ pc \in Waiting => ToLock' + 0 <= ToLock
          /\ pc \in {"open", "echo"} => ToFail' + 0 <= ToFail
      <4>1. ASSUME NEW x \in Nat, NEW y \in Nat, y <= x PROVE y + 0 <= x
        BY <4>1
      <4>2. ToTick \in Nat /\ ToTick' \in Nat /\ ToTick' <= ToTick
        BY <3>2
      <4>3. ToLock \in Nat /\ ToLock' \in Nat
        OBVIOUS
      <4>4. pc \in {"open", "echo"} => ToFail \in Nat /\ ToFail' \in Nat /\ ToFail' <= ToFail
        BY <3>1, <3>2
      <4> QED
        BY <3>3, <4>1, <4>2, <4>3, <4>4, Zenon
    <3>5. pc # "dial"
      BY <3>1
    <3>6. Rest' + 0 <= Rest
      BY <3>1, <3>4, <3>5, RestFalls
    <3>7. Rest \in Nat /\ Rest' \in Nat
      BY <3>1
    <3>8. ASSUME NEW x \in Nat, NEW y \in Nat, y + 0 <= x PROVE y <= x
      BY <3>8
    <3>9. Rest' <= Rest
      BY <3>6, <3>7, <3>8, Zenon
    <3> QED
      BY <2>4, <3>1, <3>9
  <2>16. CASE ProbeHealthy
    <3>1. pc = "health" /\ pc' \in {"select", "drop"} /\ UNCHANGED <<streak, conn, net, age>>
      BY <2>16 DEF ProbeHealthy, Queue, world
    <3>2. Rest = ToLock + OneProbe + Later + Lock
      BY <3>1 DEF Rest
    <3>3. ASSUME NEW x \in 0..Wait, NEW y \in Nat, NEW n \in Nat
          PROVE  /\ x + Lock + Call1 + Lock + n + Lock <= y + OneProbe + n + Lock
                 /\ \A z \in 0..Lock : z <= y + OneProbe + n + Lock
      OBVIOUS
    <3>4. PICK x \in 0..Wait, y \in Nat, z \in 0..Lock, n \in Nat :
            x = ToTick' /\ y = ToLock /\ z = ToLock' /\ n = Later
      <4>1. ToTick' \in 0..Wait /\ ToLock \in Nat /\ ToLock' \in 0..Lock
        OBVIOUS
      <4> QED
        BY <2>1, <4>1, Zenon
    <3>5. ASSUME pc' = "select" PROVE Rest' <= Rest
      <4>1. Rest' = ToTick' + Lock + Call1 + Lock + Later + Lock
        BY <2>3, <3>1, <3>5 DEF Rest
      <4>2. x + Lock + Call1 + Lock + n + Lock <= y + OneProbe + n + Lock
        BY <3>3, <3>4
      <4> QED
        BY <3>2, <3>4, <4>1, <4>2, Zenon
    <3>6. ASSUME pc' = "drop" PROVE Rest' <= Rest
      <4>1. Rest' = ToLock'
        BY <3>6 DEF Rest
      <4>2. z <= y + OneProbe + n + Lock
        BY <3>3, <3>4
      <4> QED
        BY <3>2, <3>4, <4>1, <4>2, Zenon
    <3>7. Rest' <= Rest /\ conn = "open"
      BY <3>1, <3>5, <3>6
    <3> QED
      BY <2>4, <3>1, <3>7
  <2>12. CASE Turn
    BY <2>12 DEF Turn
  <2>13. CASE Crowd
    <3>1. UNCHANGED <<pc, left, streak, place, hold, armed, ready, due, conn, net, age>> /\ ~full
      BY <2>13 DEF Crowd, prober, timers, path
    <3>2. ToTick' = ToTick /\ ToLock' = ToLock
      BY <3>1 DEF ToTick, ToLock, Ahead
    <3>3. pc \in {"open", "echo"} => ToFail' <= ToFail
      BY <3>1 DEF ToFail, Types, Counts, Ticking
    <3>4. Rest' <= Rest
      BY <2>3, <3>1, <3>2, <3>3 DEF Rest, Types, Places
    <3> QED
      BY <2>4, <3>1, <3>4
  <2>14. CASE Second
    <3>1. UNCHANGED <<pc, streak, armed, mu, conn, net, full>> /\ ~Urgent
      BY <2>14 DEF Second
    <3>2. pc = "select" => ToTick' + 1 <= ToTick
      BY <2>14, <3>1, TickNears DEF Urgent
    <3>3. pc \in Waiting => ToLock' + 1 <= ToLock
      <4> SUFFICES ASSUME pc \in Waiting PROVE ToLock' + 1 <= ToLock
        OBVIOUS
      <4>1. mu = "user" /\ hold # 0
        BY <3>1 DEF Urgent, Seat, Types, Places
      <4>2. hold' = hold - 1 /\ Ahead' = Ahead
        BY <2>14, <4>1 DEF Second, Less, Ahead
      <4>3. place \in 0..MaxLine /\ hold \in Nat
        BY DEF Types, Counts
      <4>4. Ahead \in Nat
        BY <4>3, LineTimes DEF Ahead
      <4> QED
        BY <4>1, <4>2, <4>3, <4>4 DEF ToLock
    <3>4. pc \in {"open", "echo"} => ToFail' + 1 <= ToFail
      <4> SUFFICES ASSUME pc \in {"open", "echo"} PROVE ToFail' + 1 <= ToFail
        OBVIOUS
      <4>1. left # 0 /\ (pc = "open" => full)
        BY <3>1 DEF Urgent
      <4>2. left' = left - 1
        BY <2>14, <4>1 DEF Second, Less
      <4> QED
        BY <3>1, <4>1, <4>2 DEF ToFail, Types, Counts
    <3>5. Rest' + 1 <= Rest
      BY <3>1, <3>2, <3>3, <3>4, RestFalls
    <3>6. age' <= age + 1
      BY <2>14 DEF Second
    <3> QED
      BY <3>1, <3>5, <3>6 DEF OnTime
  <2>15. CASE UNCHANGED vars
    <3>1. Rest' = Rest /\ UNCHANGED <<net, age, conn>>
      BY <2>3, <2>15 DEF vars, prober, timers, path, world, Rest, ToTick, ToLock, Ahead, ToFail
    <3> QED
      BY <2>4, <3>1
  <2> QED
    BY <2>5, <2>6, <2>7, <2>8, <2>9, <2>10, <2>11, <2>12, <2>13, <2>14, <2>15, <2>16 DEF Next, Probe
<1> QED
  BY <1>1, <1>2, Typing, SeatHolds, TickingHolds, PTL DEF Spec

(* However the users block with d.mu at the stream limit, MaxLine of them in line, and
   whatever the periods are, a black hole is found out after Limit failing probes:
   the connection is cut within Worst seconds (startProber, openStream, probeHealthy,
   dropAndFail). *)
THEOREM BoundedCut == Cut >= Worst => (Spec => []CutInTime)
<1> SUFFICES ASSUME Cut >= Worst PROVE Spec => []CutInTime
  OBVIOUS
<1>1. Types /\ Seat /\ Ticking /\ OnTime => CutInTime
  <2> SUFFICES ASSUME Types, Seat, Ticking, OnTime, net = "black", conn = "open" PROVE age <= Cut
    BY Periods DEF CutInTime, Types, Places, Counts, Oldest
  <2>1. pc # "dial" /\ Bounded
    BY RestBound DEF Seat
  <2> QED
    BY <2>1, WorstNat, Periods DEF OnTime, Bounded, Types, Counts, Oldest
<1>2. Spec => []OnTime
  BY OnTimeHolds
<1> QED
  BY <1>1, <1>2, Typing, SeatHolds, TickingHolds, PTL

-----------------------------------------------------------------------------
(* A path that works again is verified again in bounded time.              *)

(* From a drop, and from a dial that failed, to the next probe that is not
   turned away by the cooldown. *)
AfterDrop == Cooldown + Wait - 1
AfterDial == Cooldown + FastPeriod - 1

(* The worst case: the call that was under way when the path came back runs into
   its deadline first. *)
Back == Longer(DialTimeout + FastPeriod, EchoTimeout + Wait) + Cooldown - 1

(* The prober's cadence, and the seconds until a tick that is heeded. *)
Period == IF "fast" \in armed THEN FastPeriod ELSE RetryPeriod
ToProbe == IF cool > 0 THEN cool + Period - 1 ELSE ToTick

(* Seconds until a prompt echo, at most. *)
ToCalm ==
  IF pc = "select" \/ (pc = "lock" /\ cool > 0) THEN ToProbe
  ELSE IF pc = "dial" /\ ~clean THEN Longer(left + AfterDial, ToTick)
  ELSE IF pc = "echo" /\ ~clean THEN left + AfterDrop
  ELSE IF pc \in {"lock", "dial", "echo", "health"} /\ ~late THEN 0
  ELSE IF pc \in {"echo", "health"} /\ ~was THEN ToTick
  ELSE IF pc = "failed" /\ conn = "none" THEN AfterDial
  ELSE AfterDrop

(* Calls keep their deadlines and those on a good path do not wait for them; without
   a connection there is neither a stream limit nor a verification to lose. *)
Prompt ==
  /\ pc = "dial" => left <= DialTimeout
  /\ pc = "echo" => left <= EchoTimeout
  /\ pc \in {"dial", "echo"} /\ clean => left > 0
  /\ conn = "none" => ~full /\ verify = 0
  /\ conn = "none" /\ pc \in {"lock", "dial"} => ~was

(* While the path works and has not been verified on that account, every second
   that passes is one of those that are left. *)
Returning == net = "good" /\ ~full /\ ~calm => age + ToCalm <= Back

(* The waits after a failure, and what they add up to. *)
LEMMA Spans ==
  /\ AfterDrop \in Nat /\ AfterDial \in Nat /\ Back \in Nat
  /\ Wait <= AfterDrop /\ AfterDial <= AfterDrop /\ AfterDrop <= Back
  /\ DialTimeout + AfterDial <= Back /\ EchoTimeout + AfterDrop <= Back
  /\ AfterDrop = Cooldown + Wait - 1 /\ AfterDial = Cooldown + FastPeriod - 1
BY Periods, Sizes DEF AfterDrop, AfterDial, Back, Longer

(* They are constants. *)
LEMMA SpansFixed == UNCHANGED <<Wait, AfterDrop, AfterDial, Back>>
BY DEF Wait, AfterDrop, AfterDial, Back, Longer

(* The deadlines of openStream and of the round trip, and what dropAndFail and
   MarkFailed leave behind. *)
LEMMA PromptHolds == Spec => []Prompt
<1>1. Init => Prompt
  BY DEF Init, Prompt
<1>2. Types /\ Seat /\ Prompt /\ [Next]_vars => Prompt'
  <2> SUFFICES ASSUME Types, Seat, Prompt, [Next]_vars PROVE Prompt'
    OBVIOUS
  <2> USE Periods DEF Seat, Types, Places, Counts, Prompt
  <2>1. CASE Fire
    <3>1. pc' = "lock" /\ UNCHANGED <<conn, verify, full>> /\ was' = (verify > 0)
      BY <2>1 DEF Fire, Queue, path, world
    <3>2. conn = "none" => ~(verify > 0)
      OBVIOUS
    <3>3. conn = "none" => ~was'
      BY <3>1, <3>2, Zenon
    <3> QED
      BY <3>1, <3>3
  <2>2. CASE Acquire
    BY <2>2 DEF Acquire, ItsTurn, Call, path, world
  <2>3. CASE OpenDone \/ DialDone
    BY <2>3 DEF OpenDone, DialDone, Call, path, world
  <2>4. CASE CallFails \/ DialFails
    BY <2>4 DEF CallFails, DialFails, Queue, path, world
  <2>5. CASE Failed \/ Drop
    BY <2>5 DEF Failed, Drop, Queue, ItsTurn, DropAndFail, path
  <2>6. CASE EchoDone
    BY <2>6 DEF EchoDone, Queue, path, world
  <2>11. CASE ProbeHealthy
    BY <2>11 DEF ProbeHealthy, Queue, world
  <2>7. CASE UserComes \/ UserTakes \/ UserReturns
    BY <2>7 DEF UserComes, UserTakes, UserReturns, Less, prober, path, world
  <2>8. CASE Turn \/ Crowd
    BY <2>8 DEF Turn, Crowd, prober, path
  <2>9. CASE Second
    BY <2>9 DEF Second, Less, Urgent
  <2>10. CASE UNCHANGED vars
    BY <2>10 DEF vars, prober, path, world
  <2> QED
    BY <2>1, <2>2, <2>3, <2>4, <2>5, <2>6, <2>7, <2>8, <2>9, <2>10, <2>11 DEF Next, Probe
<1> QED
  BY <1>1, <1>2, Typing, SeatHolds, PTL DEF Spec

Near == /\ Period \in 1..Wait /\ ToTick \in 0..Period
        /\ ToProbe \in Nat /\ ToProbe <= AfterDrop
        /\ ToCalm \in Nat /\ ToCalm <= Back

(* What is left is never more than the worst case, ... *)
LEMMA CalmBound == Types /\ Ticking /\ Prompt => Near
<1> SUFFICES ASSUME Types, Ticking, Prompt PROVE Near
  OBVIOUS
<1> USE Periods, Sizes, Spans DEF Types, Counts
<1>1. Period \in 1..Wait /\ ToTick \in 0..Period
  BY DEF Period, ToTick, Ticking
<1>2. ToProbe \in Nat /\ ToProbe <= AfterDrop
  BY <1>1 DEF ToProbe
<1>3. pc = "dial" => Longer(left + AfterDial, ToTick) \in Nat /\ Longer(left + AfterDial, ToTick) <= Back
  BY <1>1 DEF Longer, Prompt
<1>4. pc = "echo" => left + AfterDrop \in Nat /\ left + AfterDrop <= Back
  BY DEF Prompt
<1>5. ToCalm \in Nat /\ ToCalm <= Back
  BY <1>1, <1>2, <1>3, <1>4 DEF ToCalm
<1> QED
  BY <1>1, <1>2, <1>5 DEF Near

(* ... neither in the state a step leads to. *)
LEMMA CalmBoundNext == Types' /\ Ticking' /\ Prompt' => Near'
BY CalmBound, PTL

(* A step that takes no time, and a second that is one of those left. *)
LEMMA Countdown ==
  ASSUME NEW a \in Nat, NEW b \in Nat, NEW x \in Nat, NEW y \in Nat, NEW n \in Nat, a + x <= n,
         (b = a /\ y <= x) \/ (b <= a + 1 /\ y + 1 <= x)
  PROVE  b + y <= n
OBVIOUS

(* A countdown that starts anew. *)
LEMMA Anew == ASSUME NEW y \in Nat, NEW n \in Nat, y <= n PROVE 0 + y <= n
OBVIOUS

(* A second of the cooldown c, with period p and the next tick after t, then u seconds. *)
LEMMA CoolingSecond ==
  ASSUME NEW c \in Nat, NEW p \in Nat, NEW t \in Nat, NEW u \in Nat, c > 0, u + 1 <= t, t <= p
  PROVE  (IF c - 1 > 0 THEN (c - 1) + p - 1 ELSE u) + 1 <= c + p - 1
OBVIOUS

(* A second of a dial that has l seconds left. *)
LEMMA DialingSecond ==
  ASSUME NEW l \in Nat, NEW k \in Nat, NEW t \in Nat, NEW u \in Nat, l > 0, k > 0,
         u = 0 \/ u + 1 <= t
  PROVE  Longer(l - 1 + k, u) + 1 <= Longer(l + k, t)
BY DEF Longer

(* The time since the path came back and the time left never add up to more than
   the worst case (startProber, openStream, dropAndFail). *)
LEMMA ReturningHolds == Spec => []Returning
<1>1. Init => Returning
  <2> SUFFICES ASSUME Init PROVE Returning
    OBVIOUS
  <2>1. pc = "select" /\ cool = 0 /\ age = 0 /\ "fast" \in armed /\ ready = {} /\ due.fast = FastPeriod
    BY DEF Init
  <2>2. ToCalm = FastPeriod
    BY <2>1 DEF ToCalm, ToProbe, ToTick
  <2> QED
    BY <2>1, <2>2, Periods, Sizes, Spans DEF Returning
<1>2. /\ Types /\ Types' /\ Seat /\ Seat' /\ Calm /\ Ticking /\ Ticking' /\ Prompt /\ Prompt'
      /\ Returning /\ [Next]_vars
      => Returning'
  <2> SUFFICES ASSUME Types, Types', Seat, Seat', Calm, Ticking, Ticking', Prompt, Prompt',
                      Returning, [Next]_vars, net' = "good", ~full', ~calm'
               PROVE  age' + ToCalm' <= Back
    BY SpansFixed DEF Returning
  <2>1. Near /\ Near'
    BY CalmBound, CalmBoundNext
  <2>2. age \in Nat /\ age' \in Nat
    BY Periods DEF Types, Counts, Oldest
  <2> USE Periods, Sizes, Spans, SpansFixed, <2>1, <2>2
  <2>18. PICK a \in Nat, b \in Nat, x \in Nat, y \in Nat :
           a = age /\ b = age' /\ x = ToCalm /\ y = ToCalm' /\ y <= Back
    BY DEF Near
  <2>3. ASSUME age' = 0 PROVE age' + ToCalm' <= Back
    <3>1. 0 + y <= Back
      BY <2>18, Anew
    <3> QED
      BY <2>3, <2>18, <3>1, Zenon
  <2>4. ASSUME net = "good", ~full, ~calm, age' = age, ToCalm' <= ToCalm
        PROVE  age' + ToCalm' <= Back
    <3>1. a + x <= Back
      BY <2>4, <2>18 DEF Returning
    <3>2. b = a /\ y <= x
      BY <2>4, <2>18, Zenon
    <3>3. b + y <= Back
      BY <3>1, <3>2, Countdown
    <3> QED
      BY <2>18, <3>3, Zenon
  <2>19. ASSUME net = "good", ~full, ~calm, age' <= age + 1, ToCalm' + 1 <= ToCalm
         PROVE  age' + ToCalm' <= Back
    <3>1. a + x <= Back
      BY <2>18, <2>19 DEF Returning
    <3>2. b <= a + 1 /\ y + 1 <= x
      BY <2>18, <2>19, Zenon
    <3>3. b + y <= Back
      BY <3>1, <3>2, Countdown
    <3> QED
      BY <2>18, <3>3, Zenon
  <2>5. CASE Fire
    <3>1. /\ pc = "select" /\ pc' = "lock" /\ ~late' /\ UNCHANGED <<cool, net, full, age, calm>>
          /\ "fast" \in armed' <=> "fast" \in armed
      BY <2>5 DEF Fire, Queue, path, world
    <3>2. CASE cool > 0
      <4>1. ToCalm = cool + Period - 1 /\ ToCalm' = cool + Period - 1
        BY <3>1, <3>2 DEF ToCalm, ToProbe, Period
      <4> QED
        BY <2>4, <3>1, <4>1 DEF Near
    <3>3. CASE ~(cool > 0)
      <4>1. ToCalm' = 0
        BY <3>1, <3>3 DEF ToCalm
      <4> QED
        BY <2>4, <3>1, <4>1 DEF Near
    <3> QED
      BY <3>2, <3>3
  <2>6. CASE Acquire
    <3>1. /\ pc = "lock" /\ net = "good" /\ ~full /\ ~calm /\ UNCHANGED <<age, late, cool, was>>
          /\ cool > 0 \/ cool = 0
      BY <2>6 DEF Acquire, ItsTurn, path, world, Types, Counts
    <3>2. CASE cool > 0
      <4>1. pc' = "select" /\ UNCHANGED <<armed, due, ready>>
        BY <2>6, <3>2 DEF Acquire, ItsTurn, timers, Types, Counts
      <4>2. ToCalm = cool + Period - 1 /\ ToCalm' = cool + Period - 1
        BY <3>1, <3>2, <4>1 DEF ToCalm, ToProbe, Period
      <4> QED
        BY <2>4, <3>1, <4>2 DEF Near
    <3>3. CASE cool = 0
      <4>1. pc' \in {"dial", "echo"} /\ clean'
        <5>1. Call("dial", DialTimeout) \/ Call("echo", EchoTimeout)
          BY <2>6, <3>1, <3>3 DEF Acquire, ItsTurn
        <5> QED
          BY <3>1, <5>1 DEF Call
      <4>2. ToCalm = IF ~late THEN 0 ELSE AfterDrop
        BY <3>1, <3>3 DEF ToCalm
      <4>3. ToCalm' <= ToCalm
        <5>1. CASE ~late
          BY <3>1, <4>1, <4>2, <5>1 DEF ToCalm
        <5>2. CASE late
          <6>1. ToCalm' = ToTick' \/ ToCalm' = AfterDrop
            BY <3>1, <4>1, <5>2 DEF ToCalm
          <6> QED
            BY <4>2, <5>2, <6>1 DEF Near
        <5> QED
          BY <5>1, <5>2
      <4> QED
        BY <2>4, <3>1, <4>3
    <3> QED
      BY <3>1, <3>2, <3>3
  <2>7. CASE OpenDone
    <3>1. /\ pc = "open" /\ pc' = "echo" /\ net = "good" /\ ~full /\ ~calm /\ clean'
          /\ UNCHANGED age
      BY <2>7 DEF OpenDone, Call, world
    <3>2. ToCalm = AfterDrop
      BY <3>1 DEF ToCalm
    <3>3. ToCalm' \in {0, AfterDrop} \/ ToCalm' = ToTick'
      BY <3>1 DEF ToCalm
    <3>4. ToCalm' <= ToCalm
      BY <3>2, <3>3 DEF Near
    <3> QED
      BY <2>4, <3>1, <3>4
  <2>8. CASE DialDone
    <3>1. /\ pc = "dial" /\ pc' = "echo" /\ net = "good" /\ ~calm /\ clean'
          /\ UNCHANGED <<age, late, was, armed, due, ready>>
      BY <2>8 DEF DialDone, Call, timers
    <3>2. ~full /\ ~was
      BY <3>1 DEF Seat, Prompt
    <3>3. ToTick' = ToTick
      BY <3>1 DEF ToTick
    <3>4. ToCalm' <= ToCalm
      <4>1. CASE ~late
        BY <3>1, <4>1 DEF ToCalm, Near
      <4>2. CASE late
        <5>1. ToCalm' = ToTick
          BY <3>1, <3>2, <3>3, <4>2 DEF ToCalm
        <5>2. ToCalm = AfterDrop \/ ToCalm = Longer(left + AfterDial, ToTick)
          BY <3>1, <4>2 DEF ToCalm
        <5>3. ToTick <= Longer(left + AfterDial, ToTick)
          BY DEF Longer, Types, Counts, Near
        <5> QED
          BY <5>1, <5>2, <5>3 DEF Near
      <4> QED
        BY <4>1, <4>2
    <3> QED
      BY <2>4, <3>1, <3>2, <3>4
  <2>9. CASE CallFails
    <3>1. /\ pc \in {"open", "echo"} /\ pc' = "failed" /\ left = 0 /\ conn = "open"
          /\ UNCHANGED <<conn, net, full, calm, age>> /\ (pc = "echo" => ~clean)
      BY <2>9 DEF CallFails, Queue, path, world, Seat, Prompt
    <3>2. ToCalm = AfterDrop \/ ToCalm = 0 + AfterDrop
      BY <3>1 DEF ToCalm
    <3>3. ToCalm' = AfterDrop
      BY <3>1 DEF ToCalm
    <3> QED
      BY <2>4, <3>1, <3>2, <3>3
  <2>10. CASE DialFails
    <3>1. /\ pc = "dial" /\ pc' = "failed" /\ left = 0 /\ conn' = "none" /\ ~calm /\ ~clean
          /\ UNCHANGED <<net, full, age>>
      BY <2>10 DEF DialFails, Queue, world, Seat, Prompt, Calm
    <3>2. ToCalm = Longer(0 + AfterDial, ToTick) /\ ToCalm' = AfterDial
      BY <3>1 DEF ToCalm
    <3>3. ToCalm' <= ToCalm
      BY <3>2 DEF Longer, Near
    <3> QED
      BY <2>4, <3>1, <3>3
  <2>11. CASE Failed
    <3>1. pc = "failed" /\ ~calm /\ UNCHANGED net
      BY <2>11 DEF Failed, Queue, ItsTurn, Calm
    <3>2. CASE conn = "open"
      <4>1. UNCHANGED <<full, age, conn>> /\ pc' \in {"drop", "select"}
        BY <2>11, <3>2 DEF Failed, Queue, ItsTurn, path
      <4>2. ToCalm = AfterDrop
        BY <3>1, <3>2 DEF ToCalm
      <4>3. ToCalm' = AfterDrop \/ ToCalm' = ToProbe'
        BY <4>1 DEF ToCalm
      <4>4. ToCalm' <= ToCalm
        BY <4>2, <4>3 DEF Near
      <4> QED
        BY <2>4, <3>1, <4>1, <4>4
    <3>3. CASE conn = "none"
      <4>1. ~full /\ UNCHANGED age /\ pc' = "select" /\ cool' = Cooldown /\ "fast" \in armed'
        BY <2>11, <3>3 DEF Failed, Queue, ItsTurn, DropAndFail, FastAgain, Prompt
      <4>2. ToCalm = AfterDial
        BY <3>1, <3>3 DEF ToCalm
      <4>3. ToCalm' = AfterDial
        <5>1. Period' = FastPeriod /\ cool' > 0
          BY <4>1 DEF Period
        <5>2. ToCalm' = cool' + Period' - 1
          BY <4>1, <5>1 DEF ToCalm, ToProbe
        <5> QED
          BY <4>1, <5>1, <5>2, Spans
      <4> QED
        BY <2>4, <3>1, <4>1, <4>2, <4>3
    <3> QED
      BY <3>2, <3>3 DEF Types, Places
  <2>12. CASE Drop
    <3>1. pc = "drop" /\ ~calm /\ UNCHANGED net /\ pc' = "select" /\ age' = IF full THEN 0 ELSE age
      BY <2>12 DEF Drop, ItsTurn, DropAndFail, Calm
    <3>2. ToCalm = AfterDrop /\ ToCalm' = ToProbe'
      BY <3>1 DEF ToCalm
    <3>3. ToCalm' <= ToCalm
      BY <3>2 DEF Near
    <3> QED
      BY <2>3, <2>4, <3>1, <3>3
  <2>13. CASE EchoDone
    <3>1. /\ pc = "echo" /\ pc' = "health" /\ net = "good" /\ ~full /\ ~calm
          /\ UNCHANGED <<age, late, was, armed, due, ready>>
      BY <2>13 DEF EchoDone, Queue, world, timers
    <3>2. ToTick' = ToTick
      BY <3>1 DEF ToTick
    <3>3. ToCalm' = IF ~late THEN 0 ELSE IF ~was THEN ToTick ELSE AfterDrop
      BY <3>1, <3>2 DEF ToCalm
    <3>4. ToCalm = IF ~clean THEN left + AfterDrop
                   ELSE IF ~late THEN 0 ELSE IF ~was THEN ToTick ELSE AfterDrop
      BY <3>1 DEF ToCalm
    <3>5. ToCalm' <= ToCalm
      BY <3>3, <3>4 DEF Near, Types, Counts
    <3> QED
      BY <2>4, <3>1, <3>5
  <2>20. CASE ProbeHealthy
    <3>1. /\ pc = "health" /\ net = "good" /\ ~full /\ cool' = 0 /\ late
          /\ pc' = (IF was THEN "drop" ELSE "select")
          /\ UNCHANGED <<age, armed, due, ready, calm>>
      <4>1. net = "good" /\ ~full
        BY <2>20 DEF ProbeHealthy, world
      <4>2. ~(calm' = (~full /\ net = "good"))
        BY <4>1
      <4> QED
        BY <2>20, <4>1, <4>2 DEF ProbeHealthy, Queue, world, timers, Seat
    <3>2. ToTick' = ToTick
      BY <3>1 DEF ToTick
    <3>3. ToCalm' = IF was THEN AfterDrop ELSE ToTick
      BY <3>1, <3>2 DEF ToCalm, ToProbe
    <3>4. ToCalm = IF was THEN AfterDrop ELSE ToTick
      BY <3>1 DEF ToCalm
    <3>5. ToCalm' <= ToCalm
      BY <3>3, <3>4 DEF Near
    <3> QED
      BY <2>4, <3>1, <3>5
  <2>14. CASE UserComes \/ UserTakes \/ UserReturns
    <3>1. UNCHANGED <<pc, left, clean, late, was, streak, timers, conn, cool, net, full, age, calm>>
      BY <2>14 DEF UserComes, UserTakes, UserReturns, prober, path, world
    <3>2. ToCalm' = ToCalm
      BY <3>1 DEF timers, ToCalm, ToProbe, ToTick, Period
    <3> QED
      BY <2>4, <3>1, <3>2 DEF Near
  <2>15. CASE Turn \/ Crowd
    BY <2>3, <2>15 DEF Turn, Crowd
  <2>16. CASE Second
    <3>1. /\ UNCHANGED <<pc, clean, was, armed, conn>> /\ net = "good" /\ ~full /\ ~calm /\ ~Urgent
          /\ age' <= age + 1
      BY <2>16 DEF Second
    <3>2. pc \in {"select", "dial", "echo"}
      BY <3>1 DEF Urgent, Types, Places, Seat
    <3>3. Period' = Period
      BY <3>1 DEF Period
    <3>4. CASE pc = "select"
      <4>1. ToTick' + 1 <= ToTick
        BY <2>16, <3>1, <3>4, TickNears DEF Urgent
      <4>2. ToCalm = ToProbe /\ ToCalm' = ToProbe'
        BY <3>1, <3>4 DEF ToCalm
      <4>3. CASE cool > 0
        <5>1. cool' = cool - 1
          BY <2>16, <4>3 DEF Second, Less, Types, Counts
        <5>2. ToCalm' + 1 <= ToCalm
          <6>1. /\ cool \in Nat /\ Period \in Nat /\ ToTick \in Nat /\ ToTick' \in Nat
                /\ ToTick <= Period
            BY DEF Near, Types, Counts
          <6>2. (IF cool - 1 > 0 THEN (cool - 1) + Period - 1 ELSE ToTick') + 1 <= cool + Period - 1
            BY <4>1, <4>3, <6>1, CoolingSecond
          <6>3. ToProbe = cool + Period - 1
            BY <4>3 DEF ToProbe
          <6>4. ToProbe' = IF cool - 1 > 0 THEN (cool - 1) + Period - 1 ELSE ToTick'
            BY <3>3, <5>1 DEF ToProbe
          <6> QED
            BY <4>2, <6>2, <6>3, <6>4, Zenon
        <5> QED
          BY <2>19, <3>1, <5>2
      <4>4. CASE ~(cool > 0)
        <5>1. ~(cool' > 0)
          BY <2>16, <4>4 DEF Second, Less, Types, Counts
        <5>2. ToCalm' + 1 <= ToCalm
          BY <4>1, <4>2, <4>4, <5>1 DEF ToProbe
        <5> QED
          BY <2>19, <3>1, <5>2
      <4> QED
        BY <4>3, <4>4
    <3>5. CASE pc \in {"dial", "echo"}
      <4>1. ~clean /\ left # 0 /\ left' = left - 1
        BY <2>16, <3>1, <3>5 DEF Urgent, Second, Less
      <4>2. CASE pc = "echo"
        <5>1. ToCalm = left + AfterDrop /\ ToCalm' = left' + AfterDrop
          BY <3>1, <4>1, <4>2 DEF ToCalm
        <5>2. ToCalm' + 1 <= ToCalm
          BY <4>1, <5>1 DEF Types, Counts
        <5> QED
          BY <2>19, <3>1, <5>2
      <4>3. CASE pc = "dial"
        <5>1. ToCalm = Longer(left + AfterDial, ToTick) /\ ToCalm' = Longer(left' + AfterDial, ToTick')
          BY <3>1, <4>1, <4>3 DEF ToCalm
        <5>2. ToTick' = 0 \/ ToTick' + 1 <= ToTick
          BY <2>16, TickNears
        <5>3. ToCalm' + 1 <= ToCalm
          <6>1. left \in Nat /\ ToTick \in Nat /\ ToTick' \in Nat /\ left > 0
            BY <4>1 DEF Near, Types, Counts
          <6>2. AfterDial \in Nat /\ AfterDial > 0
            BY DEF AfterDial
          <6>3. Longer(left - 1 + AfterDial, ToTick') + 1 <= Longer(left + AfterDial, ToTick)
            BY <5>2, <6>1, <6>2, DialingSecond
          <6> QED
            BY <4>1, <5>1, <6>3, Zenon
        <5> QED
          BY <2>19, <3>1, <5>3
      <4> QED
        BY <3>5, <4>2, <4>3
    <3> QED
      BY <3>2, <3>4, <3>5
  <2>17. CASE UNCHANGED vars
    <3>1. UNCHANGED <<prober, timers, conn, cool, net, full, age, calm>>
      BY <2>17 DEF vars, path, world
    <3>2. ToCalm' = ToCalm
      BY <3>1 DEF prober, timers, ToCalm, ToProbe, ToTick, Period
    <3> QED
      BY <2>4, <3>1, <3>2 DEF Near
  <2> QED
    BY <2>5, <2>6, <2>7, <2>8, <2>9, <2>10, <2>11, <2>12, <2>13, <2>14, <2>15, <2>16, <2>17, <2>20
       DEF Next, Probe
<1> QED
  BY <1>1, <1>2, Typing, SeatHolds, CalmHolds, TickingHolds, PromptHolds, PTL DEF Spec

(* Whatever the outage left behind (a call that hangs, a cooldown, a slow cadence, a
   streak, a user with d.mu), a path that works again is verified again within Back
   seconds: 14 for the periods of the source, the very bound the run finds tight
   (startProber, openStream, dropAndFail, MarkVerified). *)
THEOREM BoundedRegain == Regain >= Back => (Spec => []RegainedInTime)
<1> SUFFICES ASSUME Regain >= Back PROVE Spec => []RegainedInTime
  OBVIOUS
<1>1. Types /\ Calm /\ Ticking /\ Prompt /\ Returning => RegainedInTime
  <2> SUFFICES ASSUME Types, Calm, Ticking, Prompt, Returning, net = "good", ~full, age > Regain
               PROVE  verify > 0
    BY DEF RegainedInTime
  <2>1. age \in Nat /\ Near
    BY CalmBound, Periods DEF Types, Counts, Oldest
  <2>2. calm
    BY <2>1, Periods, Spans DEF Returning, Near
  <2> QED
    BY <2>2, Periods DEF Calm, Types, Counts
<1> QED
  BY <1>1, Typing, CalmHolds, TickingHolds, PromptHolds, ReturningHolds, PTL
=============================================================================
