--------------------------- MODULE FailoverProofs ---------------------------
(***************************************************************************)
(* Machine-checked proofs about the failover monitor, for any limits, alone *)
(* and beside the peerings and the prober of Peerings.                      *)
(***************************************************************************)
EXTENDS Peerings, TLAPS

USE LimitsAssumption DEF Longest

Samples == {"direct", "mesh"} \X {"good", "bad"}

(* Remembering one more sample, with or without forgetting the oldest, extends
   the row of equal samples at the end by one. *)
LEMMA OneMore ==
  ASSUME state \in {"direct", "mesh"}, recent \in Seq(Samples), Len(recent) <= Longest,
         NEW ok \in {"good", "bad"}, Remember(ok),
         NEW n \in Nat, LatestAre(recent, n, state, ok),
         NEW k \in Nat, k <= n + 1, k <= Longest
  PROVE  LatestAre(recent', k, state, ok)
<1> DEFINE longer == Append(recent, <<state, ok>>)
<1>1. /\ longer \in Seq(Samples) /\ Len(longer) = Len(recent) + 1
      /\ longer[Len(recent) + 1] = <<state, ok>>
      /\ \A i \in 1..Len(recent) : longer[i] = recent[i]
  BY DEF Samples
<1>2. \A i \in Len(longer) - k + 1 .. Len(longer) : i >= 1 => longer[i] = <<state, ok>>
  BY <1>1 DEF LatestAre
<1> HIDE DEF longer
<1>3. CASE Len(longer) > Longest
  <2>1. recent' = Tail(longer)
    BY <1>3 DEF Remember, longer
  <2>2. Len(recent') = Len(longer) - 1 /\ \A i \in 1..Len(recent') : recent'[i] = longer[i + 1]
    BY <1>1, <2>1
  <2>3. Len(recent') >= k
    BY <1>1, <1>3, <2>2
  <2>4. ASSUME NEW i \in Len(recent') - k + 1 .. Len(recent') PROVE recent'[i] = <<state, ok>>
    <3>1. i \in 1..Len(recent') /\ i + 1 \in Len(longer) - k + 1 .. Len(longer) /\ i + 1 >= 1
      BY <1>1, <2>2, <2>3
    <3> QED
      BY <1>2, <2>2, <3>1
  <2> QED
    BY <2>3, <2>4 DEF LatestAre
<1>4. CASE Len(longer) <= Longest
  <2>1. recent' = longer
    BY <1>1, <1>4 DEF Remember, longer
  <2>2. Len(longer) >= k
    BY <1>1 DEF LatestAre
  <2> QED
    BY <1>1, <1>2, <2>1, <2>2 DEF LatestAre
<1> QED
  BY <1>1, <1>3, <1>4

(* The history keeps its type and its length. *)
LEMMA HistoryKept ==
  ASSUME state \in {"direct", "mesh"}, recent \in Seq(Samples), Len(recent) <= Longest,
         NEW ok \in {"good", "bad"}, Remember(ok)
  PROVE  recent' \in Seq(Samples) /\ Len(recent') <= Longest
<1> DEFINE longer == Append(recent, <<state, ok>>)
<1>1. longer \in Seq(Samples) /\ Len(longer) = Len(recent) + 1
  BY DEF Samples
<1> HIDE DEF longer
<1>2. recent' = IF Len(longer) > Longest THEN Tail(longer) ELSE longer
  BY DEF Remember, longer
<1> QED
  BY <1>1, <1>2

(* The monitor's variables keep their types (failoverMonitor.Run). *)
THEOREM TypeCorrect == Spec => []TypeOK
<1>1. Init => TypeOK
  BY DEF Init, TypeOK, Links
<1>2. TypeOK /\ [Next]_vars => TypeOK'
  <2> SUFFICES ASSUME TypeOK, [Next]_vars PROVE TypeOK'
    OBVIOUS
  <2> USE DEF TypeOK, Links
  <2>1. ASSUME NEW ok \in {"good", "bad"}, Remember(ok)
        PROVE  recent' \in Seq({"direct", "mesh"} \X {"good", "bad"}) /\ Len(recent') <= Longest
    BY <2>1, HistoryKept DEF Samples
  <2>2. CASE GoodSample
    <3>1. recent' \in Seq({"direct", "mesh"} \X {"good", "bad"}) /\ Len(recent') <= Longest
      BY <2>1, <2>2 DEF GoodSample
    <3> QED
      BY <2>2, <3>1 DEF GoodSample, ForgiveBad
  <2>3. CASE BadSample
    <3>1. recent' \in Seq({"direct", "mesh"} \X {"good", "bad"}) /\ Len(recent') <= Longest
      BY <2>1, <2>3 DEF BadSample
    <3>2. bad' \in 0..DegradeLimit
      BY <2>3 DEF BadSample, CountTo
    <3>3. /\ state' \in {"direct", "mesh"} /\ good' \in 0..RecoverLimit
          /\ peered' \in BOOLEAN /\ link' \in {"down", "good", "slow"}
      <4>1. \/ UNCHANGED <<state, good, peered, link>>
            \/ state' = "mesh" /\ good' = 0 /\ peered' = FALSE /\ link' = "down"
        BY <2>3 DEF BadSample, RemovePeer
      <4>2. peered' \in BOOLEAN
        BY <4>1
      <4> QED
        BY <4>1, <4>2
    <3> QED
      BY <2>3, <3>1, <3>2, <3>3 DEF BadSample
  <2>4. CASE Probe
    <3>1. recent' \in Seq({"direct", "mesh"} \X {"good", "bad"}) /\ Len(recent') <= Longest
      BY <2>1, <2>4 DEF Probe, ProbeDirect
    <3>2. good' \in 0..RecoverLimit
      BY <2>4 DEF Probe, CountTo
    <3>3. state' \in {"direct", "mesh"} /\ bad' \in 0..DegradeLimit /\ peered' \in BOOLEAN
      <4>1. \/ UNCHANGED <<state, bad, peered>>
            \/ state' = "direct" /\ bad' = 0 /\ peered' = TRUE
        BY <2>4 DEF Probe, AddPeer
      <4>2. peered' \in BOOLEAN
        BY <4>1
      <4> QED
        BY <4>1, <4>2
    <3> QED
      BY <2>4, <3>1, <3>2, <3>3 DEF Probe
  <2>5. CASE Outside
    BY <2>5 DEF Outside
  <2>6. CASE UNCHANGED vars
    BY <2>6 DEF vars
  <2> QED
    BY <2>2, <2>3, <2>4, <2>5, <2>6 DEF Next, Tick
<1> QED
  BY <1>1, <1>2, PTL DEF Spec

(* The counter of the current state counts samples that were in a row. *)
InARow == /\ state = "direct" => LatestAre(recent, bad, "direct", "bad")
          /\ state = "mesh" => LatestAre(recent, good, "mesh", "good")

(* A step keeps the counters honest, and toggles the peering only on a full
   row. *)
Honest == /\ InARow'
          /\ peered /\ ~peered' => LatestAre(recent', DegradeLimit, "direct", "bad")
          /\ ~peered /\ peered' => LatestAre(recent', RecoverLimit, "mesh", "good")

\* Every step of the monitor and of its surroundings keeps the counters honest about
\* the samples, and toggles the peering only on a full count.
LEMMA HonestStep ==
  ASSUME TypeOK, TypeOK', InARow, [Next]_vars
  PROVE  Honest
<1>0. recent \in Seq(Samples) /\ Len(recent) <= Longest /\ state \in {"direct", "mesh"}
  BY DEF TypeOK, Samples
<1>1. LatestAre(recent', 0, "direct", "bad") /\ LatestAre(recent', 0, "mesh", "good")
  <2>1. Len(recent') \in Nat
    BY DEF TypeOK
  <2> QED
    BY <2>1 DEF LatestAre
<1>2. CASE GoodSample
  BY <1>1, <1>2 DEF GoodSample, ForgiveBad, Honest, InARow
<1>3. CASE BadSample
  <2>1. /\ state = "direct" /\ bad \in Nat /\ bad' \in Nat
        /\ bad' <= bad + 1 /\ bad' <= Longest /\ Remember("bad")
    BY <1>3 DEF BadSample, CountTo, TypeOK
  <2>2. LatestAre(recent, bad, state, "bad")
    BY <2>1 DEF InARow
  <2>3. LatestAre(recent', bad', "direct", "bad")
    BY <1>0, <2>1, <2>2, OneMore
  <2>4. /\ UNCHANGED <<state, peered>> \/ (state' = "mesh" /\ good' = 0 /\ ~peered')
        /\ ~peered' => ~peered \/ bad' = DegradeLimit
    BY <1>3 DEF BadSample, RemovePeer, TypeOK
  <2> QED
    BY <1>1, <2>1, <2>3, <2>4 DEF Honest, InARow
<1>4. CASE Probe
  <2>1. state = "mesh" /\ good \in Nat /\ good' \in Nat /\ good' <= Longest /\ ProbeDirect \in BOOLEAN
    BY <1>4 DEF Probe, CountTo, ProbeDirect, TypeOK
  <2>2. LatestAre(recent', good', "mesh", "good")
    <3>1. CASE ProbeDirect
      <4>1. good' <= good + 1 /\ Remember("good") /\ LatestAre(recent, good, state, "good")
        BY <1>4, <2>1, <3>1 DEF Probe, CountTo, ProbeDirect, InARow, TypeOK
      <4> QED
        BY <1>0, <2>1, <4>1, OneMore
    <3>2. CASE ~ProbeDirect
      BY <1>1, <1>4, <3>2 DEF Probe
    <3> QED
      BY <3>1, <3>2
  <2>3. /\ UNCHANGED <<state, peered>> \/ (state' = "direct" /\ bad' = 0 /\ peered')
        /\ peered' => peered \/ good' = RecoverLimit
    BY <1>4 DEF Probe, AddPeer, TypeOK
  <2> QED
    BY <1>1, <2>1, <2>2, <2>3 DEF Honest, InARow
<1>5. CASE Outside \/ UNCHANGED vars
  BY <1>5 DEF Outside, vars, Honest, InARow
<1> QED
  BY <1>2, <1>3, <1>4, <1>5 DEF Next, Tick

(* Hysteresis: whatever the link, the endpoint and the node do, and however
   often a call fails, the peering is removed only on DegradeLimit bad samples
   in a row and restored only on RecoverLimit good probes in a row
   (failoverMonitor.Run). *)
THEOREM Hysteresis == Spec => Patient
<1>1. Init => InARow
  BY DEF Init, InARow, LatestAre
<1>2. TypeOK /\ TypeOK' /\ InARow /\ [Next]_vars => InARow'
  BY HonestStep DEF Honest
<1>3. TypeOK /\ TypeOK' /\ InARow /\ [Next]_vars =>
        [/\ peered /\ ~peered' => LatestAre(recent', DegradeLimit, "direct", "bad")
         /\ ~peered /\ peered' => LatestAre(recent', RecoverLimit, "mesh", "good")]_vars
  BY HonestStep DEF Honest
<1> QED
  BY <1>1, <1>2, <1>3, TypeCorrect, PTL DEF Spec, Patient

-----------------------------------------------------------------------------
(* The monitor beside the peerings and the prober.                         *)

(* Beside them the monitor behaves as it does alone: what the core, the probes
   and the other peerings do is a step of its surroundings or no step of it. *)
LEMMA MonitorAlone == PSpec => Spec
<1>1. PInit => Init
  BY DEF PInit
<1>2. [PNext]_allVars => [Next]_vars
  <2>1. LinkUp => Outside
    BY DEF LinkUp, Outside, Links
  <2> QED
    BY <2>1 DEF PNext, Monitor, ProbePath, Lapse, World, Next, allVars, vars
<1> QED
  BY <1>1, <1>2, PTL DEF PSpec, Spec

(* The hysteresis holds in the composition too. *)
THEOREM ComposedHysteresis == PSpec => Patient
BY MonitorAlone, Hysteresis

(* The monitor's variables and those of the composition keep their types
   (failoverMonitor.Run, meshActive, startProber). *)
THEOREM ComposedTypes == PSpec => []PTypeOK
<1> DEFINE MeshOK == others \in BOOLEAN /\ udp \in BOOLEAN /\ verified \in BOOLEAN
<1>1. PInit => MeshOK
  BY DEF PInit
<1>2. MeshOK /\ [PNext]_allVars => MeshOK'
  BY DEF PNext, Monitor, ProbePath, Lapse, LinkUp, World, allVars, mesh
<1>3. TypeOK /\ MeshOK => PTypeOK
  BY DEF PTypeOK
<1> QED
  BY <1>1, <1>2, <1>3, MonitorAlone, TypeCorrect, PTL DEF PSpec
=============================================================================
