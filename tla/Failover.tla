------------------------------ MODULE Failover ------------------------------
(***************************************************************************)
(* failoverMonitor.Run of internal/yggss/failover.go, and the calls of     *)
(* node.go it makes: the direct peering with the server is removed when it *)
(* degrades, so that Yggdrasil routes through the mesh peers, and restored *)
(* when its endpoint answers again.  One action is one tick of the         *)
(* monitor; the link and the endpoint change between ticks.  Peerings adds *)
(* what depends on the peering, and the fairness.                          *)
(***************************************************************************)
EXTENDS Naturals, Sequences

CONSTANTS DegradeLimit,  \* failoverDegradeLimit
          RecoverLimit   \* failoverRecoverLimit

ASSUME LimitsAssumption == DegradeLimit \in Nat \ {0} /\ RecoverLimit \in Nat \ {0}

VARIABLES
  state,   \* "direct" or "mesh"
  bad,     \* consecutive bad samples, saturating at DegradeLimit
  good,    \* consecutive good probes, saturating at RecoverLimit
  peered,  \* the direct peering is configured in the node
  link,    \* the direct link: "down", "good" or "slow" (latency over the threshold)
  reach,   \* the server's endpoint accepts a TCP connection in time
  core,    \* whether the node's AddPeer and RemovePeer succeed: "ok", "failing"
  recent   \* history: the latest samples, each <<state, outcome>>

vars == <<state, bad, good, peered, link, reach, core, recent>>

Longest == IF DegradeLimit > RecoverLimit THEN DegradeLimit ELSE RecoverLimit
Links == {"down", "good", "slow"}

\* main's own AddPeer may have failed, with a warning: then the monitor, which begins
\* in DIRECT, has nothing to remove and never comes to add the peering.
Init ==
  /\ state = "direct" /\ bad = 0 /\ good = 0
  /\ peered \in BOOLEAN /\ link \in (IF peered THEN Links ELSE {"down"}) /\ reach \in BOOLEAN
  /\ core = "ok" /\ recent = << >>

Remember(outcome) ==
  LET longer == Append(recent, <<state, outcome>>)
  IN recent' = IF Len(longer) > Longest THEN Tail(longer) ELSE longer

\* A good sample; the faulty variant only stops counting.
KeepBad == UNCHANGED bad
ForgiveBad == bad' = 0

\* probeDirect bypasses the mesh; the faulty variant probes through the link.
ProbeThroughLink == reach /\ link = "good"
ProbeDirect == reach

\* RemovePeer and AddPeer, and the change of state on success; the core does not
\* remove a peering it does not have.  In the faulty variant the monitor changes
\* state although the call failed.
RemovePeerUnchecked ==
  /\ state' = "mesh" /\ good' = 0
  /\ IF core = "ok" THEN peered' = FALSE /\ link' = "down" ELSE UNCHANGED <<peered, link>>
RemovePeer ==
  IF core = "ok" /\ peered THEN state' = "mesh" /\ good' = 0 /\ peered' = FALSE /\ link' = "down"
  ELSE UNCHANGED <<state, good, peered, link>>
AddPeer ==
  IF core = "ok" THEN state' = "direct" /\ bad' = 0 /\ peered' = TRUE
  ELSE UNCHANGED <<state, bad, peered>>

\* A counter compared with >= at its limit; the faulty variant never stops.
CountOn(n, limit) == n + 1
CountTo(n, limit) == IF n = limit THEN limit ELSE n + 1

\* DIRECT: a sample within the threshold, ...
GoodSample ==
  /\ state = "direct" /\ link = "good"
  /\ ForgiveBad /\ Remember("good")
  /\ UNCHANGED <<state, good, peered, link, reach, core>>

\* ... or one over it or without a link; at the limit the peering is removed,
\* at the next bad sample again if that failed.
BadSample ==
  /\ state = "direct" /\ link # "good"
  /\ bad' = CountTo(bad, DegradeLimit) /\ Remember("bad")
  /\ IF bad' = DegradeLimit THEN RemovePeer ELSE UNCHANGED <<state, good, peered, link>>
  /\ UNCHANGED <<reach, core>>

\* MESH: the endpoint is probed out of band; at the limit the peering is
\* restored, at the next good probe again if that failed.
Probe ==
  /\ state = "mesh"
  /\ good' = IF ProbeDirect THEN CountTo(good, RecoverLimit) ELSE 0
  /\ Remember(IF ProbeDirect THEN "good" ELSE "bad")
  /\ IF good' = RecoverLimit THEN AddPeer ELSE UNCHANGED <<state, bad, peered>>
  /\ UNCHANGED <<link, reach, core>>

Tick == GoodSample \/ BadSample \/ Probe

\* The link of a configured peering comes, goes and degrades; so does the way
\* to the endpoint.
Outside ==
  /\ \/ peered /\ link' \in Links \ {link} /\ UNCHANGED <<reach, core>>
     \/ reach' = ~reach /\ UNCHANGED <<link, core>>
     \/ core' \in {"ok", "failing"} \ {core} /\ UNCHANGED <<link, reach>>
  /\ UNCHANGED <<state, bad, good, peered, recent>>

Next == Tick \/ Outside

Spec == Init /\ [][Next]_vars

-----------------------------------------------------------------------------
TypeOK ==
  /\ state \in {"direct", "mesh"} /\ peered \in BOOLEAN
  /\ bad \in 0..DegradeLimit /\ good \in 0..RecoverLimit
  /\ link \in Links /\ reach \in BOOLEAN /\ core \in {"ok", "failing"}
  /\ recent \in Seq({"direct", "mesh"} \X {"good", "bad"}) /\ Len(recent) <= Longest

\* The latest n samples were all <<st, outcome>>.
LatestAre(samples, n, st, outcome) ==
  /\ Len(samples) >= n
  /\ \A i \in Len(samples) - n + 1 .. Len(samples) : samples[i] = <<st, outcome>>

\* Hysteresis: the peering is taken down only on DegradeLimit bad samples in a
\* row of the direct link, and put back only on RecoverLimit good probes in a
\* row, whatever calls failed in between (failover.go:19-23, 30-38).
Patient ==
  [][/\ peered /\ ~peered' => LatestAre(recent', DegradeLimit, "direct", "bad")
     /\ ~peered /\ peered' => LatestAre(recent', RecoverLimit, "mesh", "good")]_vars

\* A link that stays bad is not kept: the peering is removed (again and again,
\* should the endpoint keep answering) (failover.go:32-35).
Removed == <>[](link # "good" /\ core = "ok") => []<>~peered

\* An endpoint that stays reachable gets its peering back, if main's own AddPeer made
\* one in the first place (failover.go:36-38).
Restored == peered /\ <>[](reach /\ core = "ok") => []<>peered
=============================================================================
