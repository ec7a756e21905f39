------------------------------ MODULE Peerings ------------------------------
(***************************************************************************)
(* The failover monitor beside what depends on the peerings it toggles:    *)
(* client.meshActive (tunnel.go), which lets the mesh channel dial and the *)
(* prober probe, and through the prober the direct channel (direct.go).    *)
(* The prober is reduced to what it leaves in verifiedUntil; DirectPath    *)
(* has it in full.                                                         *)
(***************************************************************************)
EXTENDS Failover

VARIABLES
  others,   \* one of the peerings of the -peers list is up
  udp,      \* UDP to the server carries probes
  verified  \* directClient.IsVerified()

mesh == <<others, udp, verified>>
allVars == <<vars, mesh>>

\* ConnectedPeerCount() > 0; the faulty variant counts the -peers list only.
CountOthers == others
MeshActive == link # "down" \/ others

PInit == Init /\ others \in BOOLEAN /\ udp \in BOOLEAN /\ verified = FALSE

Monitor == Tick /\ UNCHANGED mesh

\* One probe: without a peering it is skipped; a good one verifies, a failed one
\* may be the last of a streak.
ProbePath ==
  /\ MeshActive
  /\ \/ udp /\ verified' = TRUE
     \/ ~udp /\ verified' \in {verified, FALSE}
  /\ UNCHANGED <<vars, others, udp>>

\* The verification TTL passes.
Lapse == verified /\ verified' = FALSE /\ UNCHANGED <<vars, others, udp>>

\* The Yggdrasil core keeps dialling a configured peering.
LinkUp ==
  /\ peered /\ reach /\ link = "down" /\ link' = "good"
  /\ UNCHANGED <<state, bad, good, peered, reach, core, recent, mesh>>

World ==
  \/ Outside /\ UNCHANGED mesh
  \/ others' = ~others /\ UNCHANGED <<vars, udp, verified>>
  \/ udp' = ~udp /\ UNCHANGED <<vars, others, verified>>

PNext == Monitor \/ ProbePath \/ Lapse \/ LinkUp \/ World

PSpec == PInit /\ [][PNext]_allVars

\* The tickers of the monitor and of the prober fire.  AddPeer dials at once, so of
\* all the restored peerings one comes up within the DegradeLimit ticks after which
\* the monitor would remove it again (strong fairness of LinkUp).
FairPSpec == PSpec /\ WF_allVars(Monitor) /\ WF_allVars(ProbePath) /\ SF_allVars(LinkUp)

-----------------------------------------------------------------------------
PTypeOK == TypeOK /\ others \in BOOLEAN /\ udp \in BOOLEAN /\ verified \in BOOLEAN

\* The link of a configured peering neither slows down nor breaks.
Steady == <>[](link # "slow") /\ <>[][link' = "down" => ~peered']_link

\* Even a monitor that has taken down the last peering, and stopped the prober
\* with it, does not strand the direct path: it is verified again and again once
\* the server answers, if the peering could be configured at the start
\* (failover.go:112-129, tunnel.go:327-332, direct.go:665-667).
DirectRecovers ==
  peered /\ Steady /\ <>[](udp /\ reach /\ core = "ok") => []<>verified
=============================================================================
