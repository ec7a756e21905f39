--------------------------- MODULE MCTunnelStream ---------------------------
(* Instances of TunnelStream for TLC. *)
EXTENDS TunnelStream

ThreeBytes == <<"a", "b", "c">>
TwoBytes == <<"r", "s">>
OneByte == <<"a">>
FourBytes == <<"r", "s", "t", "u">>
=============================================================================
