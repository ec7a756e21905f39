\* Two users open on the same living connection.
SPECIFICATION Spec
CONSTANTS
  u1 = u1
  u2 = u2
  c1 = c1
  c2 = c2
  c3 = c3
  Users <- TwoUsers
  Prober = prober
  Conns <- TwoConns
  None = none
  Limit = 2
  Nets = {"lossy"}
  Outages = {}
PROPERTIES OpensNeverQueue
