\* The prober's own downgrade and the cadence it leaves behind.
SPECIFICATION Spec
CONSTANTS
  u1 = u1
  u2 = u2
  c1 = c1
  c2 = c2
  c3 = c3
  Users <- OneUser
  Prober = prober
  Conns <- TwoConns
  None = none
  Limit = 2
  Nets = {"lossy"}
  Outages = {}
PROPERTIES FastAfterOwnDowngrade
