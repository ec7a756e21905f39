\* One user and the prober, through every change of the network.
SPECIFICATION FairSpec
CONSTANTS
  u1 = u1
  u2 = u2
  c1 = c1
  c2 = c2
  c3 = c3
  Users <- OneUser
  Prober = prober
  Conns <- TwoConns
  None = none
  Limit = 2
  Nets = {"up", "black"}
  Outages = {}
PROPERTIES Upgrade Cutover EveryoneServed
