\* Two users and the prober race over two connection identities. A lossy network
\* may do whatever a good or a black-holed one does.
SPECIFICATION Spec
CONSTANTS
  u1 = u1
  u2 = u2
  c1 = c1
  c2 = c2
  c3 = c3
  Users <- TwoUsers
  Prober = prober
  Conns <- TwoConns
  None = none
  Limit = 2
  Nets = {"lossy"}
  Outages = {"mesh", "idle"}
SYMMETRY Symmetry
INVARIANTS TypeOK LockDiscipline NothingLeaks AlwaysWatched DisplaySynced
PROPERTIES OnlyProberKills IsSingleConn
