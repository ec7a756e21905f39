\* Two handlers share the cached connection through every outage.
SPECIFICATION FairSpec
CONSTANTS
  Users = {u1, u2}
  Conns = {c1, c2, c3}
  None = none
INVARIANTS TypeOK NothingLeaks AlwaysWatched
PROPERTIES IsSingleConn FailsFast EveryoneServed
