\* The periods of the source; the path may turn at any second.  Cut and Regain are the
\* least values with which the run passes.
SPECIFICATION Spec
CONSTANTS
  FirstProbe = 2
  FastPeriod = 5
  RetryPeriod = 10
  DialTimeout = 5
  OpenTimeout = 10
  EchoTimeout = 3
  Cooldown = 2
  Limit = 2
  MaxLine = 2
  Cut = 99
  Regain = 14
INVARIANTS TypeOK StaysVerified CutInTime RegainedInTime
