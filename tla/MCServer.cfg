SPECIFICATION FairServerSpec
CONSTANTS
  Request = {r1, r2, r3}
  Browser = {b}
  Subject = {s}
  ProviderName = {p}
  Username <- Names
  MaxRemovals = 1
  MaxFailures = 1
  Worker = {w1, w2}
  PoolSize = 2
  Threads = 2
INVARIANT OnlyLoginsExhaustThePool
PROPERTY EveryRequestIsAnswered
