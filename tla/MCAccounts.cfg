SPECIFICATION Spec
CONSTANTS
  Request = {r1, r2, r3, r4}
  Browser = {b1, b2}
  Subject = {s}
  ProviderName = {p, q}
  Username <- Names
  MaxRemovals = 1
  MaxFailures = 1
SYMMETRY Symmetric
INVARIANTS AnswersAreTrue LoginIsOwnIdentity
PROPERTY BookIsAtomic
