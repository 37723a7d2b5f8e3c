SPECIFICATION Spec
CONSTANTS
  Hosts = {hA, hB}
  Nobody = Nobody
  Stamps = {0, 1, 2}
  Details = {d1, d2}
SYMMETRY HostSymmetry
INVARIANTS
  FollowsPrecedence
  StateOrderFree
  SidesSwap
